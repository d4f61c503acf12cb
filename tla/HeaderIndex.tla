---------------------------- MODULE HeaderIndex ----------------------------
(***************************************************************************)
(* How a header's name in a request is turned into the header's number:    *)
(* http_header.c sorts an index over its table by 16-bit hashes once, when *)
(* the program starts, and searches it for every header it reads.          *)
(*                                                                         *)
(* The table is a parameter, so that what is proved does not depend on the *)
(* 87 names of today.  Positions and numbers start at 1 here and at 0 in   *)
(* the code; the -1 of a search that found nothing is 0.                   *)
(***************************************************************************)
EXTENDS Integers

CONSTANTS N,          (* number of headers in the table *)
          Hash,       (* the hash of each *)
          Name,       (* names that may stand in a request *)
          NameHash,   (* the hash of each *)
          NulFree,    (* those of them without a NUL byte *)
          Resembles,  (* the headers a name agrees with as far as it goes, *)
                      (* which is up to a NUL *)
          Meant       (* the header of that name up to a NUL, 0 for none *)

Field == 1 .. N

ASSUME IndexAssumption ==
    /\ N \in 1 .. 127   (* entries of the index are int8_t *)
    /\ Name # {} /\ NulFree \subseteq Name
    /\ Hash \in [Field -> Int] /\ NameHash \in [Name -> Int]
    /\ Resembles \in [Name -> SUBSET Field]
    /\ Meant \in [Name -> Field \cup {0}]

(* The table decides whether a hash may stand for a name: two headers      *)
(* never have the same, no beginning of a header's name has the header's,  *)
(* and a header's name has it unless NULs behind the name change it.       *)
ASSUME HashesIdentify ==
    /\ \A f, g \in Field : f < g => Hash[f] # Hash[g]
    /\ \A n \in Name, f \in Field :
          NameHash[n] = Hash[f] /\ f \in Resembles[n] => Meant[n] = f
    /\ \A n \in NulFree, f \in Field :
          Meant[n] = f => NameHash[n] = Hash[f] /\ f \in Resembles[n]

VARIABLES hash,       (* the hashes in the table *)
          index,      (* http_header_fields_index *)
          ipc,        (* "fill", "sort", "ready" or "search" *)
          i, j,       (* the loops of the sort *)
          name,       (* what is searched for *)
          target,     (* and its hash *)
          low, high,  (* where *)
          found       (* what the last search returned *)

indexVars == <<hash, index, ipc, i, j, name, target, low, high, found>>

IndexInit ==
    /\ hash = [f \in Field |-> 0]
    /\ index = [p \in Field |-> 1]
    /\ ipc = "fill"
    /\ i = 0 /\ j = 0
    /\ name = CHOOSE n \in Name : TRUE
    /\ target = 0
    /\ low = 1 /\ high = 0
    /\ found = 0

(* Faulty: the sort starts one position too far.                           *)
FillTooFar ==
    /\ ipc = "fill"
    /\ hash' = [f \in Field |-> Hash[f]]
    /\ index' = [p \in Field |-> p]
    /\ ipc' = "sort"
    /\ i' = N
    /\ j' = 1
    /\ UNCHANGED <<name, target, low, high, found>>

(* http_header_hash_all_fields.                                            *)
Fill ==
    /\ ipc = "fill"
    /\ hash' = [f \in Field |-> Hash[f]]
    /\ index' = [p \in Field |-> p]
    /\ ipc' = "sort"
    /\ i' = N - 1
    /\ j' = 1
    /\ UNCHANGED <<name, target, low, high, found>>

(* http_header_fields_bubble_sort: one comparison; the three exclusive ors *)
(* exchange the entries.                                                   *)
Exchanged(p) == [index EXCEPT ![p] = index[p + 1], ![p + 1] = index[p]]

Compare ==
    /\ ipc = "sort" /\ i > 0 /\ j <= i
    /\ index' = IF hash[index[j]] > hash[index[j + 1]]
                THEN Exchanged(j) ELSE index
    /\ j' = j + 1
    /\ UNCHANGED <<hash, ipc, i, name, target, low, high, found>>

(* Faulty: the next pass leaves out one position more than is in place.    *)
PassTooShort ==
    /\ ipc = "sort" /\ i > 0 /\ j > i
    /\ i' = IF i > 1 THEN i - 2 ELSE 0
    /\ j' = 1
    /\ UNCHANGED <<hash, index, ipc, name, target, low, high, found>>

Pass ==
    /\ ipc = "sort" /\ i > 0 /\ j > i
    /\ i' = i - 1
    /\ j' = 1
    /\ UNCHANGED <<hash, index, ipc, name, target, low, high, found>>

Sorted ==
    /\ ipc = "sort" /\ i = 0
    /\ ipc' = "ready"
    /\ UNCHANGED <<hash, index, i, j, name, target, low, high, found>>

-----------------------------------------------------------------------------
(* http_header_binary_n_search, one turn of its loop per step.             *)
Search(n) ==
    /\ ipc = "ready"
    /\ ipc' = "search"
    /\ name' = n
    /\ target' = NameHash[n]
    /\ low' = 1
    /\ high' = N
    /\ UNCHANGED <<hash, index, i, j, found>>

Mid == (low + high) \div 2

(* Faulty: the hash is taken for the name.                                 *)
HitByHash ==
    /\ ipc = "search" /\ low <= high
    /\ target = hash[index[Mid]]
    /\ ipc' = "ready"
    /\ found' = index[Mid]
    /\ UNCHANGED <<hash, index, i, j, name, target, low, high>>

(* The hash is there: it is this header or none.                           *)
Hit ==
    /\ ipc = "search" /\ low <= high
    /\ target = hash[index[Mid]]
    /\ ipc' = "ready"
    /\ found' = IF index[Mid] \in Resembles[name] THEN index[Mid] ELSE 0
    /\ UNCHANGED <<hash, index, i, j, name, target, low, high>>

Below ==
    /\ ipc = "search" /\ low <= high
    /\ target < hash[index[Mid]]
    /\ high' = Mid - 1
    /\ UNCHANGED <<hash, index, ipc, i, j, name, target, low, found>>

Above ==
    /\ ipc = "search" /\ low <= high
    /\ target > hash[index[Mid]]
    /\ low' = Mid + 1
    /\ UNCHANGED <<hash, index, ipc, i, j, name, target, high, found>>

Miss ==
    /\ ipc = "search" /\ low > high
    /\ ipc' = "ready"
    /\ found' = 0
    /\ UNCHANGED <<hash, index, i, j, name, target, low, high>>

Sort == Fill \/ Compare \/ Pass \/ Sorted
SearchStep == Hit \/ Below \/ Above \/ Miss

IndexNext == Sort \/ (\E n \in Name : Search(n)) \/ SearchStep

IndexSpec == IndexInit /\ [][IndexNext]_indexVars

-----------------------------------------------------------------------------
(* The type invariant; the sort stays inside the index.                    *)
IndexTypeOK ==
    /\ hash \in [Field -> Int] /\ target \in Int
    /\ index \in [Field -> Field]
    /\ ipc \in {"fill", "sort", "ready", "search"}
    /\ i \in 0 .. N - 1 /\ j \in 0 .. N
    /\ name \in Name
    /\ low \in 1 .. N + 1 /\ high \in 0 .. N
    /\ found \in Field \cup {0}

(* The index is sorted before it is searched for the first time; hashes    *)
(* that always rise mean that the exchanges have doubled no header, and so *)
(* have lost none.                                                         *)
IndexSorted == ipc \in {"ready", "search"} =>
    \A p \in 1 .. N - 1 : hash[index[p]] < hash[index[p + 1]]

(* A search returns the header of that name if there is one, and none for  *)
(* a name that only has the hash of a header or is the beginning of one:   *)
(* http_header_add never files a value under another header.  With NULs in *)
(* the name it is the header named in front of them, or none, as the NULs  *)
(* leave the hash alone or not.                                            *)
FindsMeant ==
    [][ipc = "search" /\ ipc' = "ready" =>
           IF name \in NulFree THEN found' = Meant[name]
                               ELSE found' \in {0, Meant[name]}]_indexVars
=============================================================================
