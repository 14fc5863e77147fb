----------------------------- MODULE AtomicMap -----------------------------
(***************************************************************************)
(* What unordered_dense::map promises: a finite mapping of keys to values  *)
(* with room for max_size entries.                                         *)
(***************************************************************************)
EXTENDS Integers, Sequences, FiniteSets, Functions

CONSTANTS Key, Val, Containers, max_size

VARIABLES
  map,    \* the mapping
  answer  \* what the last operation returned, and its arguments

mvars == <<map, answer>>

Bind(k, v) == [x \in DOMAIN map \cup {k} |-> IF x = k THEN v ELSE map[x]]
Full == Cardinality(DOMAIN map) = max_size

MInit ==
  /\ \E S \in SUBSET Key : map \in [S -> Val]
  /\ answer = <<"void">>

\* k is bound to v, unless it is bound already or the map is full.
MInsert(k, v) ==
  \/ /\ k \notin DOMAIN map /\ ~Full
     /\ map' = Bind(k, v) /\ answer' = <<"inserted", k, v>>
  \/ /\ k \in DOMAIN map
     /\ UNCHANGED map /\ answer' = <<"found", k, v>>
  \/ /\ k \notin DOMAIN map /\ Full
     /\ UNCHANGED map /\ answer' = <<"overflow", k, v>>

MAssign(k, v) ==
  k \in DOMAIN map /\ map' = Bind(k, v) /\ answer' = <<"assigned", k, v>>

MErase(k) ==
  /\ map' = Restrict(map, DOMAIN map \ {k})
  /\ answer' = <<IF k \in DOMAIN map THEN "erased" ELSE "absent", k>>

\* The entry of key old gets key new.
MRekey(old, new) ==
  /\ old \in DOMAIN map
  /\ \/ /\ new \notin DOMAIN map
        /\ map' = [x \in (DOMAIN map \ {old}) \cup {new} |-> map[IF x = new THEN old ELSE x]]
        /\ answer' = <<"rekeyed", old, new>>
     \/ new \in DOMAIN map /\ UNCHANGED map /\ answer' = <<"found", old, new>>

\* Some entries are erased together, or all.
MPrune(S) == map' = Restrict(map, S) /\ answer' = <<"pruned">>
MClear == map' = << >> /\ answer' = <<"cleared">>

\* Rehashed or copied.
MSame == UNCHANGED map /\ answer' = <<"void">>

\* All entries are replaced by those of a container; of several with one key
\* one is taken.
MReplace(c) ==
  /\ map' \in [{c[i][1] : i \in DOMAIN c} -> Val]
  /\ \A k \in DOMAIN map' : \E i \in DOMAIN c : c[i] = <<k, map'[k]>>
  /\ answer' = <<"replaced">>
\* There is room for some keys of the container only.
MReplacePart(c) ==
  /\ \E S \in SUBSET {c[i][1] : i \in DOMAIN c} :
       Cardinality(S) = max_size /\ map' \in [S -> Val]
  /\ \A k \in DOMAIN map' : \E i \in DOMAIN c : c[i] = <<k, map'[k]>>
  /\ answer' = <<"overflow">>
MTooMany(c) == Len(c) > max_size /\ UNCHANGED map /\ answer' = <<"too_many_elements">>

\* Memory runs out: the entry may be there or not.
MFail(k, v) ==
  /\ k \notin DOMAIN map
  /\ map' \in {map, Bind(k, v)}
  /\ answer' = <<"bad_alloc", k, v>>

\* Memory runs out in a function that would change no entry, or all.
MNoMemory == UNCHANGED map /\ answer' = <<"bad_alloc">>

MNext ==
  \/ \E k \in Key, v \in Val : MInsert(k, v) \/ MAssign(k, v) \/ MFail(k, v)
  \/ \E k \in Key : MErase(k)
  \/ \E old, new \in Key : MRekey(old, new)
  \/ \E S \in SUBSET DOMAIN map : MPrune(S)
  \/ \E c \in Containers : MReplace(c) \/ MReplacePart(c) \/ MTooMany(c)
  \/ MClear \/ MSame \/ MNoMemory

MSpec == MInit /\ [][MNext]_mvars
=============================================================================
