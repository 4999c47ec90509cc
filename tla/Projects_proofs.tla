--------------------------- MODULE Projects_proofs ----------------------------
(***************************************************************************)
(* Proofs about what a session takes for its projects: the cache of their  *)
(* databases (ProjectCache), for any roots, any number of concurrent calls *)
(* and any size of the cache; and the rules that say which directories of  *)
(* a root every reader sees, which tree a session is served and which      *)
(* project a path selects (Workspace, Sessions), for every world, every    *)
(* path and every list of workdirs; and the files that an import of a      *)
(* project's file reaches (ImportPaths), in every tree; and what the graph *)
(* tools answer (GraphTools), about every index and every tree.            *)
(***************************************************************************)
EXTENDS ProjectCache, GraphAnswers, FiniteSetTheorems, SequenceTheorems, WellFoundedInduction, TLAPS

\* The variables, without what relates them.
Typed ==
    /\ cached \subseteq Root /\ pending \subseteq Root /\ handle \subseteq Root
    /\ lru \in Seq(Root) /\ refs \in [Root -> Int]
    /\ bg \in [Extra -> {"todo", "open", "watched", "skipped", "blocked"}]
    /\ call \in [Caller -> Calls] /\ server \in {"up", "extrasClosed", "closed"}

\* ProjectLRU lists cached roots, each once, until the cache is closed all of
\* them, and never more than there is room for.
Order ==
    /\ \A i, j \in 1 .. Len(lru) : lru[i] = lru[j] => i = j
    /\ \A i \in 1 .. Len(lru) : lru[i] \in cached
    /\ server # "closed" => /\ \A r \in cached : Listed(r)
                            /\ Len(lru) <= MaxLRU

Count == [r \in Root |-> Cardinality(Users(r))]

\* The count of an entry is the number of its users, and what has users is
\* in the cache or waits for its close; what is in either is open.
Counts ==
    /\ cached \cap pending = {}
    /\ \A r \in Owned :
          /\ refs[r] = Count[r]
          /\ r \in handle <=> r \in cached \cup pending
          /\ refs[r] # 0 => r \in handle
          /\ r \in pending => refs[r] # 0

\* No root has two handles, and a call that uses the handle of an additional
\* workdir finds it in place until they are closed.
Apart ==
    /\ handle \cap BgOpen = {}
    /\ server # "up" => BgOpen = {}
    /\ \A c \in Caller :
          /\ call[c].at = "inExtra" =>
                call[c].root \in Extra /\ (server = "up" => call[c].root \in Watched)
          /\ call[c].at = "releaseExtra" => call[c].root \in Extra /\ server # "up"

Inv == Typed /\ Order /\ Counts /\ Apart
-----------------------------------------------------------------------------
USE CacheAssumption DEF cache, Go

Uses(e, r) == e.at \in {"inCache", "release"} /\ e.root = r

(* One call that moves changes the users of a root by itself at most.      *)
LEMMA Move ==
    ASSUME Typed, NEW c \in Caller, NEW e \in Calls, call' = [call EXCEPT ![c] = e], NEW r \in Root
    PROVE  /\ Cardinality(Users(r)) \in Nat
           /\ Cardinality(Users(r)') = Cardinality(Users(r))
                  + (IF Uses(e, r) THEN 1 ELSE 0) - (IF Uses(call[c], r) THEN 1 ELSE 0)
  <1>1. IsFiniteSet(Users(r)) /\ Cardinality(Users(r)) \in Nat
    <2>1. Users(r) \subseteq Caller
      BY DEF Users
    <2> QED BY <2>1, FS_Subset, FS_CardinalityType
  <1>2. c \in Users(r) <=> Uses(call[c], r)
    BY DEF Users, Uses
  <1>3. Users(r)' = IF Uses(e, r) THEN Users(r) \cup {c} ELSE Users(r) \ {c}
    BY DEF Users, Uses, Typed
  <1>4. CASE Uses(e, r)
    <2>1. Cardinality(Users(r) \cup {c}) = IF c \in Users(r) THEN Cardinality(Users(r)) ELSE Cardinality(Users(r)) + 1
      BY <1>1, FS_AddElement
    <2>2. Users(r)' = Users(r) \cup {c}
      BY <1>3, <1>4
    <2> QED BY <1>1, <1>2, <1>4, <2>1, <2>2
  <1>5. CASE ~Uses(e, r)
    <2>1. Cardinality(Users(r) \ {c}) = IF c \in Users(r) THEN Cardinality(Users(r)) - 1 ELSE Cardinality(Users(r))
      BY <1>1, FS_RemoveElement
    <2>2. Users(r)' = Users(r) \ {c}
      BY <1>3, <1>5
    <2> QED BY <1>1, <1>2, <1>5, <2>1, <2>2
  <1> QED BY <1>1, <1>4, <1>5

(* removeProjectLRU takes one root out and keeps the order of the others.  *)
LEMMA Removed ==
    ASSUME Typed, Order, NEW r \in Root, Listed(r)
    PROVE  /\ Without(r) \in Seq(Root) /\ Len(Without(r)) = Len(lru) - 1
           /\ \A i, j \in 1 .. Len(Without(r)) : Without(r)[i] = Without(r)[j] => i = j
           /\ \A i \in 1 .. Len(Without(r)) : Without(r)[i] \in cached \ {r}
           /\ \A s \in Root \ {r} : Listed(s) => \E i \in 1 .. Len(Without(r)) : Without(r)[i] = s
  <1> DEFINE k == CHOOSE i \in 1 .. Len(lru) : lru[i] = r
  <1> DEFINE w == Without(r)
  <1>1. k \in 1 .. Len(lru) /\ lru[k] = r
    BY DEF Listed
  <1>2. w = SubSeq(lru, 1, k - 1) \o SubSeq(lru, k + 1, Len(lru))
    BY DEF Without
  <1> HIDE DEF k, w
  <1>3. /\ w \in Seq(Root) /\ Len(w) = Len(lru) - 1
        /\ \A i \in 1 .. Len(w) : w[i] = IF i < k THEN lru[i] ELSE lru[i + 1]
    <2> DEFINE a == SubSeq(lru, 1, k - 1)
    <2> DEFINE b == SubSeq(lru, k + 1, Len(lru))
    <2>1. lru \in Seq(Root) /\ Len(lru) \in Nat /\ \A i \in 1 .. Len(lru) : lru[i] \in Root
      BY DEF Typed
    <2>2. a \in Seq(Root) /\ Len(a) = k - 1 /\ \A i \in 1 .. k - 1 : a[i] = lru[i]
      BY <1>1, <2>1, SubSeqProperties
    <2>3. b \in Seq(Root) /\ Len(b) = Len(lru) - k /\ \A i \in 1 .. Len(lru) - k : b[i] = lru[k + i]
      BY <1>1, <2>1, SubSeqProperties
    <2> HIDE DEF a, b
    <2>4. /\ a \o b \in Seq(Root) /\ Len(a \o b) = Len(a) + Len(b)
          /\ \A i \in 1 .. Len(a) + Len(b) : (a \o b)[i] = IF i <= Len(a) THEN a[i] ELSE b[i - Len(a)]
      BY <2>2, <2>3, ConcatProperties
    <2>5. w = a \o b
      BY <1>2 DEF a, b
    <2>6. w \in Seq(Root) /\ Len(w) = Len(lru) - 1
      <3>1. w \in Seq(Root) /\ Len(w) = Len(a) + Len(b)
        BY <2>4, <2>5, Zenon
      <3>2. (k - 1) + (Len(lru) - k) = Len(lru) - 1
        BY <1>1, <2>1
      <3> QED BY <2>2, <2>3, <3>1, <3>2, Zenon
    <2>7. ASSUME NEW i \in 1 .. Len(w) PROVE w[i] = IF i < k THEN lru[i] ELSE lru[i + 1]
      <3>1. w[i] = IF i <= k - 1 THEN a[i] ELSE b[i - (k - 1)]
        BY <1>1, <2>1, <2>2, <2>3, <2>4, <2>5, <2>6
      <3>2. CASE i < k
        BY <1>1, <2>1, <2>2, <3>1, <3>2
      <3>3. CASE i >= k
        <4>1. i - (k - 1) \in 1 .. Len(lru) - k /\ k + (i - (k - 1)) = i + 1
          BY <1>1, <2>1, <2>6, <3>3
        <4>2. b[i - (k - 1)] = lru[i + 1]
          BY <2>3, <4>1
        <4> QED BY <1>1, <2>1, <2>6, <3>1, <3>3, <4>2
      <3> QED BY <1>1, <2>1, <3>2, <3>3
    <2> QED BY <2>6, <2>7
  <1>4. \A i, j \in 1 .. Len(w) : w[i] = w[j] => i = j
    <2> SUFFICES ASSUME NEW i \in 1 .. Len(w), NEW j \in 1 .. Len(w), w[i] = w[j] PROVE i = j
      OBVIOUS
    <2>1. Len(lru) \in Nat /\ \A a, b \in 1 .. Len(lru) : lru[a] = lru[b] => a = b
      BY DEF Typed, Order
    <2> DEFINE at(x) == IF x < k THEN x ELSE x + 1
    <2>2. w[i] = lru[at(i)] /\ w[j] = lru[at(j)]
      BY <1>3
    <2>3. at(i) \in 1 .. Len(lru) /\ at(j) \in 1 .. Len(lru) /\ (at(i) = at(j) => i = j)
      BY <1>1, <1>3, <2>1
    <2> HIDE DEF at
    <2> QED BY <2>1, <2>2, <2>3
  <1>5. \A i \in 1 .. Len(w) : w[i] \in cached \ {r}
    <2> SUFFICES ASSUME NEW i \in 1 .. Len(w) PROVE w[i] \in cached \ {r}
      OBVIOUS
    <2>1. /\ Len(lru) \in Nat /\ \A a \in 1 .. Len(lru) : lru[a] \in cached
          /\ \A a, b \in 1 .. Len(lru) : lru[a] = lru[b] => a = b
      BY DEF Typed, Order
    <2> QED BY <1>1, <1>3, <2>1
  <1>6. ASSUME NEW s \in Root \ {r}, NEW i \in 1 .. Len(lru), lru[i] = s
        PROVE  \E j \in 1 .. Len(w) : w[j] = s
    <2>1. i # k
      BY <1>1, <1>6
    <2>2. CASE i < k
      <3>1. Len(lru) \in Nat /\ Len(w) = Len(lru) - 1
        BY <1>3 DEF Typed
      <3>2. i \in 1 .. Len(w)
        BY <1>1, <1>6, <2>2, <3>1
      <3>3. w[i] = lru[i]
        BY <1>3, <2>2, <3>2
      <3> QED BY <1>6, <3>2, <3>3
    <2>3. CASE i > k
      <3>1. Len(lru) \in Nat /\ Len(w) = Len(lru) - 1
        BY <1>3 DEF Typed
      <3>2. i - 1 \in 1 .. Len(w) /\ ~(i - 1 < k) /\ (i - 1) + 1 = i
        BY <1>1, <1>6, <2>3, <3>1
      <3>3. w[i - 1] = lru[(i - 1) + 1]
        BY <1>3, <3>2
      <3> QED BY <1>6, <3>2, <3>3
    <2> QED BY <1>1, <2>1, <2>2, <2>3 DEF Typed
  <1> QED BY <1>3, <1>4, <1>5, <1>6 DEF w, Listed

-----------------------------------------------------------------------------
(* What one action does to the cache: it leaves it, a call hits, a call    *)
(* admits, a call drops, a root is registered, or the cache is closed.     *)
(* An evicted root is at the head of the list.                             *)
LEMMA Eviction ==
    ASSUME Typed, Order
    PROVE  \/ Evicted = {} /\ Len(lru) < MaxLRU
           \/ /\ Evicted = {Head(lru)} /\ lru # <<>> /\ Head(lru) \in cached
              /\ Head(lru) = lru[1] /\ Len(lru) \in Nat /\ Len(lru) >= 1
  <1>1. Len(lru) \in Nat
    BY DEF Typed
  <1>2. CASE Full
    <2>1. Len(lru) >= 1
      BY <1>1, <1>2 DEF Full
    <2>2. lru # <<>> /\ Head(lru) = lru[1]
      BY <2>1 DEF Typed
    <2> QED BY <1>1, <1>2, <2>1, <2>2 DEF Evicted, Oldest, Order
  <1>3. CASE ~Full
    BY <1>1, <1>3 DEF Evicted, Full
  <1> QED BY <1>2, <1>3

(* A new user of what the cache did not have.                              *)
LEMMA AdmitOrder ==
    ASSUME Typed, Order, NEW r \in Root, r \notin cached, NEW inUse, Admit(r, Evicted, inUse), server' = server
    PROVE  Order' /\ lru' \in Seq(Root)
  <1>1. r \notin Evicted /\ Len(lru) \in Nat
    BY Eviction DEF Typed
  <1>2. CASE Evicted = {} /\ Len(lru) < MaxLRU
    <2>1. lru' = Append(lru, r) /\ cached' = cached \cup {r}
      BY <1>2 DEF Admit
    <2>2. /\ lru' \in Seq(Root) /\ Len(lru') = Len(lru) + 1 /\ lru'[Len(lru) + 1] = r
          /\ \A i \in 1 .. Len(lru) : lru'[i] = lru[i]
      BY <2>1 DEF Typed
    <2>3. \A i, j \in 1 .. Len(lru') : lru'[i] = lru'[j] => i = j
      BY <1>1, <2>2 DEF Order
    <2>4. \A i \in 1 .. Len(lru') : lru'[i] \in cached'
      BY <1>1, <2>1, <2>2 DEF Order
    <2>5. ASSUME server # "closed", NEW s \in cached' PROVE \E i \in 1 .. Len(lru') : lru'[i] = s
      <3>1. CASE s = r
        BY <1>1, <2>2, <3>1
      <3>2. CASE s \in cached
        BY <1>1, <2>2, <2>5, <3>2 DEF Order, Listed
      <3> QED BY <2>1, <2>5, <3>1, <3>2
    <2> QED BY <1>1, <1>2, <2>2, <2>3, <2>4, <2>5 DEF Order, Listed
  <1>3. CASE Evicted = {Head(lru)} /\ Len(lru) >= 1 /\ Head(lru) = lru[1]
    <2>1. lru' = Append(Tail(lru), r) /\ cached' = (cached \ {lru[1]}) \cup {r}
      BY <1>3 DEF Admit
    <2>2. /\ Tail(lru) \in Seq(Root) /\ Len(Tail(lru)) = Len(lru) - 1
          /\ \A i \in 1 .. Len(lru) - 1 : Tail(lru)[i] = lru[i + 1]
      BY <1>1, <1>3, HeadTailProperties DEF Typed
    <2>3. /\ lru' \in Seq(Root) /\ Len(lru') = Len(lru) /\ lru'[Len(lru)] = r
          /\ \A i \in 1 .. Len(lru) - 1 : lru'[i] = lru[i + 1]
      BY <1>1, <1>3, <2>1, <2>2
    <2>4. ASSUME NEW i \in 1 .. Len(lru'), NEW j \in 1 .. Len(lru'), lru'[i] = lru'[j] PROVE i = j
      <3>1. ASSUME NEW k \in 1 .. Len(lru) PROVE lru[k] \in cached /\ lru[k] # r
        BY DEF Order
      <3>2. i < Len(lru) => i + 1 \in 1 .. Len(lru) /\ lru'[i] = lru[i + 1]
        BY <1>1, <2>3
      <3>3. j < Len(lru) => j + 1 \in 1 .. Len(lru) /\ lru'[j] = lru[j + 1]
        BY <1>1, <2>3
      <3>4. CASE i < Len(lru) /\ j < Len(lru)
        <4>1. lru[i + 1] = lru[j + 1] /\ i + 1 \in 1 .. Len(lru) /\ j + 1 \in 1 .. Len(lru)
          BY <2>4, <3>2, <3>3, <3>4
        <4>2. i + 1 = j + 1
          BY <4>1 DEF Order
        <4> QED BY <4>2
      <3>5. CASE ~(i < Len(lru) /\ j < Len(lru))
        BY <1>1, <2>3, <2>4, <3>1, <3>2, <3>3, <3>5
      <3> QED BY <3>4, <3>5
    <2>5. \A i \in 1 .. Len(lru') : lru'[i] \in cached'
      <3> SUFFICES ASSUME NEW i \in 1 .. Len(lru) PROVE lru'[i] \in cached'
        BY <2>3
      <3>1. CASE i = Len(lru)
        BY <2>1, <2>3, <3>1
      <3>2. CASE i < Len(lru)
        <4>1. i + 1 \in 1 .. Len(lru) /\ 1 \in 1 .. Len(lru) /\ i + 1 # 1 /\ lru'[i] = lru[i + 1]
          BY <1>1, <1>3, <2>3, <3>2
        <4>2. lru[i + 1] \in cached /\ lru[i + 1] # lru[1]
          BY <4>1 DEF Order
        <4> QED BY <2>1, <4>1, <4>2
      <3> QED BY <1>1, <3>1, <3>2
    <2>6. ASSUME server # "closed", NEW s \in cached' PROVE \E i \in 1 .. Len(lru') : lru'[i] = s
      <3>1. CASE s = r
        BY <1>1, <1>3, <2>3, <3>1
      <3>2. CASE s \in cached /\ s # lru[1]
        <4>1. PICK i \in 1 .. Len(lru) : lru[i] = s
          BY <2>6, <3>2 DEF Order, Listed
        <4>2. i - 1 \in 1 .. Len(lru') /\ lru'[i - 1] = s
          BY <1>1, <1>3, <2>3, <3>2, <4>1
        <4> QED BY <4>2
      <3> QED BY <2>1, <2>6, <3>1, <3>2
    <2> QED BY <1>1, <2>3, <2>4, <2>5, <2>6 DEF Order, Listed
  <1> QED BY <1>2, <1>3, Eviction

(* A hit moves a root to the end of the list.                              *)
LEMMA HitOrder ==
    ASSUME Typed, Order, NEW c \in Caller, NEW r \in Root, Hit(c, r), server' = server
    PROVE  Order' /\ lru' \in Seq(Root)
  <1>1. cached' = cached /\ r \in cached
    BY DEF Hit
  <1>2. CASE ~Listed(r)
    BY <1>1, <1>2 DEF Hit, Order, Typed, Listed
  <1>3. CASE Listed(r)
    <2> DEFINE w == Without(r)
    <2>1. /\ w \in Seq(Root) /\ Len(w) = Len(lru) - 1
          /\ \A i, j \in 1 .. Len(w) : w[i] = w[j] => i = j
          /\ \A i \in 1 .. Len(w) : w[i] \in cached \ {r}
          /\ \A s \in Root \ {r} : Listed(s) => \E i \in 1 .. Len(w) : w[i] = s
      BY <1>3, Removed
    <2>2. lru' = Append(w, r)
      BY <1>3 DEF Hit
    <2> HIDE DEF w
    <2>3. Len(lru) \in Nat /\ Len(w) \in Nat
      BY <2>1 DEF Typed
    <2>4. /\ lru' \in Seq(Root) /\ Len(lru') = Len(lru) /\ lru'[Len(lru)] = r
          /\ \A i \in 1 .. Len(w) : lru'[i] = w[i]
      BY <2>1, <2>2, <2>3
    <2>5. \A i, j \in 1 .. Len(lru') : lru'[i] = lru'[j] => i = j
      BY <2>1, <2>3, <2>4
    <2>6. \A i \in 1 .. Len(lru') : lru'[i] \in cached'
      BY <1>1, <2>1, <2>3, <2>4
    <2>7. ASSUME server # "closed", NEW s \in cached PROVE \E i \in 1 .. Len(lru') : lru'[i] = s
      <3>1. CASE s = r
        BY <2>1, <2>3, <2>4, <3>1
      <3>2. CASE s # r
        <4>1. PICK i \in 1 .. Len(w) : w[i] = s
          BY <2>1, <2>7, <3>2 DEF Order, Typed
        <4>2. i \in 1 .. Len(lru') /\ lru'[i] = s
          BY <2>1, <2>3, <2>4, <4>1
        <4> QED BY <4>2
      <3> QED BY <3>1, <3>2
    <2> QED BY <1>1, <2>4, <2>5, <2>6, <2>7 DEF Order, Listed
  <1> QED BY <1>2, <1>3

-----------------------------------------------------------------------------
(* Registering an additional workdir never meets an entry of the cache:    *)
(* the one index cannot have two handles.                                  *)
LEMMA NothingToDrop ==
    ASSUME Inv, NEW r \in Extra, RegisterExtra(r)
    PROVE  UNCHANGED <<cached, lru, handle, pending, refs>>
  <1>1. r \in BgOpen /\ r \in Root
    BY DEF RegisterExtra, BgOpen
  <1>2. server = "up" /\ r \notin handle
    BY <1>1 DEF Inv, Typed, Apart
  <1>3. r \notin cached
    BY <1>1, <1>2 DEF Inv, Counts, Owned
  <1> QED BY <1>3 DEF RegisterExtra

(* Where a call may go.                                                    *)
LEMMA CallTypes ==
    /\ Idle \in Calls
    /\ \A p \in {"lookup", "inCache", "inExtra", "release", "releaseExtra"}, r \in Root :
          [at |-> p, root |-> r] \in Calls
  BY DEF Calls

(* Types, and the list.                                                    *)
LEMMA TypedStep == Inv /\ [Next]_vars => Typed' /\ Order'
  <1> SUFFICES ASSUME Inv, [Next]_vars PROVE Typed' /\ Order'
    OBVIOUS
  <1> USE DEF Inv
  <1>1. CASE UNCHANGED vars
    BY <1>1 DEF vars, Typed, Order, Listed
  <1>2. ASSUME NEW c \in Caller, Resolve(c) PROVE Typed' /\ Order'
    <2>1. call' \in [Caller -> Calls]
      BY <1>2, CallTypes DEF Resolve, Typed
    <2> QED BY <1>2, <2>1 DEF Resolve, Typed, Order, Listed
  <1>3. ASSUME NEW c \in Caller, Lookup(c) PROVE Typed' /\ Order'
    <2> DEFINE r == call[c].root
    <2>1. r \in Root
      BY <1>3 DEF Lookup, Typed, Calls, Idle
    <2>2. UNCHANGED <<bg, outside, server>> /\ (Hit(c, r) \/ Revive(c, r) \/ OpenNew(c, r) \/ OpenFails(c, r))
      BY <1>3 DEF Lookup
    <2> HIDE DEF r
    <2>3. call' \in [Caller -> Calls]
      BY <2>1, <2>2, CallTypes DEF Hit, Revive, OpenNew, OpenFails, Typed
    <2>4. CASE Hit(c, r)
      <3>1. Order' /\ lru' \in Seq(Root)
        BY <2>1, <2>2, <2>4, HitOrder
      <3> QED BY <2>1, <2>2, <2>3, <2>4, <3>1 DEF Hit, Typed
    <2>5. ASSUME NEW inUse, Admit(r, Evicted, inUse), r \notin cached PROVE Typed' /\ Order'
      <3>1. Order' /\ lru' \in Seq(Root)
        BY <2>1, <2>2, <2>5, AdmitOrder
      <3>2. Evicted \subseteq Root
        BY Eviction DEF Typed
      <3> QED BY <2>1, <2>2, <2>3, <2>5, <3>1, <3>2 DEF Admit, Typed
    <2>6. CASE Revive(c, r)
      BY <2>5, <2>6 DEF Revive, Counts
    <2>7. CASE OpenNew(c, r)
      BY <2>5, <2>7 DEF OpenNew
    <2>8. CASE OpenFails(c, r)
      BY <2>2, <2>3, <2>8 DEF OpenFails, Typed, Order, Listed
    <2> QED BY <2>2, <2>4, <2>6, <2>7, <2>8
  <1>4. ASSUME NEW c \in Caller, Release(c) PROVE Typed' /\ Order'
    <2>1. call[c].root \in Root
      BY <1>4 DEF Release, Typed, Calls, Idle
    <2>2. call' \in [Caller -> Calls]
      BY <1>4, <2>1, CallTypes DEF Release, Typed
    <2> QED BY <1>4, <2>2 DEF Release, Typed, Order, Listed
  <1>5. ASSUME NEW c \in Caller, ReleaseCached(c) PROVE Typed' /\ Order'
    <2>1. call[c].root \in Root
      BY <1>5 DEF ReleaseCached, Typed, Calls, Idle
    <2>2. call' \in [Caller -> Calls]
      BY <1>5, CallTypes DEF ReleaseCached, Typed
    <2>3. refs' \in [Root -> Int] /\ handle' \subseteq Root /\ pending' \subseteq Root
      BY <1>5, <2>1 DEF ReleaseCached, Drop, Typed
    <2> QED BY <1>5, <2>2, <2>3 DEF ReleaseCached, Typed, Order, Listed
  <1>6. ASSUME NEW r \in Extra, OpenExtra(r) \/ CloseExtra(r) PROVE Typed' /\ Order'
    BY <1>6 DEF OpenExtra, CloseExtra, Background, Typed, Order, Listed
  <1>7. ASSUME NEW r \in Extra, RegisterExtra(r) PROVE Typed' /\ Order'
    <2>1. UNCHANGED <<cached, lru, handle, pending, refs>>
      BY <1>7, NothingToDrop
    <2> QED BY <1>7, <2>1 DEF RegisterExtra, Background, Typed, Order, Listed
  <1>8. ASSUME NEW r \in Root, OtherProcess(r) PROVE Typed' /\ Order'
    BY <1>8 DEF OtherProcess, Typed, Order, Listed
  <1>9. CASE CloseExtras
    BY <1>9 DEF CloseExtras, Typed, Order, Listed
  <1>10. CASE CloseProjectCache
    BY <1>10 DEF CloseProjectCache, Typed, Order, Listed
  <1> QED BY <1>1, <1>2, <1>3, <1>4, <1>5, <1>6, <1>7, <1>8, <1>9, <1>10 DEF Next

-----------------------------------------------------------------------------
(* A call that moves, seen from every root.                                *)
LEMMA Moves ==
    ASSUME Typed, NEW c \in Caller, NEW e \in Calls, call' = [call EXCEPT ![c] = e]
    PROVE  \A s \in Root :
              /\ Count[s] \in Nat
              /\ Uses(e, s) /\ ~Uses(call[c], s) => Count'[s] = Count[s] + 1
              /\ ~Uses(e, s) /\ Uses(call[c], s) => Count'[s] = Count[s] - 1
              /\ (Uses(e, s) <=> Uses(call[c], s)) => Count'[s] = Count[s]
  <1> SUFFICES ASSUME NEW s \in Root
        PROVE /\ Count[s] \in Nat
              /\ Uses(e, s) /\ ~Uses(call[c], s) => Count'[s] = Count[s] + 1
              /\ ~Uses(e, s) /\ Uses(call[c], s) => Count'[s] = Count[s] - 1
              /\ (Uses(e, s) <=> Uses(call[c], s)) => Count'[s] = Count[s]
    OBVIOUS
  <1>1. /\ Cardinality(Users(s)) \in Nat
        /\ Cardinality(Users(s)') = Cardinality(Users(s))
               + (IF Uses(e, s) THEN 1 ELSE 0) - (IF Uses(call[c], s) THEN 1 ELSE 0)
    BY Move
  <1>2. Count[s] = Cardinality(Users(s)) /\ Count'[s] = Cardinality(Users(s)')
    BY DEF Count
  <1> QED BY <1>1, <1>2

(* A root that has users is one of the cache's, and not watched.           *)
LEMMA InUse ==
    ASSUME Inv, NEW c \in Caller, call[c].at \in {"inCache", "release"}, call[c].root \in Owned
    PROVE  LET r == call[c].root
           IN  r \in Root /\ refs[r] \in Nat \ {0} /\ r \in handle /\ r \notin Watched
  <1> DEFINE r == call[c].root
  <1>1. r \in Root /\ refs[r] = Count[r]
    BY DEF Owned, Inv, Counts
  <1>2. IsFiniteSet(Users(r)) /\ c \in Users(r)
    <2>1. Users(r) \subseteq Caller /\ c \in Users(r)
      BY DEF Users
    <2> QED BY <2>1, FS_Subset
  <1>3. Count[r] \in Nat /\ Count[r] # 0
    <2>1. Cardinality(Users(r)) \in Nat /\ Cardinality(Users(r)) # 0
      BY <1>2, FS_CardinalityType, FS_EmptySet
    <2> QED BY <1>1, <2>1 DEF Count
  <1>4. r \in handle
    BY <1>1, <1>3 DEF Inv, Counts
  <1> QED BY <1>1, <1>3, <1>4 DEF Inv, Apart, BgOpen, Watched

(* The users of no root change when no call moves.                         *)
LEMMA SameUsers == UNCHANGED call => Count' = Count
  BY DEF Count, Users

(* The counts when a call takes up a root.                                 *)
LEMMA AdmitCounts ==
    ASSUME Inv, NEW c \in Caller, NEW r \in Root, r \notin cached, call[c].at = "lookup",
           r \in Owned => r \in pending \/ r \notin handle,
           NEW inUse, \A s \in Owned : s \in inUse <=> refs[s] # 0,
           Admit(r, Evicted, inUse), Go(c, "inCache", r), server' = server
    PROVE  Counts'
  <1> USE DEF Inv
  <1>1. \A s \in Root :
          /\ Count[s] \in Nat
          /\ s = r => Count'[s] = Count[s] + 1
          /\ s # r => Count'[s] = Count[s]
    <2> DEFINE e == [at |-> "inCache", root |-> r]
    <2>1. e \in Calls
      BY CallTypes
    <2>2. \A s \in Root : ~Uses(call[c], s) /\ (Uses(e, s) <=> s = r)
      BY DEF Uses
    <2> HIDE DEF e
    <2>3. call' = [call EXCEPT ![c] = e]
      BY DEF e
    <2>4. \A s \in Root :
              /\ Count[s] \in Nat
              /\ Uses(e, s) /\ ~Uses(call[c], s) => Count'[s] = Count[s] + 1
              /\ (Uses(e, s) <=> Uses(call[c], s)) => Count'[s] = Count[s]
      BY <2>1, <2>3, Moves
    <2> QED BY <2>2, <2>4
  <1>2. Owned' = Owned
    BY DEF Owned
  <1>3. r \notin Evicted /\ Evicted \subseteq cached
    BY Eviction
  <1>4. /\ cached' = (cached \ Evicted) \cup {r}
        /\ pending' = (pending \ {r}) \cup (Evicted \cap inUse)
        /\ handle' = (handle \ {e \in Evicted : refs[e] = 0}) \cup {r}
        /\ refs' = [refs EXCEPT ![r] = @ + 1]
    BY DEF Admit
  <1>5. cached' \cap pending' = {}
    BY <1>3, <1>4 DEF Counts
  <1>6. ASSUME NEW s \in Owned
        PROVE  /\ refs'[s] = Count'[s]
               /\ s \in handle' <=> s \in cached' \cup pending'
               /\ refs'[s] # 0 => s \in handle'
               /\ s \in pending' => refs'[s] # 0
    <2>1. s \in Root
      BY DEF Owned
    <2>2. /\ refs[s] = Count[s]
          /\ s \in handle <=> s \in cached \cup pending
          /\ refs[s] # 0 => s \in handle
          /\ s \in pending => refs[s] # 0
      BY DEF Counts
    <2>3. CASE s = r
      <3>1. refs'[r] = refs[r] + 1 /\ r \in handle' /\ r \in cached'
        BY <1>4 DEF Typed
      <3>2. Count[r] \in Nat /\ Count'[r] = Count[r] + 1
        BY <1>1
      <3>3. refs[r] = Count[r]
        <4>1. r \in Owned
          BY <2>3
        <4> QED BY <4>1 DEF Counts
      <3>4. refs'[r] = Count'[r] /\ refs'[r] # 0
        BY <3>1, <3>2, <3>3
      <3> QED BY <2>3, <3>1, <3>4
    <2>4. CASE s # r
      BY <1>1, <1>3, <1>4, <2>1, <2>2, <2>4 DEF Typed, Counts
    <2> QED BY <2>3, <2>4
  <1> QED BY <1>2, <1>5, <1>6 DEF Counts

(* Counts.                                                                 *)
LEMMA CountsStep == Inv /\ [Next]_vars => Counts'
  <1> SUFFICES ASSUME Inv, [Next]_vars PROVE Counts'
    OBVIOUS
  <1> USE DEF Inv
  <1>1. CASE UNCHANGED vars
    BY <1>1, SameUsers DEF vars, Counts, Owned
  <1>2. ASSUME NEW c \in Caller, NEW e \in Calls, call' = [call EXCEPT ![c] = e],
               \A s \in Root : Uses(e, s) <=> Uses(call[c], s),
               UNCHANGED <<cache, server>>
        PROVE  Counts'
    <2>1. \A s \in Root : Count'[s] = Count[s]
      BY <1>2, Moves
    <2>2. Owned' = Owned /\ Owned \subseteq Root
      BY <1>2 DEF Owned
    <2> QED BY <1>2, <2>1, <2>2 DEF Counts
  <1>3. ASSUME NEW c \in Caller, Resolve(c) PROVE Counts'
    <2>1. PICK r \in Root, p \in {"inExtra", "lookup"} : call' = [call EXCEPT ![c] = [at |-> p, root |-> r]]
      BY <1>3 DEF Resolve
    <2>2. \A s \in Root : ~Uses(call[c], s) /\ ~Uses([at |-> p, root |-> r], s)
      BY <1>3 DEF Resolve, Uses, Idle
    <2>3. [at |-> p, root |-> r] \in Calls
      BY CallTypes
    <2>4. UNCHANGED <<cache, server>>
      BY <1>3 DEF Resolve
    <2> QED BY <1>2, <2>1, <2>2, <2>3, <2>4
  <1>4. ASSUME NEW c \in Caller, Lookup(c) PROVE Counts'
    <2> DEFINE r == call[c].root
    <2>1. r \in Root /\ call[c].at = "lookup"
      BY <1>4 DEF Lookup, Typed, Calls, Idle
    <2>2. UNCHANGED <<bg, outside, server>> /\ (Hit(c, r) \/ Revive(c, r) \/ OpenNew(c, r) \/ OpenFails(c, r))
      BY <1>4 DEF Lookup
    <2>3. \A s \in Root : ~Uses(call[c], s)
      BY <2>1 DEF Uses
    <2> HIDE DEF r
    <2>4. CASE Hit(c, r)
      <3> DEFINE e == [at |-> "inCache", root |-> r]
      <3>1. e \in Calls /\ call' = [call EXCEPT ![c] = e]
        BY <2>1, <2>4, CallTypes DEF Hit
      <3>2. \A s \in Root : Uses(e, s) <=> s = r
        BY DEF Uses
      <3> HIDE DEF e
      <3>3. \A s \in Root :
              /\ Count[s] \in Nat
              /\ s = r => Count'[s] = Count[s] + 1
              /\ s # r => Count'[s] = Count[s]
        BY <2>3, <3>1, <3>2, Moves
      <3>4. refs' = [refs EXCEPT ![r] = @ + 1] /\ r \in cached /\ UNCHANGED <<cached, pending, handle>> /\ Owned' = Owned
        BY <2>2, <2>4 DEF Hit, Owned
      <3>5. ASSUME NEW s \in Owned
            PROVE  /\ refs'[s] = Count'[s]
                   /\ s \in handle <=> s \in cached \cup pending
                   /\ refs'[s] # 0 => s \in handle
                   /\ s \in pending => refs'[s] # 0
        <4>1. /\ s \in Root /\ refs[s] = Count[s]
              /\ s \in handle <=> s \in cached \cup pending
              /\ refs[s] # 0 => s \in handle
              /\ s \in pending => refs[s] # 0
          BY DEF Counts, Owned
        <4>2. CASE s = r
          <5>1. refs'[s] = refs[s] + 1
            BY <3>4, <4>1, <4>2 DEF Typed
          <5>2. Count[s] \in Nat /\ Count'[s] = Count[s] + 1
            BY <3>3, <4>1, <4>2
          <5>3. refs'[s] = Count'[s] /\ refs'[s] # 0
            BY <4>1, <5>1, <5>2
          <5> QED BY <3>4, <4>1, <4>2, <5>3
        <4>3. CASE s # r
          <5>1. refs'[s] = refs[s]
            BY <3>4, <4>1, <4>3 DEF Typed
          <5>2. Count'[s] = Count[s]
            BY <3>3, <4>1, <4>3
          <5> QED BY <4>1, <5>1, <5>2
        <4> QED BY <4>2, <4>3
      <3> QED BY <3>4, <3>5 DEF Counts
    <2>5. CASE Revive(c, r)
      <3> DEFINE inUse == {e \in Root : refs[e] # 0}
      <3>1. r \in pending /\ r \notin cached /\ Admit(r, Evicted, inUse) /\ Go(c, "inCache", r)
        BY <2>5 DEF Revive, Counts
      <3>2. \A s \in Owned : s \in inUse <=> refs[s] # 0
        BY DEF Owned
      <3> HIDE DEF inUse
      <3> QED BY <2>1, <2>2, <3>1, <3>2, AdmitCounts DEF r
    <2>6. CASE OpenNew(c, r)
      <3> DEFINE inUse == {e \in Root : refs[e] > 0}
      <3>1. r \notin handle /\ r \notin cached /\ Admit(r, Evicted, inUse) /\ Go(c, "inCache", r)
        BY <2>6 DEF OpenNew, Free
      <3>2. \A s \in Owned : s \in inUse <=> refs[s] # 0
        <4>1. \A s \in Root : IsFiniteSet(Users(s))
          <5>1. \A s \in Root : Users(s) \subseteq Caller
            BY DEF Users
          <5> QED BY <5>1, FS_Subset
        <4>2. \A s \in Root : Count[s] \in Nat
          BY <4>1, FS_CardinalityType DEF Count
        <4> QED BY <4>2 DEF Owned, Counts
      <3> HIDE DEF inUse
      <3> QED BY <2>1, <2>2, <3>1, <3>2, AdmitCounts DEF r
    <2>7. CASE OpenFails(c, r)
      <3>1. \A s \in Root : ~Uses(Idle, s)
        BY DEF Uses, Idle
      <3> QED BY <1>2, <2>2, <2>3, <2>7, <3>1, CallTypes DEF OpenFails
    <2> QED BY <2>2, <2>4, <2>5, <2>6, <2>7
  <1>5. ASSUME NEW c \in Caller, Release(c) PROVE Counts'
    <2> DEFINE r == call[c].root
    <2>1. r \in Root /\ call[c].at \in {"inCache", "inExtra"} /\ UNCHANGED <<cache, bg, outside, server>>
      BY <1>5 DEF Release, Typed, Calls, Idle
    <2>2. CASE call[c].at = "inCache"
      <3>1. r \notin Watched
        <4>1. CASE r \in Owned
          BY <2>2, <4>1, InUse
        <4>2. CASE r \notin Owned
          BY <2>1, <4>2 DEF Owned, Apart, BgOpen, Watched
        <4> QED BY <4>1, <4>2
      <3>2. call' = [call EXCEPT ![c] = [at |-> "release", root |-> r]]
        BY <1>5, <2>2, <3>1 DEF Release
      <3>3. \A s \in Root : Uses([at |-> "release", root |-> r], s) <=> Uses(call[c], s)
        BY <2>2 DEF Uses
      <3>4. [at |-> "release", root |-> r] \in Calls
        BY <2>1, CallTypes
      <3> HIDE DEF r
      <3> QED BY <1>2, <2>1, <3>2, <3>3, <3>4
    <2>3. CASE call[c].at = "inExtra"
      <3>1. PICK e \in {Idle, [at |-> "releaseExtra", root |-> r]} : call' = [call EXCEPT ![c] = e]
        BY <1>5, <2>3 DEF Release
      <3>2. \A s \in Root : ~Uses(e, s) /\ ~Uses(call[c], s)
        BY <2>3 DEF Uses, Idle
      <3>3. e \in Calls
        BY <2>1, CallTypes
      <3> HIDE DEF r
      <3> QED BY <1>2, <2>1, <3>1, <3>2, <3>3
    <2> QED BY <2>1, <2>2, <2>3
  <1>6. ASSUME NEW c \in Caller, ReleaseCached(c) PROVE Counts'
    <2> DEFINE r == call[c].root
    <2>1. /\ r \in Root /\ call[c].at \in {"release", "releaseExtra"} /\ Drop(r)
          /\ call' = [call EXCEPT ![c] = Idle] /\ UNCHANGED <<cached, lru, bg, outside, server>>
      BY <1>6 DEF ReleaseCached, Typed, Calls, Idle
    <2>2. \A s \in Root : ~Uses(Idle, s) /\ (Uses(call[c], s) => s = r)
      BY DEF Uses, Idle
    <2>3. \A s \in Root \ {r} : Count'[s] = Count[s]
      BY <2>1, <2>2, CallTypes, Moves
    <2>4. Owned' = Owned /\ Owned \subseteq Root
      BY <2>1 DEF Owned
    <2>5. r \in Owned => call[c].at = "release"
      BY <2>1 DEF Apart, Owned
    <2>6. /\ \A s \in Root \ {r} : /\ refs'[s] = refs[s]
                                   /\ s \in handle' <=> s \in handle
                                   /\ s \in pending' <=> s \in pending
          /\ pending' \subseteq pending /\ cached' = cached
      BY <2>1 DEF Drop, Typed
    <2>7. ASSUME r \in Owned
          PROVE  /\ refs'[r] = Count'[r]
                 /\ r \in handle' <=> r \in cached' \cup pending'
                 /\ refs'[r] # 0 => r \in handle'
                 /\ r \in pending' => refs'[r] # 0
      <3>1. refs[r] \in Nat \ {0} /\ r \in handle
        BY <2>1, <2>5, <2>7, InUse
      <3>2. refs[r] = Count[r] /\ r \in cached \cup pending /\ cached \cap pending = {}
        BY <2>7, <3>1 DEF Counts
      <3>3. Uses(call[c], r)
        BY <2>5, <2>7 DEF Uses
      <3>4. Count'[r] = Count[r] - 1
        BY <2>1, <2>2, <3>3, CallTypes, Moves
      <3>5. refs'[r] = refs[r] - 1
        BY <2>1, <3>2 DEF Drop, Typed
      <3>6. CASE r \in pending /\ refs[r] = 1
        <4>1. r \notin handle' /\ r \notin pending' /\ r \notin cached'
          BY <2>1, <3>2, <3>6 DEF Drop
        <4> QED BY <3>1, <3>2, <3>4, <3>5, <3>6, <4>1
      <3>7. CASE ~(r \in pending /\ refs[r] = 1)
        <4>1. UNCHANGED <<handle, pending, cached>>
          BY <2>1, <3>2, <3>7 DEF Drop
        <4> QED BY <3>1, <3>2, <3>4, <3>5, <3>7, <4>1
      <3> QED BY <3>6, <3>7
    <2>8. ASSUME NEW s \in Owned, s # r
          PROVE  /\ refs'[s] = Count'[s]
                 /\ s \in handle' <=> s \in cached' \cup pending'
                 /\ refs'[s] # 0 => s \in handle'
                 /\ s \in pending' => refs'[s] # 0
      <3>1. /\ refs[s] = Count[s]
            /\ s \in handle <=> s \in cached \cup pending
            /\ refs[s] # 0 => s \in handle
            /\ s \in pending => refs[s] # 0
        BY DEF Counts
      <3>2. s \in Root \ {r}
        BY <2>4, <2>8
      <3>3. Count'[s] = Count[s]
        BY <2>3, <3>2, Zenon
      <3> HIDE DEF r
      <3> QED BY <2>6, <3>1, <3>2, <3>3
    <2> HIDE DEF r
    <2>9. \A s \in Owned' : /\ refs'[s] = Count'[s]
                            /\ s \in handle' <=> s \in cached' \cup pending'
                            /\ refs'[s] # 0 => s \in handle'
                            /\ s \in pending' => refs'[s] # 0
      BY <2>4, <2>7, <2>8, Zenon
    <2> QED BY <2>6, <2>9 DEF Counts
  <1>7. ASSUME NEW r \in Extra, OpenExtra(r) \/ CloseExtra(r) PROVE Counts'
    BY <1>7, SameUsers DEF OpenExtra, CloseExtra, Background, Counts, Owned
  <1>8. ASSUME NEW r \in Extra, RegisterExtra(r) PROVE Counts'
    <2>1. UNCHANGED <<cached, lru, handle, pending, refs>>
      BY <1>8, NothingToDrop
    <2> QED BY <1>8, <2>1, SameUsers DEF RegisterExtra, Background, Counts, Owned
  <1>9. ASSUME NEW r \in Root, OtherProcess(r) PROVE Counts'
    BY <1>9, SameUsers DEF OtherProcess, Counts, Owned
  <1>10. CASE CloseExtras
    BY <1>10, SameUsers DEF CloseExtras, Counts, Owned
  <1>11. CASE CloseProjectCache
    <2>1. Owned' = Owned /\ Owned \subseteq Root
      BY <1>11 DEF CloseProjectCache, Owned
    <2>2. Count' = Count
      BY <1>11, SameUsers DEF CloseProjectCache
    <2> QED BY <1>11, <2>1, <2>2 DEF CloseProjectCache, Unused, Counts
  <1> QED BY <1>1, <1>3, <1>4, <1>5, <1>6, <1>7, <1>8, <1>9, <1>10, <1>11 DEF Next

(* Handles, and the calls of the additional workdirs.                      *)
LEMMA ApartStep == Inv /\ [Next]_vars => Apart'
  <1> SUFFICES ASSUME Inv, [Next]_vars PROVE Apart'
    OBVIOUS
  <1> USE DEF Inv
  <1>1. CASE UNCHANGED vars
    BY <1>1 DEF vars, Apart, BgOpen, Watched
  <1>2. ASSUME NEW c \in Caller, NEW e \in Calls, call' = [call EXCEPT ![c] = e],
               UNCHANGED <<bg, server>>, handle' \cap BgOpen = {},
               e.at = "inExtra" => e.root \in Watched,
               e.at = "releaseExtra" => e.root \in Extra /\ server # "up"
        PROVE  Apart'
    <2>1. BgOpen' = BgOpen /\ Watched' = Watched /\ Watched \subseteq Extra
      BY <1>2 DEF BgOpen, Watched
    <2>2. ASSUME NEW d \in Caller
          PROVE  /\ call'[d].at = "inExtra" =>
                       call'[d].root \in Extra /\ (server' = "up" => call'[d].root \in Watched')
                 /\ call'[d].at = "releaseExtra" => call'[d].root \in Extra /\ server' # "up"
      <3>1. CASE d = c
        BY <1>2, <2>1, <3>1 DEF Typed
      <3>2. CASE d # c
        BY <1>2, <2>1, <3>2 DEF Typed, Apart
      <3> QED BY <3>1, <3>2
    <2> QED BY <1>2, <2>1, <2>2 DEF Apart
  <1>3. ASSUME NEW c \in Caller, Resolve(c) PROVE Apart'
    <2>1. PICK r \in Root : call' = [call EXCEPT ![c] = [at |-> IF r \in Watched THEN "inExtra" ELSE "lookup", root |-> r]]
      BY <1>3 DEF Resolve
    <2> DEFINE e == [at |-> IF r \in Watched THEN "inExtra" ELSE "lookup", root |-> r]
    <2>2. /\ e \in Calls
          /\ e.at = "inExtra" => e.root \in Watched
          /\ e.at # "releaseExtra"
      BY CallTypes
    <2>3. UNCHANGED <<bg, server>> /\ handle' \cap BgOpen = {}
      BY <1>3 DEF Resolve, Apart
    <2>4. call' = [call EXCEPT ![c] = e]
      BY <2>1
    <2> HIDE DEF e
    <2> QED BY <1>2, <2>2, <2>3, <2>4
  <1>4. ASSUME NEW c \in Caller, Lookup(c) PROVE Apart'
    <2> DEFINE r == call[c].root
    <2>1. r \in Root
      BY <1>4 DEF Lookup, Typed, Calls, Idle
    <2>2. UNCHANGED <<bg, outside, server>> /\ (Hit(c, r) \/ Revive(c, r) \/ OpenNew(c, r) \/ OpenFails(c, r))
      BY <1>4 DEF Lookup
    <2> HIDE DEF r
    <2>3. PICK e \in {Idle, [at |-> "inCache", root |-> r]} : call' = [call EXCEPT ![c] = e]
      BY <2>2 DEF Hit, Revive, OpenNew, OpenFails
    <2>4. e \in Calls /\ e.at # "inExtra" /\ e.at # "releaseExtra"
      BY <2>1, CallTypes DEF Idle
    <2>5. r \in BgOpen => handle' \subseteq handle
      <3>1. CASE Hit(c, r) \/ OpenFails(c, r)
        BY <3>1 DEF Hit, OpenFails
      <3>2. CASE Revive(c, r)
        <4>1. r \in BgOpen => r \in Owned
          BY <2>1 DEF Apart, Owned
        <4>2. r \in pending /\ (r \in BgOpen => r \in handle)
          BY <3>2, <4>1 DEF Revive, Counts
        <4> QED BY <3>2, <4>2 DEF Revive, Admit
      <3>3. CASE OpenNew(c, r)
        BY <3>3 DEF OpenNew, Free
      <3> QED BY <2>2, <3>1, <3>2, <3>3
    <2>6. handle' \subseteq handle \cup {r}
      BY <2>2 DEF Hit, OpenFails, Revive, OpenNew, Admit
    <2>7. handle' \cap BgOpen = {}
      BY <2>5, <2>6 DEF Apart
    <2> QED BY <1>2, <2>2, <2>3, <2>4, <2>7
  <1>5. ASSUME NEW c \in Caller, Release(c) PROVE Apart'
    <2> DEFINE r == call[c].root
    <2>1. r \in Root /\ call[c].at \in {"inCache", "inExtra"} /\ UNCHANGED <<cache, bg, outside, server>>
      BY <1>5 DEF Release, Typed, Calls, Idle
    <2>2. PICK p \in {"release", "releaseExtra"} :
            /\ p = "releaseExtra" => call[c].at = "inExtra"
            /\ IF r \in Watched THEN call' = [call EXCEPT ![c] = Idle]
                                ELSE call' = [call EXCEPT ![c] = [at |-> p, root |-> r]]
      BY <1>5, <2>1 DEF Release
    <2>3. handle' \cap BgOpen = {} /\ UNCHANGED <<bg, server>>
      BY <2>1 DEF Apart
    <2>4. CASE r \in Watched
      <3>1. Idle.at = "idle"
        BY DEF Idle
      <3> HIDE DEF r
      <3> QED BY <1>2, <2>2, <2>3, <2>4, <3>1, CallTypes
    <2>5. CASE r \notin Watched
      <3> DEFINE e == [at |-> p, root |-> r]
      <3>1. call[c].at = "inExtra" => r \in Extra /\ server # "up"
        BY <2>5 DEF Apart
      <3>2. e \in Calls /\ e.at # "inExtra" /\ (e.at = "releaseExtra" => e.root \in Extra /\ server # "up")
        BY <2>1, <2>2, <3>1, CallTypes
      <3>3. call' = [call EXCEPT ![c] = e]
        BY <2>2, <2>5
      <3> HIDE DEF e, r
      <3> QED BY <1>2, <2>3, <3>2, <3>3
    <2> QED BY <2>4, <2>5
  <1>6. ASSUME NEW c \in Caller, ReleaseCached(c) PROVE Apart'
    <2>1. UNCHANGED <<bg, server>> /\ handle' \subseteq handle /\ call' = [call EXCEPT ![c] = Idle]
      BY <1>6 DEF ReleaseCached, Drop
    <2>2. handle' \cap BgOpen = {}
      BY <2>1 DEF Apart
    <2>3. Idle.at = "idle"
      BY DEF Idle
    <2> QED BY <1>2, <2>1, <2>2, <2>3, CallTypes
  <1>7. ASSUME NEW r \in Extra, OpenExtra(r) PROVE Apart'
    <2>1. /\ server = "up" /\ bg[r] = "todo" /\ UNCHANGED <<cache, call, server>>
          /\ bg' = [bg EXCEPT ![r] = IF Free(r) THEN "open" ELSE IF r \in handle THEN "blocked" ELSE "skipped"]
      BY <1>7 DEF OpenExtra, Background
    <2>2. Watched' = Watched
      BY <2>1 DEF Watched, Typed
    <2>3. \A s \in BgOpen' : s \in BgOpen \/ s \notin handle
      BY <2>1 DEF BgOpen, Free, Typed
    <2> QED BY <2>1, <2>2, <2>3 DEF Apart
  <1>8. ASSUME NEW r \in Extra, CloseExtra(r) PROVE Apart'
    <2>1. bg[r] = "open" /\ bg' = [bg EXCEPT ![r] = "skipped"] /\ UNCHANGED <<cache, call, server>>
      BY <1>8 DEF CloseExtra, Background
    <2>2. Watched' = Watched /\ BgOpen' \subseteq BgOpen
      BY <2>1 DEF Watched, BgOpen, Typed
    <2> QED BY <2>1, <2>2 DEF Apart
  <1>9. ASSUME NEW r \in Extra, RegisterExtra(r) PROVE Apart'
    <2>1. UNCHANGED <<cached, lru, handle, pending, refs>>
      BY <1>9, NothingToDrop
    <2>2. bg[r] = "open" /\ bg' = [bg EXCEPT ![r] = "watched"] /\ UNCHANGED <<call, server>>
      BY <1>9 DEF RegisterExtra, Background
    <2>3. Watched \subseteq Watched' /\ BgOpen' = BgOpen
      BY <2>2 DEF Watched, BgOpen, Typed
    <2> QED BY <2>1, <2>2, <2>3 DEF Apart
  <1>10. ASSUME NEW r \in Root, OtherProcess(r) PROVE Apart'
    BY <1>10 DEF OtherProcess, Apart, BgOpen, Watched
  <1>11. CASE CloseExtras
    <2>1. BgOpen' = {} /\ server' = "extrasClosed" /\ UNCHANGED call
      BY <1>11 DEF CloseExtras, BgOpen
    <2> QED BY <2>1 DEF Apart
  <1>12. CASE CloseProjectCache
    BY <1>12 DEF CloseProjectCache, Apart, BgOpen, Watched
  <1> QED BY <1>1, <1>3, <1>4, <1>5, <1>6, <1>7, <1>8, <1>9, <1>10, <1>11, <1>12 DEF Next

-----------------------------------------------------------------------------
LEMMA Found == Init => Inv
  <1> SUFFICES ASSUME Init PROVE Inv
    OBVIOUS
  <1>1. Typed
    BY CallTypes DEF Init, Typed
  <1>2. Order
    BY DEF Init, Order, Listed
  <1>3. \A s \in Root : Count[s] = 0
    <2>1. \A s \in Root : Users(s) = {}
      BY DEF Init, Users, Idle
    <2> QED BY <2>1, FS_EmptySet DEF Count
  <1>4. Counts
    BY <1>3 DEF Init, Counts, Owned
  <1>5. Apart
    BY DEF Init, Apart, BgOpen, Idle
  <1> QED BY <1>1, <1>2, <1>4, <1>5 DEF Inv

LEMMA Inductive == Spec => []Inv
  <1>1. Inv /\ [Next]_vars => Inv'
    BY TypedStep, CountsStep, ApartStep DEF Inv
  <1> QED BY <1>1, Found, PTL DEF Spec

(* No eviction, drop or shutdown closes the database under a tool call     *)
(* that resolved it from the cache and has not released it.                *)
THEOREM InUseIsOpenHolds == Spec => []InUseIsOpen
  <1>1. Inv => InUseIsOpen
    <2> SUFFICES ASSUME Inv, NEW r \in Owned, NEW c \in Users(r) PROVE r \in handle
      BY DEF InUseIsOpen
    <2>1. c \in Caller /\ call[c].at \in {"inCache", "release"} /\ call[c].root = r
      BY DEF Users
    <2> QED BY <2>1, InUse
  <1> QED BY <1>1, Inductive, PTL

(* No handle is forgotten, and at most MaxLRU stay open without a user.    *)
THEOREM NothingLeaksHolds == Spec => []NothingLeaks
  <1>1. Inv => NothingLeaks
    <2> SUFFICES ASSUME Inv PROVE NothingLeaks
      OBVIOUS
    <2> USE DEF Inv
    <2>1. Owned \subseteq Root /\ \A r \in Owned : Count[r] = Cardinality(Users(r))
      BY DEF Owned, Count
    <2>2. handle \cap Owned = (cached \cup pending) \cap Owned /\ cached \cap pending = {}
      BY DEF Counts
    <2>3. ASSUME NEW r \in pending \cap Owned PROVE refs[r] = Cardinality(Users(r)) /\ refs[r] > 0
      <3>1. Cardinality(Users(r)) \in Nat
        <4>1. Users(r) \subseteq Caller
          BY DEF Users
        <4> QED BY <4>1, FS_Subset, FS_CardinalityType
      <3> QED BY <2>1, <3>1 DEF Counts
    <2>4. ASSUME server = "up" PROVE Cardinality({r \in handle : Users(r) = {}}) <= MaxLRU
      <3> DEFINE idle == {r \in handle : Users(r) = {}}
      <3>1. idle \subseteq cached
        <4> SUFFICES ASSUME NEW r \in handle, Users(r) = {} PROVE r \in cached
          OBVIOUS
        <4>1. r \in Owned
          BY <2>4 DEF Typed, Owned
        <4>2. refs[r] = 0
          BY <2>1, <4>1, FS_EmptySet DEF Counts
        <4> QED BY <4>1, <4>2 DEF Counts
      <3>2. Len(lru) \in Nat /\ Len(lru) <= MaxLRU
        BY <2>4 DEF Typed, Order
      <3>3. lru \in Surjection(1 .. Len(lru), cached)
        <4>1. lru \in [1 .. Len(lru) -> cached] /\ \A r \in cached : \E i \in 1 .. Len(lru) : lru[i] = r
          BY <2>4 DEF Typed, Order, Listed
        <4> QED BY <4>1 DEF Surjection
      <3>4. IsFiniteSet(1 .. Len(lru)) /\ Cardinality(1 .. Len(lru)) = Len(lru)
        <4>1. 1 \in Int /\ Len(lru) \in Int
          BY <3>2
        <4>2. /\ IsFiniteSet(1 .. Len(lru))
              /\ Cardinality(1 .. Len(lru)) = IF 1 > Len(lru) THEN 0 ELSE Len(lru) - 1 + 1
          BY <4>1, FS_Interval
        <4> QED BY <3>2, <4>2
      <3>5. IsFiniteSet(cached) /\ Cardinality(cached) <= Len(lru)
        BY <3>3, <3>4, FS_Surjection
      <3>6. Cardinality(idle) <= Cardinality(cached) /\ Cardinality(idle) \in Nat /\ Cardinality(cached) \in Nat
        BY <3>1, <3>5, FS_Subset, FS_CardinalityType
      <3> HIDE DEF idle
      <3>7. Cardinality(idle) <= MaxLRU
        BY <3>2, <3>5, <3>6
      <3> QED BY <3>7 DEF idle
    <2> QED BY <2>2, <2>3, <2>4 DEF NothingLeaks
  <1> QED BY <1>1, Inductive, PTL

-----------------------------------------------------------------------------
(* The flock of each root.                                                 *)

\* The cache has open what it lists, and no other process holds the flock of
\* what this one has open.
Alone ==
    /\ cached \cup pending \subseteq handle
    /\ outside \cap (handle \cup BgOpen) = {}

FreeRoots == {s \in Root : Free(s)}

\* A step opens for one holder, and only what is free.
LEMMA OneHand ==
    ASSUME Inv, Alone, [Next]_vars
    PROVE  /\ cached' \cup pending' \subseteq handle'
           /\ \/ outside' = outside /\ BgOpen' = BgOpen /\ handle' \subseteq handle \cup FreeRoots
              \/ outside' = outside /\ handle' = handle /\ BgOpen' \subseteq BgOpen \cup FreeRoots
              \/ handle' = handle /\ BgOpen' = BgOpen /\ outside' \subseteq outside \cup FreeRoots
  <1> USE DEF Inv
  <1> DEFINE Kept == cached' \cup pending' \subseteq handle'
             ByCache == outside' = outside /\ BgOpen' = BgOpen /\ handle' \subseteq handle \cup FreeRoots
             ByBackground == outside' = outside /\ handle' = handle /\ BgOpen' \subseteq BgOpen \cup FreeRoots
             ByOther == handle' = handle /\ BgOpen' = BgOpen /\ outside' \subseteq outside \cup FreeRoots
  <1>1. CASE UNCHANGED vars
    BY <1>1 DEF vars, Alone, BgOpen
  <1>2. ASSUME NEW c \in Caller, Resolve(c) PROVE Kept /\ ByCache
    BY <1>2 DEF Resolve, Alone, BgOpen
  <1>3. ASSUME NEW c \in Caller, Lookup(c) PROVE Kept /\ ByCache
    <2> DEFINE r == call[c].root
    <2>1. r \in Root
      BY <1>3 DEF Lookup, Typed, Calls, Idle
    <2>2. UNCHANGED <<bg, outside, server>> /\ (Hit(c, r) \/ Revive(c, r) \/ OpenNew(c, r) \/ OpenFails(c, r))
      BY <1>3 DEF Lookup
    <2> HIDE DEF r
    <2>3. BgOpen' = BgOpen
      BY <2>2 DEF BgOpen
    <2>4. CASE Hit(c, r) \/ OpenFails(c, r)
      BY <2>2, <2>3, <2>4 DEF Hit, OpenFails, Alone
    <2>5. ASSUME NEW inUse, Admit(r, Evicted, inUse), r \in pending \/ r \in FreeRoots,
                 \A e \in inUse : refs[e] # 0
          PROVE  Kept /\ ByCache
      <3>1. Evicted \subseteq cached
        BY Eviction
      <3>2. /\ cached' = (cached \ Evicted) \cup {r} /\ pending' = (pending \ {r}) \cup (Evicted \cap inUse)
            /\ handle' = (handle \ {e \in Evicted : refs[e] = 0}) \cup {r}
        BY <2>5 DEF Admit
      <3> QED BY <2>2, <2>3, <2>5, <3>1, <3>2 DEF Alone, Counts
    <2>6. CASE Revive(c, r)
      <3> DEFINE inUse == {e \in Root : refs[e] # 0}
      <3>1. Admit(r, Evicted, inUse) /\ r \in pending /\ \A e \in inUse : refs[e] # 0
        BY <2>6 DEF Revive
      <3> HIDE DEF inUse
      <3> QED BY <2>5, <3>1
    <2>7. CASE OpenNew(c, r)
      <3> DEFINE inUse == {e \in Root : refs[e] > 0}
      <3>1. Admit(r, Evicted, inUse) /\ r \in FreeRoots
        BY <2>1, <2>7 DEF OpenNew, FreeRoots
      <3>2. \A e \in inUse : refs[e] # 0
        BY DEF Typed
      <3> HIDE DEF inUse
      <3> QED BY <2>5, <3>1, <3>2
    <2> QED BY <2>2, <2>4, <2>6, <2>7
  <1>4. ASSUME NEW c \in Caller, Release(c) PROVE Kept /\ ByCache
    BY <1>4 DEF Release, Alone, BgOpen
  <1>5. ASSUME NEW c \in Caller, ReleaseCached(c) PROVE Kept /\ ByCache
    BY <1>5 DEF ReleaseCached, Drop, Alone, BgOpen, Counts
  <1>6. ASSUME NEW r \in Extra, OpenExtra(r) PROVE Kept /\ ByBackground
    <2>1. /\ UNCHANGED <<cache, outside, call, server>>
          /\ bg' = [bg EXCEPT ![r] = IF Free(r) THEN "open" ELSE IF r \in handle THEN "blocked" ELSE "skipped"]
      BY <1>6 DEF OpenExtra, Background
    <2>2. BgOpen' \subseteq BgOpen \cup FreeRoots
      BY <2>1 DEF BgOpen, FreeRoots, Typed
    <2> QED BY <2>1, <2>2 DEF Alone
  <1>7. ASSUME NEW r \in Extra, CloseExtra(r) PROVE Kept /\ ByBackground
    <2>1. bg' = [bg EXCEPT ![r] = "skipped"] /\ UNCHANGED <<cache, outside>>
      BY <1>7 DEF CloseExtra, Background
    <2> QED BY <2>1 DEF Alone, BgOpen, Typed
  <1>8. ASSUME NEW r \in Extra, RegisterExtra(r) PROVE Kept /\ ByCache
    <2>1. bg[r] = "open" /\ bg' = [bg EXCEPT ![r] = "watched"] /\ UNCHANGED outside
      BY <1>8 DEF RegisterExtra, Background
    <2>2. BgOpen' = BgOpen
      BY <2>1 DEF BgOpen, Typed
    <2> QED BY <1>8, <2>1, <2>2, NothingToDrop DEF Alone
  <1>9. ASSUME NEW r \in Root, OtherProcess(r) PROVE Kept /\ ByOther
    BY <1>9 DEF OtherProcess, Alone, BgOpen, FreeRoots
  <1>10. CASE CloseExtras
    BY <1>10 DEF CloseExtras, Alone, BgOpen
  <1>11. CASE CloseProjectCache
    BY <1>11 DEF CloseProjectCache, Unused, Alone, BgOpen
  <1> QED BY <1>1, <1>2, <1>3, <1>4, <1>5, <1>6, <1>7, <1>8, <1>9, <1>10, <1>11 DEF Next

LEMMA AloneStep ==
    ASSUME Inv, Alone, [Next]_vars
    PROVE  Alone'
  BY OneHand DEF Alone, FreeRoots, Free

LEMMA AloneAlways == Spec => [](Inv /\ Alone)
  <1>1. Init => Alone
    BY DEF Init, Alone, BgOpen
  <1> QED BY <1>1, AloneStep, Inductive, PTL DEF Spec

(* To each root, the cache, the goroutine of the additional workdirs and   *)
(* the other processes are writers of one index: one has it open at a time *)
(* and gives it up before another opens it (db.Open in resolveProject,     *)
(* backgroundIndexAndWatch).                                               *)
THEOREM EachRootHasOneWriter ==
    ASSUME NEW r \in Root
    PROVE  Spec => Flock(r)!Spec
  <1>1. Init => Flock(r)!Init
    <2>1. ASSUME Init PROVE Holders(r) = {}
      <3>1. r \notin handle /\ r \notin BgOpen /\ r \notin outside
        BY <2>1 DEF Init, BgOpen
      <3> QED BY <3>1 DEF Holders, Held, Holder
    <2> QED BY <2>1 DEF Flock!Init
  <1>2. Inv /\ Alone /\ [Next]_vars => [Flock(r)!Next]_(Holders(r))
    <2> SUFFICES ASSUME Inv, Alone, [Next]_vars PROVE [Flock(r)!Next]_(Holders(r))
      OBVIOUS
    <2>1. /\ "cache" \in Holders(r) <=> r \in handle
          /\ "background" \in Holders(r) <=> r \in BgOpen
          /\ "outside" \in Holders(r) <=> r \in outside
          /\ Holders(r) \subseteq Holder
      BY DEF Holders, Held, Holder
    <2>2. /\ "cache" \in Holders(r)' <=> r \in handle'
          /\ "background" \in Holders(r)' <=> r \in BgOpen'
          /\ "outside" \in Holders(r)' <=> r \in outside'
          /\ Holders(r)' \subseteq Holder
      BY DEF Holders, Held, Holder
    <2>3. r \notin outside \cap (handle \cup BgOpen) /\ r \notin handle \cap BgOpen
      BY DEF Alone, Inv, Apart
    <2>4. r \in FreeRoots => Holders(r) = {}
      BY <2>1 DEF FreeRoots, Free, Holder
    <2>5. ASSUME NEW h \in Holder, \A k \in Holder \ {h} : k \in Holders(r)' <=> k \in Holders(r),
                 h \in Holders(r)' /\ h \notin Holders(r) => Holders(r) = {}
          PROVE  [Flock(r)!Next]_(Holders(r))
      <3>1. CASE h \in Holders(r)' <=> h \in Holders(r)
        BY <3>1, <2>1, <2>2, <2>5
      <3>2. CASE h \in Holders(r)' /\ h \notin Holders(r)
        <4>1. Holders(r) = {} /\ Holders(r)' = {h}
          BY <3>2, <2>1, <2>2, <2>5
        <4> QED BY <4>1, <2>5 DEF Flock!Next, Flock!Open
      <3>3. CASE h \notin Holders(r)' /\ h \in Holders(r)
        <4>1. Holders(r)' = Holders(r) \ {h}
          BY <3>3, <2>1, <2>2, <2>5
        <4> QED BY <3>3, <4>1, <2>5 DEF Flock!Next, Flock!Close
      <3> QED BY <3>1, <3>2, <3>3
    <2>6. PICK h \in Holder : /\ \A k \in Holder \ {h} : k \in Holders(r)' <=> k \in Holders(r)
                              /\ h \in Holders(r)' /\ h \notin Holders(r) => r \in FreeRoots
      BY <2>1, <2>2, OneHand DEF Holder
    <2> QED BY <2>4, <2>5, <2>6
  <1> QED BY <1>1, <1>2, AloneAlways, PTL DEF Spec, Flock!Spec

-----------------------------------------------------------------------------
(* Paths.                                                                  *)

\* A prefix agrees segment by segment.
LEMMA PrefixSegments ==
    ASSUME NEW s \in Path, NEW t \in Path
    PROVE  IsPrefix(s, t) <=> Len(s) <= Len(t) /\ \A i \in 1 .. Len(s) : s[i] = t[i]
<1>1. Len(s) \in Nat /\ Len(t) \in Nat
  BY DEF Path
<1>2. ASSUME Len(s) <= Len(t), \A i \in 1 .. Len(s) : s[i] = t[i]
      PROVE  SubSeq(s, 1, Len(s)) = SubSeq(t, 1, Len(s))
  <2>1. SubSeq(s, 1, Len(s)) \in Seq(Name) /\ Len(SubSeq(s, 1, Len(s))) = Len(s)
        /\ SubSeq(t, 1, Len(s)) \in Seq(Name) /\ Len(SubSeq(t, 1, Len(s))) = Len(s)
    BY <1>1, <1>2 DEF Path
  <2>2. \A i \in 1 .. Len(s) : SubSeq(s, 1, Len(s))[i] = SubSeq(t, 1, Len(s))[i]
    BY <1>1, <1>2 DEF Path
  <2> QED BY <2>1, <2>2, SeqEqual
<1>3. ASSUME Len(s) <= Len(t), SubSeq(s, 1, Len(s)) = SubSeq(t, 1, Len(s)), NEW i \in 1 .. Len(s)
      PROVE  s[i] = t[i]
  <2>1. SubSeq(s, 1, Len(s))[i] = s[i] /\ SubSeq(t, 1, Len(s))[i] = t[i]
    BY <1>1, <1>3 DEF Path
  <2> QED BY <2>1, <1>3
<1> QED BY <1>2, <1>3 DEF IsPrefix

\* Prefixes of one path are comparable, and a prefix of a prefix is one.
LEMMA PrefixOrder ==
    ASSUME NEW s \in Path, NEW t \in Path, NEW u \in Path
    PROVE  /\ IsPrefix(s, s)
           /\ IsPrefix(s, t) /\ IsPrefix(t, u) => IsPrefix(s, u)
           /\ IsPrefix(s, u) /\ IsPrefix(t, u) => IsPrefix(s, t) \/ IsPrefix(t, s)
           /\ IsPrefix(s, t) /\ IsPrefix(t, s) => s = t
<1>1. Len(s) \in Nat /\ Len(t) \in Nat /\ Len(u) \in Nat
  BY DEF Path
<1>2. IsPrefix(s, t) /\ IsPrefix(t, s) => s = t
  <2>1. SUFFICES ASSUME IsPrefix(s, t), IsPrefix(t, s) PROVE s = t
    OBVIOUS
  <2>2. Len(s) = Len(t) /\ \A i \in 1 .. Len(s) : s[i] = t[i]
    BY <1>1, <2>1, PrefixSegments
  <2> QED BY <2>2, SeqEqual DEF Path
<1> QED BY <1>1, <1>2, PrefixSegments

\* What is between a directory and a path below it.
LEMMA StepFacts ==
    ASSUME NEW wd \in Path, NEW p \in Path, IsPrefix(wd, p), NEW d \in Steps(wd, p)
    PROVE  /\ d \in Path /\ Len(wd) < Len(d) /\ Len(d) <= Len(p)
           /\ IsPrefix(wd, d) /\ IsPrefix(d, p) /\ d # wd
           /\ Rel(wd, d) \in Path /\ Len(Rel(wd, d)) = Len(d) - Len(wd)
           /\ \A i \in 1 .. Len(d) - Len(wd) : Rel(wd, d)[i] = d[Len(wd) + i]
           /\ Base(Rel(wd, d)) = Base(d) /\ wd \o Rel(wd, d) = d
<1>1. Len(wd) \in Nat /\ Len(p) \in Nat /\ Len(wd) <= Len(p)
  BY PrefixSegments DEF Path
<1>2. PICK k \in Len(wd) + 1 .. Len(p) : d = SubSeq(p, 1, k)
  BY DEF Steps
<1>3. k \in Nat /\ d \in Path /\ Len(d) = k /\ \A i \in 1 .. k : d[i] = p[i]
  BY <1>1, <1>2 DEF Path
<1>4. IsPrefix(wd, d) /\ IsPrefix(d, p)
  <2>1. \A i \in 1 .. Len(wd) : wd[i] = p[i]
    BY PrefixSegments
  <2>2. Len(wd) <= Len(d) /\ \A i \in 1 .. Len(wd) : wd[i] = d[i]
    BY <1>1, <1>3, <2>1
  <2>3. IsPrefix(wd, d)
    BY <1>3, <2>2, PrefixSegments
  <2>4. Len(d) <= Len(p) /\ \A i \in 1 .. Len(d) : d[i] = p[i]
    BY <1>1, <1>3
  <2>5. IsPrefix(d, p)
    BY <1>3, <2>4, PrefixSegments
  <2> QED BY <2>3, <2>5
<1>5. /\ Rel(wd, d) \in Path /\ Len(Rel(wd, d)) = Len(d) - Len(wd)
      /\ \A i \in 1 .. Len(d) - Len(wd) : Rel(wd, d)[i] = d[Len(wd) + i]
  <2>1. \A i \in Len(wd) + 1 .. Len(d) : d[i] \in Name
    BY <1>1, <1>3 DEF Path
  <2>2. Len(wd) + 1 \in Int /\ Len(d) \in Int
    BY <1>1, <1>3
  <2> QED BY <2>1, <2>2, <1>1, <1>2, <1>3, SubSeqProperties DEF Rel, From, Path
<1>6. wd \o Rel(wd, d) = d
  <2>1. \A i \in 1 .. Len(wd) : wd[i] = d[i]
    BY <1>3, <1>4, PrefixSegments
  <2>2. Len(wd \o Rel(wd, d)) = Len(d) /\ wd \o Rel(wd, d) \in Path
    <3>1. /\ wd \o Rel(wd, d) \in Path
          /\ Len(wd \o Rel(wd, d)) = Len(wd) + Len(Rel(wd, d))
      BY <1>5, ConcatProperties DEF Path
    <3> QED BY <3>1, <1>1, <1>3, <1>5
  <2>3. ASSUME NEW i \in 1 .. Len(d) PROVE (wd \o Rel(wd, d))[i] = d[i]
    <3>1. (wd \o Rel(wd, d))[i] = IF i <= Len(wd) THEN wd[i] ELSE Rel(wd, d)[i - Len(wd)]
      BY <1>1, <1>3, <1>5, ConcatProperties DEF Path
    <3>2. CASE i <= Len(wd)
      BY <3>1, <3>2, <2>1, <1>1
    <3>3. CASE ~(i <= Len(wd))
      <4>1. i - Len(wd) \in 1 .. Len(d) - Len(wd) /\ Len(wd) + (i - Len(wd)) = i
        BY <3>3, <1>1, <1>3
      <4> QED BY <4>1, <3>1, <3>3, <1>5
    <3> QED BY <3>2, <3>3
  <2> QED BY <2>2, <2>3, <1>3, SeqEqual DEF Path
<1> QED BY <1>1, <1>2, <1>3, <1>4, <1>5, <1>6 DEF Base, Last

\* A prefix of a path of this kind is a step.
LEMMA StepAt ==
    ASSUME NEW wd \in Path, NEW p \in Path, IsPrefix(wd, p), NEW n \in Len(wd) + 1 .. Len(p)
    PROVE  SubSeq(p, 1, n) \in Steps(wd, p) /\ Len(SubSeq(p, 1, n)) = n
<1>1. Len(wd) \in Nat /\ Len(p) \in Nat
  BY DEF Path
<1> QED BY <1>1 DEF Steps, Path

\* Names and runs at the end of a path, and anywhere in it.
LEMMA EndSegments ==
    ASSUME NEW r \in Path, NEW run \in Path
    PROVE  EndsIn(r, run) <=> Len(run) <= Len(r) /\ \A i \in 1 .. Len(run) : r[Len(r) - Len(run) + i] = run[i]
<1>1. Len(run) \in Nat /\ Len(r) \in Nat
  BY DEF Path
<1> DEFINE e == From(r, Len(r) - Len(run) + 1)
<1>2. ASSUME Len(run) <= Len(r)
      PROVE  e \in Path /\ Len(e) = Len(run) /\ \A i \in 1 .. Len(run) : e[i] = r[Len(r) - Len(run) + i]
  <2>1. \A i \in Len(r) - Len(run) + 1 .. Len(r) : r[i] \in Name
    BY <1>1, <1>2 DEF Path
  <2>2. Len(r) - Len(run) + 1 \in Int /\ Len(r) \in Int
    BY <1>1
  <2> QED BY <2>1, <2>2, <1>1, <1>2, SubSeqProperties DEF From, Path
<1>3. ASSUME Len(run) <= Len(r), \A i \in 1 .. Len(run) : r[Len(r) - Len(run) + i] = run[i]
      PROVE  e = run
  <2> HIDE DEF e
  <2> QED BY <1>2, <1>3, SeqEqual DEF Path
<1>4. ASSUME Len(run) <= Len(r), e = run
      PROVE  \A i \in 1 .. Len(run) : r[Len(r) - Len(run) + i] = run[i]
  <2> HIDE DEF e
  <2> QED BY <1>2, <1>4
<1> QED BY <1>3, <1>4 DEF EndsIn

LEMMA HoldSegments ==
    ASSUME NEW r \in Path, NEW run \in Path \ {<<>>}
    PROVE  Holds(r, run) <=> \E k \in 0 .. Len(r) - Len(run) : \A i \in 1 .. Len(run) : r[k + i] = run[i]
<1>1. Len(run) \in Nat \ {0} /\ Len(r) \in Nat /\ DOMAIN r = 1 .. Len(r)
  BY EmptySeq, LenProperties DEF Path
<1>2. ASSUME NEW k \in 1 .. Len(r)
      PROVE  /\ From(r, k) \in Path /\ Len(From(r, k)) = Len(r) - k + 1
             /\ \A i \in 1 .. Len(r) - k + 1 : From(r, k)[i] = r[k + i - 1]
  <2>1. \A i \in k .. Len(r) : r[i] \in Name
    BY <1>1 DEF Path
  <2>2. k \in Int /\ Len(r) \in Int
    BY <1>1
  <2> QED BY <2>1, <2>2, <1>1, SubSeqProperties DEF From, Path
<1>3. ASSUME NEW k \in 1 .. Len(r), IsPrefix(run, From(r, k))
      PROVE  k - 1 \in 0 .. Len(r) - Len(run) /\ \A i \in 1 .. Len(run) : r[(k - 1) + i] = run[i]
  <2>1. Len(run) <= Len(r) - k + 1 /\ \A i \in 1 .. Len(run) : run[i] = From(r, k)[i]
    BY <1>2, <1>3, PrefixSegments
  <2>2. \A i \in 1 .. Len(run) : From(r, k)[i] = r[(k - 1) + i]
    BY <1>1, <1>2, <2>1
  <2> QED BY <1>1, <2>1, <2>2
<1>4. ASSUME NEW k \in 0 .. Len(r) - Len(run), \A i \in 1 .. Len(run) : r[k + i] = run[i]
      PROVE  k + 1 \in 1 .. Len(r) /\ IsPrefix(run, From(r, k + 1))
  <2>1. k + 1 \in 1 .. Len(r)
    BY <1>1
  <2> DEFINE rest == From(r, k + 1)
  <2>2. rest \in Path /\ Len(rest) = Len(r) - k /\ \A i \in 1 .. Len(r) - k : rest[i] = r[(k + 1) + i - 1]
    <3>1. /\ rest \in Path /\ Len(rest) = Len(r) - (k + 1) + 1
          /\ \A i \in 1 .. Len(r) - (k + 1) + 1 : rest[i] = r[(k + 1) + i - 1]
      BY <1>2, <2>1
    <3>2. Len(r) - (k + 1) + 1 = Len(r) - k
      BY <1>1
    <3> QED BY <3>1, <3>2
  <2> HIDE DEF rest
  <2>3. ASSUME NEW i \in 1 .. Len(run) PROVE run[i] = rest[i]
    <3>1. (k + 1) + i - 1 = k + i /\ i \in 1 .. Len(r) - k
      BY <1>1
    <3> QED BY <3>1, <2>2, <1>4
  <2>4. Len(run) <= Len(rest)
    BY <1>1, <2>2
  <2>5. IsPrefix(run, rest)
    BY <2>2, <2>3, <2>4, PrefixSegments
  <2> QED BY <2>1, <2>5 DEF rest
<1> QED BY <1>1, <1>3, <1>4 DEF Holds

LEMMA EndsInName ==
    ASSUME NEW r \in Path, r # <<>>, NEW n \in Name
    PROVE  EndsIn(r, <<n>>) <=> Base(r) = n
<1>1. <<n>> \in Path /\ Len(<<n>>) = 1 /\ <<n>>[1] = n
  BY DEF Path
<1>2. Len(r) \in Nat \ {0}
  BY EmptySeq DEF Path
<1>3. EndsIn(r, <<n>>) <=> 1 <= Len(r) /\ \A i \in 1 .. 1 : r[Len(r) - 1 + i] = <<n>>[i]
  BY <1>1, EndSegments
<1>4. (\A i \in 1 .. 1 : r[Len(r) - 1 + i] = <<n>>[i]) <=> r[Len(r)] = n
  <2>1. 1 .. 1 = {1} /\ Len(r) - 1 + 1 = Len(r)
    BY <1>2
  <2> QED BY <2>1, <1>1
<1>5. 1 <= Len(r)
  BY <1>2
<1> QED BY <1>3, <1>4, <1>5 DEF Base, Last

\* A run at the end of a path is in it, and a run in a path is at the end of
\* one of the paths above.
LEMMA EndHolds ==
    ASSUME NEW r \in Path, NEW run \in Path \ {<<>>}, EndsIn(r, run)
    PROVE  Holds(r, run)
<1>1. Len(run) \in Nat \ {0} /\ Len(r) \in Nat
  BY EmptySeq, LenProperties DEF Path
<1>2. Len(run) <= Len(r) /\ \A i \in 1 .. Len(run) : r[Len(r) - Len(run) + i] = run[i]
  BY EndSegments
<1>3. Len(r) - Len(run) \in 0 .. Len(r) - Len(run)
  BY <1>1, <1>2
<1> QED BY <1>2, <1>3, HoldSegments

LEMMA HoldEnds ==
    ASSUME NEW wd \in Path, NEW p \in Path, IsPrefix(wd, p), NEW d \in Steps(wd, p),
           NEW run \in Path \ {<<>>}, Holds(Rel(wd, d), run)
    PROVE  \E e \in Steps(wd, p) : EndsIn(Rel(wd, e), run)
<1>1. Len(run) \in Nat \ {0} /\ Len(wd) \in Nat /\ Len(p) \in Nat /\ Len(d) \in Nat
  BY EmptySeq, LenProperties, StepFacts DEF Path
<1> DEFINE r == Rel(wd, d)
<1>2. /\ r \in Path /\ Len(r) = Len(d) - Len(wd) /\ Len(d) <= Len(p)
      /\ \A i \in 1 .. Len(d) - Len(wd) : r[i] = p[Len(wd) + i]
  <2>1. \A i \in 1 .. Len(d) : d[i] = p[i]
    BY StepFacts, PrefixSegments
  <2>2. \A i \in 1 .. Len(d) - Len(wd) : Len(wd) + i \in 1 .. Len(d)
    BY <1>1
  <2> QED BY <2>1, <2>2, StepFacts
<1>3. PICK k \in 0 .. Len(r) - Len(run) : \A i \in 1 .. Len(run) : r[k + i] = run[i]
  <2>1. Holds(r, run)
    OBVIOUS
  <2> HIDE DEF r
  <2> QED BY <2>1, <1>2, HoldSegments
<1> HIDE DEF r
<1> DEFINE n == Len(wd) + k + Len(run)
           e == SubSeq(p, 1, n)
<1>4. n \in Len(wd) + 1 .. Len(p) /\ k \in Nat
  BY <1>1, <1>2
<1>5. e \in Steps(wd, p) /\ Len(e) = n
  BY <1>4, StepAt
<1>6. \A i \in 1 .. n : e[i] = p[i]
  BY <1>1, <1>4, <1>5, StepFacts, PrefixSegments
<1> HIDE DEF n, e
<1>7. /\ Rel(wd, e) \in Path /\ Len(Rel(wd, e)) = n - Len(wd)
      /\ \A i \in 1 .. n - Len(wd) : Rel(wd, e)[i] = e[Len(wd) + i]
  BY <1>5, StepFacts
<1>8. Len(Rel(wd, e)) = k + Len(run) /\ Len(run) <= Len(Rel(wd, e))
  BY <1>1, <1>4, <1>7 DEF n
<1>9. ASSUME NEW i \in 1 .. Len(run)
      PROVE  Rel(wd, e)[Len(Rel(wd, e)) - Len(run) + i] = run[i]
  <2>1. /\ Len(Rel(wd, e)) - Len(run) + i = k + i /\ k + i \in 1 .. n - Len(wd)
        /\ Len(wd) + (k + i) \in 1 .. n /\ k + i \in 1 .. Len(d) - Len(wd)
    BY <1>1, <1>2, <1>4, <1>8 DEF n
  <2>2. Rel(wd, e)[k + i] = p[Len(wd) + (k + i)]
    BY <2>1, <1>6, <1>7
  <2>3. r[k + i] = p[Len(wd) + (k + i)]
    BY <2>1, <1>2
  <2> QED BY <2>1, <2>2, <2>3, <1>3
<1>10. EndsIn(Rel(wd, e), run)
  BY <1>7, <1>8, <1>9, EndSegments
<1> QED BY <1>5, <1>10

-----------------------------------------------------------------------------
(* One visibility.                                                         *)

\* What every reader hides, by the segments below the root.
Marked(r) ==
    \/ Base(r) \in skipDirNames
    \/ \E run \in goSegments \cup skipPathFragments : Holds(r, run)

LEMMA RunTypes == goSegments \cup skipPathFragments \subseteq Path \ {<<>>}
<1>1. goSegments \subseteq Path \ {<<>>}
  <2>1. \A x, y \in Name : <<x, y>> \in Path \ {<<>>}
    BY DEF Path
  <2> QED BY <2>1, NameAssumption DEF goSegments
<1> QED BY <1>1, RunAssumption DEF Path

LEMMA WalkerSkips ==
    ASSUME NEW w \in World, NEW root \in Path, NEW p \in Path, IsPrefix(root, p), NEW d \in Steps(root, p)
    PROVE  ShouldSkipDirIn([w EXCEPT !.rules = {}], root, d)
             <=> \/ Marked(Rel(root, d))
                 \/ Base(Rel(root, d)) = "go" /\ isGopathRoot(w, Rel(root, d))
                 \/ Rel(root, d) = <<"go">> /\ isGopathRoot(w, d)
                 \/ homeModeSkips(w, root, d)
<1> DEFINE v == [w EXCEPT !.rules = {}]
           r == Rel(root, d)
<1>1. v.home = w.home /\ v.marked = w.marked /\ v.all = w.all /\ v.rules = {}
  BY DEF World
<1>2. /\ d # root /\ IsPrefix(root, d) /\ Base(r) = Base(d) /\ r # <<>>
  BY StepFacts, EmptySeq DEF Path
<1> HIDE DEF v, r
<1>3. \A q : isGopathRoot(v, q) <=> isGopathRoot(w, q)
  BY <1>1 DEF isGopathRoot
<1>4. homeModeSkips(v, root, d) <=> homeModeSkips(w, root, d)
  BY <1>1 DEF homeModeSkips, IsBroadWorkdir, HasProjectMarker
<1>5. ShouldSkipDirIn(v, root, d)
        <=> \/ Base(d) \in skipDirNames
            \/ isGoToolchainPath(v, r)
            \/ r = <<"go">> /\ isGopathRoot(v, d)
            \/ \E run \in skipPathFragments : Holds(r, run)
            \/ homeModeSkips(v, root, d)
  BY <1>1, <1>2 DEF ShouldSkipDirIn, r
<1>6. isGoToolchainPath(v, r)
        <=> \/ \E run \in goSegments : Holds(r, run)
            \/ Base(r) = "go" /\ isGopathRoot(w, r)
  BY <1>2, <1>3 DEF isGoToolchainPath
<1>7. ShouldSkipDirIn(v, root, d)
        <=> \/ Marked(r)
            \/ Base(r) = "go" /\ isGopathRoot(w, r)
            \/ r = <<"go">> /\ isGopathRoot(w, d)
            \/ homeModeSkips(w, root, d)
  BY <1>2, <1>3, <1>4, <1>5, <1>6 DEF Marked
<1> QED BY <1>7 DEF v, r

LEMMA GlobsHide ==
    ASSUME NEW w, NEW root, NEW p
    PROVE  rgHides(w, root, p)
             <=> \E d \in Steps(root, p) :
                    \/ Rel(root, d) = <<"go">> /\ isGopathRoot(w, root \o <<"go">>)
                    \/ \E n \in skipDirNames : EndsIn(Rel(root, d), <<n>>)
                    \/ \E run \in goSegments \cup skipPathFragments : EndsIn(Rel(root, d), run)
<1> DEFINE runs == {<<n>> : n \in skipDirNames} \cup skipPathFragments \cup goSegments
           tops == {r \in {<<"go">>} : isGopathRoot(w, root \o r)}
<1>1. BuiltinSkipGlobs(w, root) = {[top |-> FALSE, run |-> r] : r \in runs} \cup {[top |-> TRUE, run |-> r] : r \in tops}
  BY DEF BuiltinSkipGlobs
<1>2. ASSUME NEW r
      PROVE  (\E g \in BuiltinSkipGlobs(w, root) : IF g.top THEN r = g.run ELSE EndsIn(r, g.run))
               <=> (\E t \in tops : r = t) \/ (\E t \in runs : EndsIn(r, t))
  <2> HIDE DEF runs, tops
  <2> DEFINE hides(g) == IF g.top THEN r = g.run ELSE EndsIn(r, g.run)
  <2>1. ASSUME NEW g \in BuiltinSkipGlobs(w, root), hides(g)
        PROVE  (\E t \in tops : r = t) \/ (\E t \in runs : EndsIn(r, t))
    <3>1. CASE \E t \in runs : g = [top |-> FALSE, run |-> t]
      BY <2>1, <3>1
    <3>2. CASE \E t \in tops : g = [top |-> TRUE, run |-> t]
      BY <2>1, <3>2
    <3> QED BY <1>1, <2>1, <3>1, <3>2
  <2>2. ASSUME NEW t \in tops, r = t PROVE \E g \in BuiltinSkipGlobs(w, root) : hides(g)
    <3>1. hides([top |-> TRUE, run |-> t])
      BY <2>2
    <3>2. [top |-> TRUE, run |-> t] \in BuiltinSkipGlobs(w, root)
      BY <1>1
    <3> QED BY <3>1, <3>2
  <2>3. ASSUME NEW t \in runs, EndsIn(r, t) PROVE \E g \in BuiltinSkipGlobs(w, root) : hides(g)
    <3>1. hides([top |-> FALSE, run |-> t])
      BY <2>3
    <3>2. [top |-> FALSE, run |-> t] \in BuiltinSkipGlobs(w, root)
      BY <1>1
    <3> QED BY <3>1, <3>2
  <2> QED BY <2>1, <2>2, <2>3
<1>3. ASSUME NEW r
      PROVE  (\E t \in tops : r = t) <=> r = <<"go">> /\ isGopathRoot(w, root \o <<"go">>)
  OBVIOUS
<1>4. ASSUME NEW r
      PROVE  (\E t \in runs : EndsIn(r, t))
               <=> \/ \E n \in skipDirNames : EndsIn(r, <<n>>)
                   \/ \E run \in goSegments \cup skipPathFragments : EndsIn(r, run)
  OBVIOUS
<1> HIDE DEF runs, tops
<1> QED BY <1>2, <1>3, <1>4 DEF rgHides

\* A file below a root is named by its path, and lies in its directory.
LEMMA FileBelow ==
    ASSUME NEW root \in Path, NEW p \in Path, IsPrefix(root, p), NEW f
    PROVE  root \o Rel(root, Append(p, f)) = Append(p, f) /\ Front(Append(p, f)) = p
<1> DEFINE S == Name \cup {f}
           q == Append(p, f)
           r == Rel(root, q)
<1>1. p \in Seq(S) /\ root \in Seq(S) /\ f \in S /\ Len(p) \in Nat /\ Len(root) \in Nat
  BY SeqMonotonic DEF Path
<1>2. Len(root) <= Len(p) /\ \A i \in 1 .. Len(root) : root[i] = p[i]
  BY PrefixSegments
<1> HIDE DEF S
<1>3. q \in Seq(S) /\ Len(q) = Len(p) + 1 /\ \A i \in 1 .. Len(p) : q[i] = p[i]
  BY <1>1, AppendProperties
<1>4. r \in Seq(S) /\ Len(r) = Len(q) - Len(root) /\ \A i \in 1 .. Len(q) - Len(root) : r[i] = q[Len(root) + i]
  <2> HIDE DEF q
  <2>1. \A i \in Len(root) + 1 .. Len(q) : q[i] \in S
    BY <1>1, <1>3
  <2>2. Len(root) + 1 \in Int /\ Len(q) \in Int
    BY <1>1, <1>3
  <2>3. /\ r \in Seq(S) /\ Len(r) = Len(q) - (Len(root) + 1) + 1
        /\ \A i \in 1 .. Len(q) - (Len(root) + 1) + 1 : r[i] = q[(Len(root) + 1) + i - 1]
    BY <2>1, <2>2, <1>1, <1>2, <1>3, SubSeqProperties DEF Rel, From
  <2>4. Len(q) - (Len(root) + 1) + 1 = Len(q) - Len(root)
    BY <1>1, <1>3
  <2>5. \A i \in 1 .. Len(q) - Len(root) : (Len(root) + 1) + i - 1 = Len(root) + i
    BY <1>1, <1>3
  <2> QED BY <2>3, <2>4, <2>5
<1>5. root \o r = q
  <2> HIDE DEF q, r
  <2>1. root \o r \in Seq(S) /\ Len(root \o r) = Len(q)
    BY <1>1, <1>3, <1>4
  <2>2. ASSUME NEW i \in 1 .. Len(q) PROVE (root \o r)[i] = q[i]
    <3>1. (root \o r)[i] = IF i <= Len(root) THEN root[i] ELSE r[i - Len(root)]
      BY <1>1, <1>3, <1>4, ConcatProperties
    <3>2. CASE i <= Len(root)
      BY <3>1, <3>2, <1>1, <1>2, <1>3
    <3>3. CASE ~(i <= Len(root))
      <4>1. i - Len(root) \in 1 .. Len(q) - Len(root) /\ Len(root) + (i - Len(root)) = i
        BY <3>3, <1>1, <1>3
      <4> QED BY <4>1, <3>1, <3>3, <1>4
    <3> QED BY <3>2, <3>3
  <2> QED BY <2>1, <2>2, <1>3, SeqEqual
<1>6. Front(q) = p
  <2> HIDE DEF q
  <2>1. Len(q) - 1 = Len(p)
    BY <1>1, <1>3
  <2>2. \A i \in 1 .. Len(p) : q[i] \in S
    BY <1>1, <1>3
  <2>3. /\ SubSeq(q, 1, Len(p)) \in Seq(S) /\ Len(SubSeq(q, 1, Len(p))) = Len(p)
        /\ \A i \in 1 .. Len(p) : SubSeq(q, 1, Len(p))[i] = p[i]
    BY <1>1, <1>3, <2>2
  <2>4. SubSeq(q, 1, Len(p)) = p
    BY <2>3, <1>1, SeqEqual
  <2> QED BY <2>1, <2>4 DEF Front
<1> QED BY <1>5, <1>6

\* The indexer, ripgrep and the git assist agree below every root, in every
\* world and for every list of skipped names and runs (BuiltinSkipGlobs,
\* ShouldSkipDirIn, GitDirtySourceFiles).
THEOREM SameVisibilityEverywhere ==
    ASSUME NEW w \in World, NEW root \in Path, NEW p \in Path, IsPrefix(root, p)
    PROVE  SameVisibility(w, root, p)
<1> DEFINE v == [w EXCEPT !.rules = {}]
           walked == visitIndexable(v, root, p)
<1>1. walked <=> \A d \in Steps(root, p) : ~ShouldSkipDirIn(v, root, d)
  BY DEF visitIndexable
<1>2. ASSUME NEW d \in Steps(root, p)
      PROVE  ShouldSkipDirIn(v, root, d)
               <=> \/ Marked(Rel(root, d))
                   \/ Base(Rel(root, d)) = "go" /\ isGopathRoot(w, Rel(root, d))
                   \/ Rel(root, d) = <<"go">> /\ isGopathRoot(w, d)
                   \/ homeModeSkips(w, root, d)
  BY WalkerSkips
<1> HIDE DEF v
<1>3. ASSUME walked, rgHides(w, root, p) PROVE FALSE
  <2>1. PICK d \in Steps(root, p) :
               \/ Rel(root, d) = <<"go">> /\ isGopathRoot(w, root \o <<"go">>)
               \/ \E n \in skipDirNames : EndsIn(Rel(root, d), <<n>>)
               \/ \E run \in goSegments \cup skipPathFragments : EndsIn(Rel(root, d), run)
    BY <1>3, GlobsHide
  <2>2. Rel(root, d) \in Path /\ Rel(root, d) # <<>> /\ root \o Rel(root, d) = d
    BY StepFacts, EmptySeq DEF Path
  <2>3. ~ShouldSkipDirIn(v, root, d)
    BY <1>1, <1>3
  <2>4. CASE Rel(root, d) = <<"go">> /\ isGopathRoot(w, root \o <<"go">>)
    BY <2>2, <2>3, <2>4, <1>2
  <2>5. ASSUME NEW n \in skipDirNames, EndsIn(Rel(root, d), <<n>>) PROVE FALSE
    <3>1. Base(Rel(root, d)) = n
      BY <2>2, <2>5, EndsInName, NameAssumption
    <3> QED BY <3>1, <2>3, <1>2 DEF Marked
  <2>6. ASSUME NEW run \in goSegments \cup skipPathFragments, EndsIn(Rel(root, d), run) PROVE FALSE
    <3>1. Holds(Rel(root, d), run)
      BY <2>2, <2>6, RunTypes, EndHolds
    <3> QED BY <3>1, <2>3, <1>2 DEF Marked
  <2> QED BY <2>1, <2>4, <2>5, <2>6
<1>4. ASSUME ~WalkerOnly(w, root, p), ~walked PROVE rgHides(w, root, p)
  <2>1. PICK d \in Steps(root, p) : ShouldSkipDirIn(v, root, d)
    BY <1>1, <1>4
  <2>2. Rel(root, d) \in Path /\ Rel(root, d) # <<>> /\ root \o Rel(root, d) = d
    BY StepFacts, EmptySeq DEF Path
  <2>3. ~homeModeSkips(w, root, d) /\ ~isGopathRoot(w, Rel(root, d))
    BY <1>4 DEF WalkerOnly
  <2>4. CASE Rel(root, d) = <<"go">> /\ isGopathRoot(w, d)
    BY <2>2, <2>4, GlobsHide
  <2>5. CASE Base(Rel(root, d)) \in skipDirNames
    <3>1. EndsIn(Rel(root, d), <<Base(Rel(root, d))>>)
      BY <2>2, <2>5, EndsInName, NameAssumption
    <3> QED BY <2>5, <3>1, GlobsHide
  <2>6. ASSUME NEW run \in goSegments \cup skipPathFragments, Holds(Rel(root, d), run)
        PROVE  rgHides(w, root, p)
    <3>1. \E e \in Steps(root, p) : EndsIn(Rel(root, e), run)
      BY <2>6, RunTypes, HoldEnds
    <3> QED BY <3>1, GlobsHide
  <2> QED BY <2>1, <2>3, <2>4, <2>5, <2>6, <1>2 DEF Marked
<1>5. visitIndexable(w, root, p)
        <=> Append(p, "f") \in GitDirtySourceFiles(w, root, root, {Append(p, "f")})
  <2>1. root \o Rel(root, Append(p, "f")) = Append(p, "f") /\ Front(Append(p, "f")) = p
    BY FileBelow
  <2> QED BY <2>1 DEF GitDirtySourceFiles, visitIndexable
<1> QED BY <1>3, <1>4, <1>5 DEF SameVisibility, v
-----------------------------------------------------------------------------
(* The nearest index, and the project that a path selects.                 *)

LEMMA MinIsLeast ==
    ASSUME NEW S \in SUBSET Nat, S # {}
    PROVE  Min(S) \in S /\ \A y \in S : Min(S) <= y
<1>1. \E x \in S : \A y \in S : x <= y
  <2>1. IsWellFoundedOn(OpToRel(<, Nat), Nat)
    BY NatLessThanWellFounded
  <2>2. \E x \in S : \A y \in S : ~(<<y, x>> \in OpToRel(<, Nat))
    <3> DEFINE R == OpToRel(<, Nat)
    <3>1. IsWellFoundedOn(R, Nat)
      BY <2>1
    <3> HIDE DEF R
    <3>2. \E x \in S : \A y \in S : ~(<<y, x>> \in R)
      BY <3>1, WFMin
    <3> QED BY <3>2 DEF R
  <2>3. PICK x \in S : \A y \in S : ~(<<y, x>> \in OpToRel(<, Nat))
    BY <2>2
  <2>4. ASSUME NEW y \in S PROVE x <= y
    <3>1. ~(y < x)
      BY <2>3 DEF OpToRel
    <3> QED BY <3>1
  <2> QED BY <2>4
<1> QED BY <1>1 DEF Min

LEMMA MaxIsGreatest ==
    ASSUME NEW S \in SUBSET Nat, S # {}, NEW n \in Nat, \A y \in S : y <= n
    PROVE  Max(S) \in S /\ \A y \in S : y <= Max(S)
<1> DEFINE T == {n - y : y \in S}
<1>1. T \in SUBSET Nat /\ T # {}
  <2>1. \A y \in S : y \in Nat /\ n - y \in Nat
    OBVIOUS
  <2> QED BY <2>1
<1>2. PICK t \in T : \A u \in T : t <= u
  <2> HIDE DEF T
  <2> QED BY <1>1, MinIsLeast
<1>3. PICK x \in S : t = n - x
  BY <1>2
<1>4. ASSUME NEW y \in S PROVE x >= y
  <2>1. n - x <= n - y
    BY <1>2, <1>3
  <2> QED BY <2>1, <1>3
<1>5. \E m \in S : \A y \in S : m >= y
  BY <1>3, <1>4
<1>6. Max(S) \in S /\ \A y \in S : Max(S) >= y
  BY <1>5 DEF Max
<1> QED BY <1>6

\* The climb ends at an index that walks the start of the climb.
LEMMA NearestIndex ==
    ASSUME NEW w \in World, NEW start \in Path, FindNearestCodeGraphRootBounded(w, start) # NoPath
    PROVE  LET root == FindNearestCodeGraphRootBounded(w, start)
           IN  root \in w.indexed /\ IsPrefix(root, start) /\ visitIndexable(w, root, start)
<1> DEFINE above == {k \in 0 .. Len(start) : SubSeq(start, 1, k) \in w.indexed}
           cand  == SubSeq(start, 1, Max(above))
<1>1. Len(start) \in Nat
  BY DEF Path
<1>2. /\ above # {}
      /\ ~\E d \in Steps(cand, start) : ShouldSkipDirIn(w, cand, d)
      /\ FindNearestCodeGraphRootBounded(w, start) = cand
  BY DEF FindNearestCodeGraphRootBounded
<1>3. Max(above) \in above
  <2>1. above \in SUBSET Nat /\ \A k \in above : k <= Len(start)
    BY <1>1
  <2> HIDE DEF above
  <2> QED BY <2>1, <1>1, <1>2, MaxIsGreatest
<1>4. Max(above) \in 0 .. Len(start) /\ cand \in w.indexed
  BY <1>3
<1> HIDE DEF above
<1>5. cand \in Path /\ Len(cand) = Max(above) /\ \A i \in 1 .. Max(above) : cand[i] = start[i]
  BY <1>1, <1>4 DEF Path
<1> HIDE DEF cand
<1>6. IsPrefix(cand, start)
  BY <1>1, <1>4, <1>5, PrefixSegments
<1>7. visitIndexable(w, cand, start)
  BY <1>2, <1>6 DEF visitIndexable
<1> QED BY <1>2, <1>4, <1>6, <1>7

\* An index is its own nearest index.
LEMMA IndexedIsNearest ==
    ASSUME NEW w \in World, NEW start \in Path, start \in w.indexed
    PROVE  FindNearestCodeGraphRootBounded(w, start) = start
<1> DEFINE above == {k \in 0 .. Len(start) : SubSeq(start, 1, k) \in w.indexed}
<1>1. Len(start) \in Nat /\ SubSeq(start, 1, Len(start)) = start
  <2>1. Len(start) \in Nat
    BY DEF Path
  <2> QED BY <2>1, SubSeqFull DEF Path
<1>2. Len(start) \in above /\ above \in SUBSET Nat /\ \A k \in above : k <= Len(start)
  <2>1. Len(start) \in 0 .. Len(start)
    BY <1>1
  <2>2. \A k \in 0 .. Len(start) : k \in Nat /\ k <= Len(start)
    BY <1>1
  <2> QED BY <2>1, <2>2, <1>1
<1>3. Max(above) = Len(start)
  <2> HIDE DEF above
  <2>1. Max(above) \in above /\ \A k \in above : k <= Max(above)
    BY <1>1, <1>2, MaxIsGreatest
  <2>2. Max(above) \in Nat /\ Max(above) <= Len(start) /\ Len(start) <= Max(above)
    BY <2>1, <1>2
  <2> QED BY <2>2, <1>1
<1>4. Steps(start, start) = {}
  BY <1>1 DEF Steps
<1>5. above # {} /\ SubSeq(start, 1, Max(above)) = start
  BY <1>1, <1>2, <1>3
<1> HIDE DEF above
<1> QED BY <1>4, <1>5 DEF above, FindNearestCodeGraphRootBounded

\* A path whose first segment selects an indexed project is read as the place
\* the whole path names, in every world and for every list of workdirs
\* (adoptDetectedProject, resolveProject, rgSearchRoots).
THEOREM SelectorKeepsEveryPlace ==
    ASSUME NEW w \in World, NEW workdirs \in Seq(Dir), NEW path \in Path
    PROVE  SelectorKeepsPlace(w, workdirs, path)
<1> DEFINE call0 == adoptDetectedProject(w, workdirs, path)
           found == detectProject(w, workdirs, path)
           offered == {i \in DOMAIN workdirs : path # <<>> /\ workdirs[i] \o SubSeq(path, 1, 1)
                                                             \in detectedProjectDirs(w, workdirs[i])}
<1>1. SUFFICES ASSUME call0.project \in w.indexed, call0.path # <<>> \/ ~IsBroadWorkdir(w, call0.project)
               PROVE  \E wd \in ToSet(workdirs) : rgSearchRoots(w, workdirs, path) = {wd \o path}
  BY DEF SelectorKeepsPlace
<1>2. call0.project = found /\ call0.path = IF found = NoPath THEN path ELSE Tail(path)
  BY DEF adoptDetectedProject
<1>3. found \in Dir /\ found # NoPath
  BY <1>1, <1>2 DEF World, Dir
<1>4. offered # {} /\ found = workdirs[Min(offered)] \o SubSeq(path, 1, 1)
  BY <1>3 DEF detectProject
<1>5. Min(offered) \in offered
  <2>1. DOMAIN workdirs \subseteq Nat
    BY LenProperties
  <2>2. offered \in SUBSET Nat
    BY <2>1
  <2> HIDE DEF offered
  <2> QED BY <2>2, <1>4, MinIsLeast
<1> DEFINE wd == workdirs[Min(offered)]
<1>6. /\ wd \in ToSet(workdirs) /\ wd \in Path /\ path # <<>>
      /\ found \in detectedProjectDirs(w, wd)
  <2>1. Min(offered) \in DOMAIN workdirs /\ path # <<>> /\ found \in detectedProjectDirs(w, wd)
    BY <1>4, <1>5
  <2> HIDE DEF offered
  <2>2. workdirs[Min(offered)] \in Dir
    BY <2>1, ElementOfSeq, LenProperties
  <2> QED BY <2>1, <2>2 DEF ToSet, Dir
<1> HIDE DEF offered
<1>7. IsPrefix(wd, found) /\ found = wd \o SubSeq(path, 1, 1)
  BY <1>4, <1>6 DEF detectedProjectDirs
<1> HIDE DEF wd, found
<1>8. FindNearestCodeGraphRootBounded(w, found) = found
  BY <1>1, <1>2, <1>3, IndexedIsNearest DEF Dir
<1>9. resolveProject(w, workdirs, found) = found
  BY <1>3, <1>6, <1>7, <1>8 DEF resolveProject, projectRootAllowed
<1>10. rgSearchRoots(w, workdirs, path) = {found \o Tail(path)}
  <2>1. call0.path = Tail(path) /\ ~(Tail(path) = <<>> /\ IsBroadWorkdir(w, found))
    BY <1>1, <1>2, <1>3
  <2> HIDE DEF call0
  <2> QED BY <2>1, <1>2, <1>3, <1>9 DEF call0, rgSearchRoots
<1>11. found \o Tail(path) = wd \o path
  <2>1. /\ SubSeq(path, 1, 1) \in Path /\ Len(SubSeq(path, 1, 1)) = 1 /\ SubSeq(path, 1, 1)[1] = path[1]
        /\ Tail(path) \in Path /\ Len(Tail(path)) = Len(path) - 1 /\ Len(path) \in Nat \ {0}
        /\ \A i \in 1 .. Len(path) - 1 : Tail(path)[i] = path[i + 1]
    <3>1. Len(path) \in Nat \ {0}
      BY <1>6, EmptySeq DEF Path
    <3>2. Tail(path) \in Path /\ Len(Tail(path)) = Len(path) - 1
          /\ \A i \in 1 .. Len(path) - 1 : Tail(path)[i] = path[i + 1]
      BY <1>6, <3>1, HeadTailProperties DEF Path
    <3> QED BY <3>1, <3>2 DEF Path
  <2> DEFINE one == SubSeq(path, 1, 1)
             rest == Tail(path)
  <2> HIDE DEF one, rest
  <2>2. one \o rest = path
    <3>1. one \in Seq(Name) /\ rest \in Seq(Name)
      BY <2>1 DEF one, rest, Path
    <3>2. /\ one \o rest \in Seq(Name) /\ Len(one \o rest) = Len(one) + Len(rest)
          /\ \A i \in 1 .. Len(one) + Len(rest) :
                (one \o rest)[i] = IF i <= Len(one) THEN one[i] ELSE rest[i - Len(one)]
      BY <3>1, ConcatProperties
    <3>3. Len(one) = 1 /\ one[1] = path[1] /\ Len(rest) = Len(path) - 1
          /\ \A i \in 1 .. Len(path) - 1 : rest[i] = path[i + 1]
      BY <2>1 DEF one, rest
    <3>4. ASSUME NEW i \in 1 .. Len(path) PROVE (one \o rest)[i] = path[i]
      <4>1. CASE i = 1
        BY <4>1, <2>1, <3>2, <3>3
      <4>2. CASE i # 1
        <5>1. i - 1 \in 1 .. Len(path) - 1 /\ (i - 1) + 1 = i /\ i \in 1 .. Len(one) + Len(rest) /\ ~(i <= Len(one))
          BY <4>2, <2>1, <3>3
        <5> QED BY <5>1, <3>2, <3>3
      <4> QED BY <4>1, <4>2
    <3>5. Len(one \o rest) = Len(path)
      BY <2>1, <3>2, <3>3
    <3> QED BY <3>2, <3>4, <3>5, SeqEqual DEF Path
  <2>3. (wd \o one) \o rest = wd \o (one \o rest)
    BY <1>6, <2>1, ConcatAssociative DEF one, rest, Path
  <2> QED BY <1>7, <2>2, <2>3 DEF one, rest
<1> QED BY <1>6, <1>10, <1>11

-----------------------------------------------------------------------------
(* The session and its daemon.                                             *)

LEMMA OwnTree ==
    ASSUME NEW w, NEW p \in Path
    PROVE  visitIndexable(w, p, p)
<1>1. Len(p) \in Nat /\ Steps(p, p) = {}
  BY DEF Path, Steps
<1> QED BY <1>1, PrefixOrder DEF visitIndexable

\* The workdirs of a process are directories, at least one; each was
\* configured, is the -workdir, or is the current directory for want of both.
LEMMA Loaded ==
    ASSUME NEW explicit \in Dir \cup {NoPath}, NEW cwd \in Dir, NEW configured \in Seq(Dir)
    PROVE  LET loaded == LoadConfig(explicit, configured, cwd)
               target == IF explicit = NoPath THEN cwd ELSE explicit
           IN  /\ loaded \in Seq(Dir) /\ loaded # <<>> /\ target \in Dir
               /\ ToSet(configured) \subseteq ToSet(loaded) /\ ToSet(loaded) \subseteq ToSet(configured) \cup {target}
               /\ explicit # NoPath => explicit \in ToSet(loaded)
               /\ configured = <<>> => ToSet(loaded) = {target}
<1> DEFINE both == <<explicit>> \o configured
           loaded == LoadConfig(explicit, configured, cwd)
           target == IF explicit = NoPath THEN cwd ELSE explicit
<1>1. ASSUME NEW s \in Seq(Dir) PROVE ToSet(s) = {s[i] : i \in 1 .. Len(s)} /\ Len(s) \in Nat
  BY LenProperties DEF ToSet
<1>4. configured = <<>> => ToSet(configured) = {} /\ 1 .. Len(configured) = {}
  <2>1. ASSUME configured = <<>> PROVE Len(configured) = 0
    BY <2>1, EmptySeq
  <2>2. Len(configured) = 0 => 1 .. Len(configured) = {}
    OBVIOUS
  <2>3. ToSet(configured) = {configured[i] : i \in 1 .. Len(configured)}
    BY <1>1
  <2> QED BY <2>1, <2>2, <2>3
<1>2. CASE explicit = NoPath \/ Contains(configured, explicit)
  <2>1. loaded = IF configured = <<>> THEN <<cwd>> ELSE configured
    BY <1>2 DEF LoadConfig
  <2>2. <<cwd>> \in Seq(Dir) /\ ToSet(<<cwd>>) = {cwd}
    BY DEF ToSet
  <2>3. configured = <<>> => ToSet(configured) = {} /\ explicit = NoPath
    BY <1>2, <1>4 DEF Contains
  <2>4. explicit # NoPath => explicit \in ToSet(configured)
    BY <1>1, <1>2 DEF Contains
  <2> QED BY <2>1, <2>2, <2>3, <2>4
<1>3. CASE ~(explicit = NoPath \/ Contains(configured, explicit))
  <2>1. /\ both \in Seq(Dir) /\ Len(both) = Len(configured) + 1 /\ both[1] = explicit
        /\ \A i \in 1 .. Len(configured) : both[i + 1] = configured[i]
    <3>1. <<explicit>> \in Seq(Dir) /\ Len(<<explicit>>) = 1 /\ <<explicit>>[1] = explicit
      BY <1>3
    <3>2. /\ both \in Seq(Dir) /\ Len(both) = Len(<<explicit>>) + Len(configured)
          /\ \A i \in 1 .. Len(<<explicit>>) + Len(configured) :
                both[i] = IF i <= Len(<<explicit>>) THEN <<explicit>>[i] ELSE configured[i - Len(<<explicit>>)]
      BY <3>1, ConcatProperties
    <3>3. \A i \in 1 .. Len(configured) + 1 : both[i] = IF i <= 1 THEN explicit ELSE configured[i - 1]
      BY <3>1, <3>2, <1>1
    <3>4. Len(both) = Len(configured) + 1
      BY <3>1, <3>2, <1>1
    <3> HIDE DEF both
    <3>5. both[1] = explicit
      BY <3>3, <1>1
    <3>6. ASSUME NEW i \in 1 .. Len(configured) PROVE both[i + 1] = configured[i]
      <4>1. i + 1 \in 1 .. Len(configured) + 1 /\ ~(i + 1 <= 1) /\ (i + 1) - 1 = i
        BY <1>1
      <4> QED BY <4>1, <3>3
    <3> QED BY <3>2, <3>4, <3>5, <3>6
  <2> HIDE DEF both
  <2>2. ToSet(both) = ToSet(configured) \cup {explicit} /\ both # <<>>
    <3>1. ASSUME NEW i \in 1 .. Len(both) PROVE both[i] \in ToSet(configured) \cup {explicit}
      <4>1. CASE i = 1
        BY <4>1, <2>1
      <4>2. CASE i # 1
        <5>1. i - 1 \in 1 .. Len(configured) /\ (i - 1) + 1 = i
          BY <4>2, <2>1, <1>1
        <5>2. both[(i - 1) + 1] = configured[i - 1]
          BY <5>1, <2>1
        <5> QED BY <5>1, <5>2, <1>1
      <4> QED BY <4>1, <4>2
    <3>2. 1 \in 1 .. Len(both) /\ \A i \in 1 .. Len(configured) : i + 1 \in 1 .. Len(both)
      BY <2>1, <1>1
    <3>3. \A i \in 1 .. Len(configured) : configured[i] \in ToSet(both)
      BY <3>2, <2>1, <1>1
    <3>4. explicit \in ToSet(both) /\ both # <<>>
      BY <3>2, <2>1, <1>1, EmptySeq
    <3> QED BY <3>1, <3>3, <3>4, <2>1, <1>1
  <2>3. loaded = both
    BY <1>3, <2>2 DEF LoadConfig, both
  <2>4. configured = <<>> => ToSet(configured) = {}
    BY <1>4
  <2> QED BY <1>3, <2>1, <2>2, <2>3, <2>4
<1> QED BY <1>2, <1>3

\* The root of a session walks one of its workdirs: that one itself, or the
\* first that has an index above it.
LEMMA SessionRoot ==
    ASSUME NEW w \in World, NEW workdirs \in Seq(Dir), workdirs # <<>>
    PROVE  /\ resolveSessionRoot(w, workdirs) \in Dir
           /\ \E wd \in ToSet(workdirs) : visitIndexable(w, resolveSessionRoot(w, workdirs), wd)
<1> DEFINE found == {i \in DOMAIN workdirs : FindNearestCodeGraphRootBounded(w, workdirs[i]) # NoPath}
<1>1. /\ DOMAIN workdirs = 1 .. Len(workdirs) /\ 1 \in 1 .. Len(workdirs)
      /\ \A i \in 1 .. Len(workdirs) : workdirs[i] \in Dir /\ workdirs[i] \in ToSet(workdirs)
  <2>1. DOMAIN workdirs = 1 .. Len(workdirs) /\ Len(workdirs) \in Nat /\ Len(workdirs) # 0
    BY LenProperties, EmptySeq
  <2> QED BY <2>1, ElementOfSeq DEF ToSet
<1>2. CASE found = {}
  <2>1. resolveSessionRoot(w, workdirs) = workdirs[1]
    BY <1>2 DEF resolveSessionRoot
  <2> QED BY <2>1, <1>1, OwnTree DEF Dir
<1>3. CASE found # {}
  <2>1. resolveSessionRoot(w, workdirs) = FindNearestCodeGraphRootBounded(w, workdirs[Min(found)])
    BY <1>3 DEF resolveSessionRoot
  <2>2. Min(found) \in found
    <3>1. found \in SUBSET Nat
      BY <1>1
    <3> HIDE DEF found
    <3> QED BY <1>3, <3>1, MinIsLeast
  <2>3. PICK wd \in Dir : wd = workdirs[Min(found)] /\ wd \in ToSet(workdirs)
                          /\ FindNearestCodeGraphRootBounded(w, wd) # NoPath
    BY <2>2, <1>1
  <2>4. /\ FindNearestCodeGraphRootBounded(w, wd) \in w.indexed
        /\ visitIndexable(w, FindNearestCodeGraphRootBounded(w, wd), wd)
    BY <2>3, NearestIndex DEF Dir
  <2>5. w.indexed \subseteq Dir
    BY DEF World
  <2> HIDE DEF found
  <2> QED BY <2>1, <2>3, <2>4, <2>5
<1> QED BY <1>2, <1>3

\* The tree a session starts in is walked from a root of the daemon that
\* serves it, in every world and for every list of workdirs none of which
\* lies in another (NarrowExcludedWorkdirs, resolveSessionRoot).
THEOREM EverySessionSees ==
    ASSUME NEW w \in World, NEW explicit \in Dir \cup {NoPath}, NEW cwd \in Dir,
           NEW configured \in Seq(Dir), NotNested(configured)
    PROVE  SessionSees(w, explicit, cwd, configured)
<1> DEFINE target == IF explicit = NoPath THEN cwd ELSE explicit
           loaded == LoadConfig(explicit, configured, cwd)
           used == NarrowExcludedWorkdirs(w, explicit, cwd, loaded)
           allowlist == IF configured = <<>> THEN {w.home} ELSE ToSet(configured)
           root == resolveSessionRoot(w, used)
           again == LoadConfig(root, configured, root)
           served == DaemonWorkdirs(w, root, configured)
           blind(wd) == IsStrictPrefix(wd, target) /\ ~visitIndexable(w, wd, target)
           lost(wd) == IsStrictPrefix(wd, root) /\ ~visitIndexable(w, wd, root)
<1>1. /\ loaded \in Seq(Dir) /\ loaded # <<>> /\ target \in Dir
      /\ ToSet(configured) \subseteq ToSet(loaded) /\ ToSet(loaded) \subseteq ToSet(configured) \cup {target}
      /\ configured = <<>> => ToSet(loaded) = {target}
  BY Loaded
<1>2. used = IF \E wd \in ToSet(loaded) : blind(wd) THEN <<target>> ELSE loaded
  BY DEF NarrowExcludedWorkdirs
<1> HIDE DEF loaded, target
<1>3. \A s : s \in Seq(Dir) => ToSet(s) \subseteq Dir
  BY LenProperties, ElementOfSeq DEF ToSet
<1>4. <<target>> \in Seq(Dir) /\ <<target>> # <<>> /\ ToSet(<<target>>) = {target}
  BY <1>1 DEF ToSet
<1>5. used \in Seq(Dir) /\ used # <<>>
  BY <1>1, <1>2, <1>4
<1> HIDE DEF used
<1>6. root \in Dir /\ \E wd \in ToSet(used) : visitIndexable(w, root, wd)
  BY <1>5, SessionRoot
<1> HIDE DEF root
<1>7. root # NoPath
  BY <1>6 DEF Dir
<1>8. /\ again \in Seq(Dir) /\ root \in ToSet(again)
      /\ ToSet(configured) \subseteq ToSet(again) /\ ToSet(again) \subseteq ToSet(configured) \cup {root}
  <2>1. root \in Dir \cup {NoPath} /\ (IF root = NoPath THEN root ELSE root) = root
    BY <1>6
  <2> QED BY <1>6, <1>7, <2>1, Loaded
<1>9. served = IF \E wd \in ToSet(again) : lost(wd) THEN <<root>> ELSE again
  BY <1>7 DEF DaemonWorkdirs, SessionWorkdirs, NarrowExcludedWorkdirs
<1> HIDE DEF again
<1>10. root \in ToSet(served)
  <2>1. ToSet(<<root>>) = {root}
    BY DEF ToSet
  <2> QED BY <2>1, <1>8, <1>9
<1> HIDE DEF served
<1>11. \A wd \in ToSet(loaded) : wd \in Path
  BY <1>1, <1>3 DEF Dir
<1>12. allowlist \subseteq Path
  BY <1>3 DEF World, Dir
<1>13. SUFFICES ASSUME ValidateWorkdirs(loaded, allowlist)
                PROVE  /\ ValidateWorkdirs(used, allowlist)
                       /\ (\E wd \in ToSet(loaded) : IsPrefix(wd, target))
                             => \E r \in ToSet(served) : visitIndexable(w, r, target)
  BY DEF SessionSees, target, loaded, used, root, served
<1> HIDE DEF allowlist
<1>14. ValidateWorkdirs(used, allowlist)
  <2>1. ASSUME NEW wd \in ToSet(loaded), blind(wd) PROVE \E a \in allowlist : IsPrefix(a, target)
    <3>1. PICK a \in allowlist : IsPrefix(a, wd)
      BY <1>13 DEF ValidateWorkdirs
    <3>2. IsPrefix(wd, target)
      BY <2>1 DEF IsStrictPrefix
    <3>3. a \in Path /\ wd \in Path /\ target \in Path
      BY <1>1, <1>11, <1>12 DEF Dir
    <3> QED BY <3>1, <3>2, <3>3, PrefixOrder
  <2>2. CASE \E wd \in ToSet(loaded) : blind(wd)
    BY <2>1, <2>2, <1>2, <1>4 DEF ValidateWorkdirs
  <2> QED BY <2>2, <1>2, <1>13
<1>15. ASSUME NEW wd \in ToSet(loaded), IsPrefix(wd, target)
       PROVE  \E r \in ToSet(served) : visitIndexable(w, r, target)
  <2>1. PICK m \in ToSet(used) : visitIndexable(w, root, m)
    BY <1>6
  <2>2. CASE m = target
    BY <2>1, <2>2, <1>10
  <2>3. CASE m # target
    <3>1. used = loaded /\ \A d \in ToSet(loaded) : ~blind(d)
      BY <2>3, <1>2, <1>4
    <3>2. m \in ToSet(configured) /\ configured # <<>>
      BY <2>3, <3>1, <1>1
    <3>3. PICK v \in ToSet(configured) : IsPrefix(v, target)
      <4>1. CASE wd \in ToSet(configured)
        BY <4>1, <1>15
      <4>2. CASE wd = target
        BY <4>2, <3>2, <1>13 DEF ValidateWorkdirs, allowlist
      <4> QED BY <4>1, <4>2, <1>1
    <3>4. visitIndexable(w, v, target)
      <4>1. v = target => visitIndexable(w, v, target)
        BY <1>1, OwnTree DEF Dir
      <4> QED BY <4>1, <3>1, <3>3, <1>1 DEF IsStrictPrefix
    <3>5. ASSUME NEW d \in ToSet(again), lost(d) PROVE FALSE
      <4>1. d \in ToSet(configured) /\ IsPrefix(d, root) /\ d # root
        BY <3>5, <1>8 DEF IsStrictPrefix
      <4>2. IsPrefix(root, m)
        BY <2>1 DEF visitIndexable
      <4>3. d \in Path /\ root \in Path /\ m \in Path
        BY <4>1, <3>2, <1>3, <1>6 DEF Dir
      <4>4. IsPrefix(d, m)
        BY <4>1, <4>2, <4>3, PrefixOrder
      <4>5. d = m
        BY <4>1, <4>4, <3>2 DEF NotNested, ToSet
      <4> QED BY <4>1, <4>2, <4>3, <4>5, PrefixOrder
    <3>6. served = again
      BY <3>5, <1>9
    <3> QED BY <3>3, <3>4, <3>6, <1>8
  <2> QED BY <2>2, <2>3
<1> QED BY <1>14, <1>15

-----------------------------------------------------------------------------
(* Imports.                                                                *)

Import == INSTANCE ImportPaths

LEMMA LongestIs ==
    ASSUME NEW S, S # {}, NEW n \in Nat, \A p \in S : Len(p) \in 0 .. n
    PROVE  Import!Longest(S) \in S /\ \A q \in S : Len(q) <= Len(Import!Longest(S))
<1> DEFINE T == {Len(p) : p \in S}
<1>1. T \in SUBSET Nat /\ T # {} /\ \A k \in T : k <= n
  <2>1. \A p \in S : Len(p) \in Nat /\ Len(p) <= n
    OBVIOUS
  <2> QED BY <2>1
<1>2. PICK k \in T : \A m \in T : m <= k
  <2> HIDE DEF T
  <2> QED BY <1>1, MaxIsGreatest
<1>3. \E p \in S : \A q \in S : Len(q) <= Len(p)
  BY <1>2
<1> QED BY <1>3 DEF Import!Longest

\* Every go.mod below or at the workdir names modules by paths.
GoTree(t) == t.workdir \in Path /\ \A root \in DOMAIN t.gomod : DOMAIN t.gomod[root].replace \subseteq Path

\* In every tree, a Go import reaches files of one directory only: the one
\* its path names below the longest replaced module that holds it, or else
\* below the module itself (resolveGoImportPath, ResolveGoImport).  A relative
\* one, ./x or ../x, reaches the file of that path only.
THEOREM GoImportsExact ==
    ASSUME NEW t, GoTree(t), NEW fromDir \in Path, NEW spec \in Path
    PROVE  Import!GoExact(t, fromDir, spec)
<1>0. CASE Import!isRelative(spec)
  <2>1. ASSUME NEW place, NEW f \in Import!expandWithExt(t, Import!File(place, ""), Import!TryList({".go"}, "", {}))
        PROVE  f.stem = place
    <3>1. \A e : Import!File(place, e).stem = place
      BY DEF Import!File
    <3>2. Import!File(place, "").ext = ""
      BY DEF Import!File
    <3>3. f \in {Import!File(place, "")} \cup {Import!File(place, e) : e \in {".go"}}
      BY <3>1, <3>2 DEF Import!expandWithExt, Import!TryList
    <3> QED BY <3>1, <3>3
  <2> DEFINE place == Import!Clean(fromDir \o spec)
  <2>2. Import!resolveGoImportPath(t, fromDir, spec)
          = Import!expandWithExt(t, Import!File(place, ""), Import!TryList({".go"}, "", {}))
    BY <1>0 DEF Import!resolveGoImportPath
  <2>3. \A f \in Import!resolveGoImportPath(t, fromDir, spec) : f.stem = place
    BY <2>1, <2>2
  <2> QED BY <1>0, <2>3 DEF Import!GoExact
<1> SUFFICES ASSUME ~Import!isRelative(spec) PROVE Import!GoExact(t, fromDir, spec)
  BY <1>0
<1>1. SUFFICES ASSUME NEW f \in Import!resolveGoImportPath(t, fromDir, spec)
               PROVE  \E root \in DOMAIN t.gomod :
                        \/ \E old \in DOMAIN t.gomod[root].replace :
                              /\ Import!IsPrefix(old, spec) /\ Import!Dir(f) = t.gomod[root].replace[old] \o Import!Rest(spec, old)
                              /\ \A x \in DOMAIN t.gomod[root].replace : Import!IsPrefix(x, spec) => Len(x) <= Len(old)
                        \/ /\ Import!IsPrefix(t.gomod[root].module, spec)
                           /\ Import!Dir(f) = root \o Import!Rest(spec, t.gomod[root].module)
                           /\ \A x \in DOMAIN t.gomod[root].replace : ~Import!IsPrefix(x, spec)
  BY DEF Import!GoExact, Import!InModule
<1>2. PICK root \in Import!goModule(t, fromDir) :
         \E dir \in Import!ResolveGoImport(t.gomod[root], root, spec) : f \in Import!ListGoPackageFiles(t, dir)
  BY <1>1 DEF Import!resolveGoImportPath
<1>3. PICK dir \in Import!ResolveGoImport(t.gomod[root], root, spec) : f \in Import!ListGoPackageFiles(t, dir)
  BY <1>2
<1>4. Import!Dir(f) = dir
  BY <1>3 DEF Import!ListGoPackageFiles
<1>5. root \in DOMAIN t.gomod
  <2>1. CASE t.workdir \in DOMAIN t.gomod
    BY <1>2, <2>1 DEF Import!goModule
  <2>2. CASE t.workdir \notin DOMAIN t.gomod
    <3> DEFINE above == Import!Climb(fromDir, t.workdir) \cap DOMAIN t.gomod
    <3>1. above # {} /\ root = Import!Longest(above)
      BY <1>2, <2>2 DEF Import!goModule
    <3>2. Len(fromDir) \in Nat
      BY DEF Path
    <3>3. \A p \in above : Len(p) \in 0 .. Len(fromDir)
      <4>1. \A k \in 0 .. Len(fromDir) : Len(SubSeq(fromDir, 1, k)) = k
        BY <3>2 DEF Path
      <4> QED BY <4>1 DEF Import!Climb, Import!Prefixes
    <3> HIDE DEF above
    <3>4. root \in above
      BY <3>1, <3>2, <3>3, LongestIs
    <3> QED BY <3>4 DEF above
  <2> QED BY <2>1, <2>2
<1> DEFINE mod == t.gomod[root]
           replaced == {old \in DOMAIN mod.replace : Import!IsPrefix(old, spec)}
<1>6. CASE replaced # {}
  <2>1. dir = mod.replace[Import!Longest(replaced)] \o Import!Rest(spec, Import!Longest(replaced))
    BY <1>3, <1>6 DEF Import!ResolveGoImport
  <2>2. Len(spec) \in Nat /\ \A p \in replaced : Len(p) \in 0 .. Len(spec)
    <3>1. Len(spec) \in Nat
      BY DEF Path
    <3>2. ASSUME NEW p \in replaced PROVE Len(p) \in Nat /\ Len(p) <= Len(spec)
      <4>1. p \in Path /\ Import!IsPrefix(p, spec)
        BY <1>5 DEF GoTree
      <4> QED BY <4>1 DEF Path, Import!IsPrefix
    <3> QED BY <3>1, <3>2
  <2> HIDE DEF replaced
  <2>3. Import!Longest(replaced) \in replaced /\ \A q \in replaced : Len(q) <= Len(Import!Longest(replaced))
    BY <1>6, <2>2, LongestIs
  <2>4. PICK old \in DOMAIN mod.replace : /\ Import!IsPrefix(old, spec) /\ dir = mod.replace[old] \o Import!Rest(spec, old)
                                          /\ \A q \in DOMAIN mod.replace : Import!IsPrefix(q, spec) => Len(q) <= Len(old)
    BY <2>1, <2>3 DEF replaced
  <2> QED BY <2>4, <1>4, <1>5
<1>7. CASE replaced = {}
  <2>1. Import!IsPrefix(mod.module, spec) /\ dir = root \o Import!Rest(spec, mod.module)
    BY <1>3, <1>7 DEF Import!ResolveGoImport
  <2> QED BY <2>1, <1>4, <1>5, <1>7
<1> QED BY <1>6, <1>7

\* The last name of a path.
LEMMA LastName ==
    ASSUME NEW N, NEW s \in Seq(N)
    PROVE  /\ \A e \in N : Last(Append(s, e)) = e /\ Front(Append(s, e)) = s
           /\ s # <<>> => Front(s) \in Seq(N) /\ s = Append(Front(s), Last(s))
<1>1. ASSUME NEW r \in Seq(N), NEW e \in N PROVE Last(Append(r, e)) = e /\ Front(Append(r, e)) = r
  <2> DEFINE q == Append(r, e)
  <2>1. q \in Seq(N) /\ Len(r) \in Nat /\ Len(q) = Len(r) + 1 /\ q[Len(r) + 1] = e /\ \A i \in 1 .. Len(r) : q[i] = r[i]
    BY AppendProperties
  <2> HIDE DEF q
  <2>2. /\ SubSeq(q, 1, Len(r)) \in Seq(N) /\ Len(SubSeq(q, 1, Len(r))) = Len(r)
        /\ \A i \in 1 .. Len(r) : SubSeq(q, 1, Len(r))[i] = r[i]
    BY <2>1
  <2>3. SubSeq(q, 1, Len(r)) = r
    BY <2>2, SeqEqual
  <2>4. Len(q) - 1 = Len(r)
    BY <2>1
  <2>5. Last(q) = e /\ Front(q) = r
    BY <2>1, <2>3, <2>4 DEF Last, Front
  <2> QED BY <2>5 DEF q
<1>2. s # <<>> => \E r \in Seq(N), e \in N : s = Append(r, e)
  BY SequenceEmptyOrAppend
<1> QED BY <1>1, <1>2

noSuffix == ""
jsInside == "index"
pyInside == "__init__"

\* Every file has a name and a suffix.
NamedFiles(t, N) ==
    \A f \in t.files : f.stem \in Seq(N) \ {<<>>} /\ f.ext # noSuffix /\ f = Import!File(f.stem, f.ext)

\* A name without a suffix reaches the files of that name, and those with the
\* name of a package inside the directory of that name.
LEMMA ExpandExact ==
    ASSUME NEW N, NEW inside \in N, NEW exts, NEW insideExts, NEW t, NamedFiles(t, N),
           NEW base \in Seq(N), base # <<>> => Last(base) # inside
    PROVE  LET reached == Import!expandWithExt(t, Import!File(base, noSuffix), Import!TryList(exts, inside, insideExts))
           IN  /\ reached \subseteq t.files
               /\ \A f \in t.files :
                     f \in reached <=> /\ f.ext \in IF Last(f.stem) = inside THEN insideExts ELSE exts
                                      /\ base = IF Last(f.stem) = inside THEN Front(f.stem) ELSE f.stem
<1> DEFINE reached == Import!expandWithExt(t, Import!File(base, noSuffix), Import!TryList(exts, inside, insideExts))
<1>1. reached
        = t.files \cap ({Import!File(base, noSuffix)}
             \cup {Import!File(base, e) : e \in exts} \cup {Import!File(Append(base, inside), e) : e \in insideExts})
  BY DEF Import!expandWithExt, Import!TryList, Import!File, noSuffix
<1> HIDE DEF reached
<1>2. \A p, e, q, d : Import!File(p, e) = Import!File(q, d) <=> p = q /\ e = d
  BY DEF Import!File
<1>3. ASSUME NEW f \in t.files
      PROVE  f \in reached
               <=> (f.ext \in exts /\ f.stem = base) \/ (f.ext \in insideExts /\ f.stem = Append(base, inside))
  <2> DEFINE deep == Append(base, inside)
  <2>1. PICK p, e : p = f.stem /\ e = f.ext /\ f = Import!File(p, e) /\ e # noSuffix
    BY DEF NamedFiles
  <2>2. reached
          = t.files \cap ({Import!File(base, noSuffix)}
               \cup {Import!File(base, x) : x \in exts} \cup {Import!File(deep, x) : x \in insideExts})
    BY <1>1
  <2> HIDE DEF deep
  <2>3. Import!File(p, e) # Import!File(base, noSuffix)
    BY <2>1, <1>2
  <2>4. Import!File(p, e) \in {Import!File(base, x) : x \in exts} <=> p = base /\ e \in exts
    BY <1>2
  <2>5. Import!File(p, e) \in {Import!File(deep, x) : x \in insideExts} <=> p = deep /\ e \in insideExts
    BY <1>2
  <2>6. f \in reached <=> (e \in exts /\ p = base) \/ (e \in insideExts /\ p = deep)
    BY <2>1, <2>2, <2>3, <2>4, <2>5
  <2> QED BY <2>1, <2>6 DEF deep
<1>4. ASSUME NEW f \in t.files
      PROVE  /\ f.stem = base <=> Last(f.stem) # inside /\ base = f.stem
             /\ f.stem = Append(base, inside) <=> Last(f.stem) = inside /\ base = Front(f.stem)
  <2>1. PICK p \in Seq(N) : p = f.stem /\ p # <<>>
    BY DEF NamedFiles
  <2>2. Last(Append(base, inside)) = inside /\ Front(Append(base, inside)) = base
    BY LastName
  <2>3. p = Append(Front(p), Last(p))
    BY <2>1, LastName
  <2>4. /\ p = base <=> Last(p) # inside /\ base = p
        /\ p = Append(base, inside) <=> Last(p) = inside /\ base = Front(p)
    BY <2>1, <2>2, <2>3
  <2> QED BY <2>1, <2>4
<1>5. reached \subseteq t.files
  BY <1>1
<1>6. ASSUME NEW f \in t.files
      PROVE  f \in reached <=> /\ f.ext \in IF Last(f.stem) = inside THEN insideExts ELSE exts
                             /\ base = IF Last(f.stem) = inside THEN Front(f.stem) ELSE f.stem
  <2>1. f \in reached <=> (f.ext \in exts /\ f.stem = base) \/ (f.ext \in insideExts /\ f.stem = Append(base, inside))
    BY <1>3
  <2>2. CASE Last(f.stem) = inside
    BY <2>1, <2>2, <1>4
  <2>3. CASE Last(f.stem) # inside
    BY <2>1, <2>3, <1>4
  <2> QED BY <2>2, <2>3
<1> QED BY <1>5, <1>6 DEF reached

\* The place a relative import names: names below a directory above.
LEMMA UpThenNames ==
    ASSUME NEW N, NEW dir \in Seq(N), NEW n \in Nat, NEW names \in Seq(N), NEW inside,
           \/ names # <<>> /\ Last(names) # inside
           \/ /\ \A i \in DOMAIN dir : dir[i] # inside
              /\ \A i \in DOMAIN names : names[i] # inside
    PROVE  LET base == Import!UpBy(dir, n) \o names
           IN  base \in Seq(N) /\ (base # <<>> => Last(base) # inside) /\ (names # <<>> => base # <<>>)
<1> DEFINE up == Import!UpBy(dir, n)
           base == up \o names
<1>1. Len(dir) \in Nat /\ DOMAIN dir = 1 .. Len(dir) /\ Len(names) \in Nat /\ DOMAIN names = 1 .. Len(names)
  BY LenProperties
<1>2. up \in Seq(N) /\ Len(up) \in Nat /\ Len(up) <= Len(dir) /\ \A i \in 1 .. Len(up) : up[i] = dir[i]
  <2>1. PICK k \in 0 .. Len(dir) : up = SubSeq(dir, 1, k)
    <3> DEFINE k == IF n > Len(dir) THEN 0 ELSE Len(dir) - n
    <3>1. k \in 0 .. Len(dir) /\ up = SubSeq(dir, 1, k)
      BY <1>1 DEF Import!UpBy
    <3> QED BY <3>1
  <2> HIDE DEF up
  <2> QED BY <1>1, <2>1
<1> HIDE DEF up
<1>3. /\ base \in Seq(N) /\ Len(base) = Len(up) + Len(names)
      /\ \A i \in 1 .. Len(up) + Len(names) : base[i] = IF i <= Len(up) THEN up[i] ELSE names[i - Len(up)]
  BY <1>2, ConcatProperties
<1> HIDE DEF base
<1>4. names # <<>> => Len(names) # 0
  BY EmptySeq
<1>5. base # <<>> => Len(base) # 0
  BY <1>3, EmptySeq
<1>6. names # <<>> => Last(base) = Last(names) /\ Last(names) = names[Len(names)] /\ base # <<>>
  <2>1. SUFFICES ASSUME names # <<>> PROVE Last(base) = Last(names) /\ Len(base) # 0
    BY EmptySeq DEF Last
  <2>2. /\ Len(base) \in 1 .. Len(up) + Len(names) /\ ~(Len(base) <= Len(up))
        /\ Len(base) - Len(up) = Len(names) /\ Len(base) # 0
    BY <2>1, <1>1, <1>2, <1>3, <1>4
  <2> QED BY <2>2, <1>3 DEF Last
<1>7. names = <<>> /\ base # <<>> => Last(base) = dir[Len(up)] /\ Len(up) \in 1 .. Len(dir)
  <2>1. SUFFICES ASSUME names = <<>>, base # <<>> PROVE Last(base) = dir[Len(up)] /\ Len(up) \in 1 .. Len(dir)
    OBVIOUS
  <2>2. Len(names) = 0
    BY <2>1, EmptySeq
  <2>3. Len(base) = Len(up) /\ Len(up) \in 1 .. Len(dir) /\ Len(up) \in 1 .. Len(up)
    BY <2>1, <2>2, <1>1, <1>2, <1>3, <1>5
  <2>4. base[Len(up)] = up[Len(up)]
    BY <2>2, <2>3, <1>1, <1>2, <1>3
  <2> QED BY <2>3, <2>4, <1>2 DEF Last
<1>8. names # <<>> => Len(names) \in DOMAIN names
  BY <1>1, <1>4
<1> QED BY <1>1, <1>3, <1>6, <1>7, <1>8 DEF base, up

\* In every tree whose files have a name and a suffix, a relative import of a
\* script reaches the modules of that name, and the index of the directory of
\* that name, with the suffixes of jsExts, and nothing else (resolveJSRelative,
\* expandWithExt).
THEOREM RelativeImportsExact ==
    ASSUME NEW N, jsInside \in N, NEW t, NamedFiles(t, N),
           NEW fromDir \in Seq(N), NEW ups \in Nat, NEW names \in Seq(N) \ {<<>>}, Last(names) # jsInside
    PROVE  Import!RelativeExact(t, fromDir, ups, names)
<1> DEFINE inside == jsInside
           exts == Import!moduleExts
           insideExts == Import!indexExts
           base == Import!UpBy(fromDir, ups) \o names
           file == Import!File(base, noSuffix)
<1>1. inside \in N /\ Last(names) # inside
  OBVIOUS
<1> HIDE DEF inside, exts, insideExts
<1>2. base \in Seq(N) /\ (base # <<>> => Last(base) # inside)
  BY <1>1, UpThenNames
<1> HIDE DEF base
<1> HIDE DEF file
<1> DEFINE reached == Import!expandWithExt(t, file, Import!TryList(exts, inside, insideExts))
<1>3. /\ reached \subseteq t.files
      /\ \A f \in t.files :
            f \in reached <=> /\ f.ext \in IF Last(f.stem) = inside THEN insideExts ELSE exts
                             /\ base = IF Last(f.stem) = inside THEN Front(f.stem) ELSE f.stem
  BY <1>1, <1>2, ExpandExact DEF file
<1>4. \A p : Import!Last(p) = Last(p) /\ Import!Front(p) = Front(p)
  BY DEF Last, Front, Import!Last, Import!Front
<1>5. Import!resolveJSRelative(t, fromDir, ups, names, "") = reached
  BY DEF file, base, exts, inside, insideExts, noSuffix, jsInside, Import!resolveJSRelative, Import!jsExts
<1> HIDE DEF reached
<1>6. reached = {f \in t.files : /\ f.ext \in (IF Last(f.stem) = inside THEN insideExts ELSE exts)
                                /\ base = (IF Last(f.stem) = inside THEN Front(f.stem) ELSE f.stem)}
  BY <1>3
<1>7. reached = {f \in t.files : /\ f.ext \in (IF Import!Last(f.stem) = inside THEN insideExts ELSE exts)
                                /\ base = (IF Import!Last(f.stem) = inside THEN Import!Front(f.stem) ELSE f.stem)}
  BY <1>4, <1>6
<1> QED BY <1>5, <1>7 DEF base, exts, inside, insideExts, jsInside, Import!RelativeExact

\* In every tree whose files have a name and a suffix, a relative import of
\* Python reaches the modules of that name in the package its dots name, and
\* nothing else (resolvePythonImportPath).
THEOREM PythonImportsExact ==
    ASSUME NEW N, pyInside \in N, NEW t, NamedFiles(t, N),
           NEW fromDir \in Seq(N), NEW dots \in Nat \ {0}, NEW names \in Seq(N),
           \A i \in DOMAIN fromDir : fromDir[i] # pyInside, \A i \in DOMAIN names : names[i] # pyInside
    PROVE  Import!PythonExact(t, fromDir, dots, names)
<1> DEFINE inside == pyInside
           exts == {".py"}
           insideExts == {".py"}
           up == dots - 1
           base == Import!UpBy(fromDir, up) \o names
           file == Import!File(base, noSuffix)
<1>1. inside \in N /\ (\A i \in DOMAIN fromDir : fromDir[i] # inside) /\ (\A i \in DOMAIN names : names[i] # inside)
  OBVIOUS
<1>2. up \in Nat /\ dots > 0
  OBVIOUS
<1> HIDE DEF inside, exts, insideExts, up
<1>3. base \in Seq(N) /\ (base # <<>> => Last(base) # inside)
  BY <1>1, <1>2, UpThenNames
<1> HIDE DEF base
<1> HIDE DEF file
<1> DEFINE reached == Import!expandWithExt(t, file, Import!TryList(exts, inside, insideExts))
<1>4. /\ reached \subseteq t.files
      /\ \A f \in t.files :
            f \in reached <=> /\ f.ext \in IF Last(f.stem) = inside THEN insideExts ELSE exts
                             /\ base = IF Last(f.stem) = inside THEN Front(f.stem) ELSE f.stem
  BY <1>1, <1>3, ExpandExact DEF file
<1>5. \A p : Import!Last(p) = Last(p) /\ Import!Front(p) = Front(p)
  BY DEF Last, Front, Import!Last, Import!Front
<1>6. Import!resolvePythonImportPath(t, fromDir, dots, names) = reached
  BY <1>2 DEF file, base, up, exts, inside, insideExts, noSuffix, pyInside, Import!pyExts, Import!resolvePythonImportPath
<1> HIDE DEF reached
<1>7. reached = {f \in t.files : /\ f.ext \in exts
                                /\ (IF Import!Last(f.stem) = inside THEN Import!Front(f.stem) ELSE f.stem) = base}
  <2>1. exts = insideExts
    BY DEF exts, insideExts
  <2> QED BY <2>1, <1>4, <1>5
<1> QED BY <1>6, <1>7 DEF base, up, exts, inside, pyInside, Import!PythonExact, Import!PythonModule

-----------------------------------------------------------------------------
(* The properties that the runs check, for every input.                    *)

\* The indexer, ripgrep and the git assist see the same directories below
\* every root (BuiltinSkipGlobs, GitDirtySourceFiles).
THEOREM OneVisibilityHolds == InputOK => OneVisibility
  BY SameVisibilityEverywhere DEF InputOK, OneVisibility

\* Every session is served by a daemon one of whose roots walks the directory
\* it starts in (NarrowExcludedWorkdirs, resolveSessionRoot).
THEOREM SessionSeesItsTreeHolds == InputOK => SessionSeesItsTree
  BY EverySessionSees DEF InputOK, SessionSeesItsTree

\* The project that a path selects is taken off it exactly once
\* (adoptDetectedProject).
THEOREM SelectorKeptHolds == InputOK => SelectorKept
  BY SelectorKeepsEveryPlace DEF InputOK, SelectorKept

\* A set of natural numbers that holds 0 and every successor holds all.
LEMMA Induct ==
    ASSUME NEW T, 0 \in T, \A n \in Nat : n \in T => n + 1 \in T
    PROVE  Nat \subseteq T
<1> SUFFICES ASSUME ~(Nat \subseteq T) PROVE FALSE
  OBVIOUS
<1> DEFINE S == Nat \ T
<1>0. S \in SUBSET Nat /\ S # {}
  OBVIOUS
<1>1. PICK x \in S : \A y \in S : ~(<<y, x>> \in OpToRel(<, Nat))
  <2> DEFINE R == OpToRel(<, Nat)
  <2>1. IsWellFoundedOn(R, Nat)
    BY NatLessThanWellFounded
  <2> HIDE DEF R, S
  <2>2. \E x \in S : \A y \in S : ~(<<y, x>> \in R)
    BY <2>1, <1>0, WFMin
  <2> QED BY <2>2 DEF R
<1>2. \A y \in S : ~(y < x)
  BY <1>1 DEF OpToRel
<1>3. x \in Nat /\ x \notin T /\ x # 0 /\ x - 1 \in Nat
  OBVIOUS
<1>4. x - 1 \in T
  BY <1>2, <1>3
<1> QED BY <1>3, <1>4

\* The states f that a loop goes through from its first one.
Loops(f, first, step)     == f[0] = first /\ \A i \in Nat : i # 0 => f[i] = step[i][f[i - 1]]
LoopsTo(f, n, first, step) == f[0] = first /\ \A i \in 1 .. n : f[i] = step[i][f[i - 1]]

LEMMA Recursion ==
    ASSUME NEW S, NEW x0 \in S, NEW step \in [Nat -> [S -> S]]
    PROVE  \E f \in [Nat -> S] : Loops(f, x0, step)
<1> DEFINE Up(n, g) == /\ g \in [0 .. n -> S] /\ g[0] = x0
                       /\ \A i \in 0 .. n : i # 0 => g[i] = step[i][g[i - 1]]
           T == {n \in Nat : \E g : Up(n, g)}
           Same(n, g, h) == \A i \in 0 .. n : g[i] = h[i]
<1>1. 0 \in T
  <2>1. Up(0, [i \in 0 .. 0 |-> x0])
    OBVIOUS
  <2> QED BY <2>1
<1>2. ASSUME NEW n \in Nat, n \in T PROVE n + 1 \in T
  <2>1. PICK g : Up(n, g)
    BY <1>2
  <2> DEFINE h == [i \in 0 .. n + 1 |-> IF i = n + 1 THEN step[n + 1][g[n]] ELSE g[i]]
  <2>2. g[n] \in S /\ step[n + 1][g[n]] \in S
    BY <2>1
  <2>3. h \in [0 .. n + 1 -> S]
    BY <2>1, <2>2
  <2>4. h[0] = x0
    BY <2>1
  <2>5. ASSUME NEW i \in 0 .. n + 1, i # 0 PROVE h[i] = step[i][h[i - 1]]
    BY <2>1, <2>5
  <2>6. Up(n + 1, h)
    <3> HIDE DEF h
    <3> QED BY <2>3, <2>4, <2>5
  <2> HIDE DEF Up, h
  <2> QED BY <2>6
<1>3. Nat \subseteq T
  <2> HIDE DEF T
  <2> QED BY <1>1, <1>2, Induct
<1>4. \A n \in Nat : \E g : Up(n, g)
  BY <1>3
<1> DEFINE G == [n \in Nat |-> CHOOSE g : Up(n, g)]
           f == [n \in Nat |-> G[n][n]]
<1>5. \A n \in Nat : Up(n, G[n])
  BY <1>4
<1>6. ASSUME NEW m \in Nat, NEW n \in Nat, m <= n, NEW g, NEW h, Up(m, g), Up(n, h) PROVE g[m] = h[m]
  <2> DEFINE E == {i \in Nat : i <= m => g[i] = h[i]}
  <2>1. 0 \in E
    BY <1>6
  <2>2. ASSUME NEW i \in Nat, i \in E PROVE i + 1 \in E
    <3> SUFFICES ASSUME i + 1 <= m PROVE g[i + 1] = h[i + 1]
      OBVIOUS
    <3>1. g[i] = h[i]
      BY <2>2
    <3>2. i + 1 \in 0 .. m /\ i + 1 \in 0 .. n /\ i + 1 # 0 /\ (i + 1) - 1 = i
      BY <1>6
    <3> QED BY <3>1, <3>2, <1>6
  <2>3. Nat \subseteq E
    <3> HIDE DEF E
    <3> QED BY <2>1, <2>2, Induct
  <2> QED BY <2>3
<1>7. \A n \in Nat : f[n] \in S
  <2> HIDE DEF G
  <2> QED BY <1>5
<1>8. f[0] = x0
  <2> HIDE DEF G
  <2> QED BY <1>5
<1>9. ASSUME NEW n \in Nat, n # 0 PROVE f[n] = step[n][f[n - 1]]
  <2> HIDE DEF G
  <2>1. n - 1 \in Nat /\ n - 1 <= n /\ n - 1 \in 0 .. n /\ n \in 0 .. n
    BY <1>9
  <2>2. Up(n, G[n]) /\ Up(n - 1, G[n - 1])
    BY <1>5, <2>1
  <2>3. G[n - 1][n - 1] = G[n][n - 1]
    <3> HIDE DEF Up
    <3> QED BY <2>1, <2>2, <1>6
  <2>4. G[n][n] = step[n][G[n][n - 1]]
    BY <2>1, <2>2, <1>9
  <2> QED BY <2>1, <2>3, <2>4
<1>10. f \in [Nat -> S]
  <2> HIDE DEF G
  <2> QED BY <1>7
<1> HIDE DEF f
<1> QED BY <1>8, <1>9, <1>10 DEF Loops

\* The same for a loop that ends.
LEMMA FiniteRecursion ==
    ASSUME NEW S, NEW x0 \in S, NEW N \in Nat, NEW step \in [1 .. N -> [S -> S]]
    PROVE  \E f \in [0 .. N -> S] : LoopsTo(f, N, x0, step)
<1> DEFINE all == [i \in Nat |-> IF i \in 1 .. N THEN step[i] ELSE [x \in S |-> x]]
<1>1. all \in [Nat -> [S -> S]]
  <2>1. [x \in S |-> x] \in [S -> S]
    OBVIOUS
  <2>2. \A i \in Nat : (IF i \in 1 .. N THEN step[i] ELSE [x \in S |-> x]) \in [S -> S]
    BY <2>1
  <2> QED BY <2>2
<1>2. \A i \in 1 .. N : all[i] = step[i]
  OBVIOUS
<1> HIDE DEF all
<1>3. PICK f \in [Nat -> S] : Loops(f, x0, all)
  BY <1>1, Recursion
<1> DEFINE g == [i \in 0 .. N |-> f[i]]
<1>4. g \in [0 .. N -> S] /\ g[0] = x0
  BY <1>3 DEF Loops
<1>5. ASSUME NEW i \in 1 .. N PROVE g[i] = step[i][g[i - 1]]
  <2>1. i # 0 /\ i \in 0 .. N /\ i - 1 \in 0 .. N
    OBVIOUS
  <2> QED BY <2>1, <1>2, <1>3 DEF Loops
<1> HIDE DEF g
<1> QED BY <1>4, <1>5 DEF LoopsTo

Precedes(S, R) == /\ \A x \in S : <<x, x>> \notin R
                  /\ \A x, y, z \in S : <<x, y>> \in R /\ <<y, z>> \in R => <<x, z>> \in R

\* A finite set has an element that nothing precedes.
LEMMA SomeFirst ==
    ASSUME NEW S, NEW R, Precedes(S, R)
    PROVE  \A X \in SUBSET S : IsFiniteSet(X) /\ X # {} => \E x \in X : \A y \in X : <<y, x>> \notin R
<1> DEFINE First(X) == \E x \in X : \A y \in X : <<y, x>> \notin R
           T == {n \in Nat : \A X \in SUBSET S : IsFiniteSet(X) /\ Cardinality(X) = n /\ X # {} => First(X)}
<1>1. 0 \in T
  BY FS_EmptySet
<1>2. ASSUME NEW n \in Nat, n \in T PROVE n + 1 \in T
  <2> SUFFICES ASSUME NEW X \in SUBSET S, IsFiniteSet(X), Cardinality(X) = n + 1 PROVE First(X)
    OBVIOUS
  <2>1. PICK x \in X : TRUE
    BY FS_EmptySet
  <2> DEFINE Y == X \ {x}
  <2>2. IsFiniteSet(Y) /\ Cardinality(Y) = n
    <3>1. IsFiniteSet(Y) /\ Cardinality(Y) = Cardinality(X) - 1
      BY FS_RemoveElement
    <3> QED BY <3>1
  <2>3. CASE Y = {}
    BY <2>3 DEF Precedes
  <2>4. CASE Y # {}
    <3>1. PICK m \in Y : \A y \in Y : <<y, m>> \notin R
      BY <1>2, <2>2, <2>4
    <3>2. CASE <<x, m>> \in R
      <4>1. \A y \in X : <<y, x>> \notin R
        BY <3>1, <3>2 DEF Precedes
      <4> QED BY <4>1
    <3>3. CASE <<x, m>> \notin R
      BY <3>1, <3>3
    <3> QED BY <3>2, <3>3
  <2> QED BY <2>3, <2>4
<1>3. Nat \subseteq T
  <2> HIDE DEF T
  <2> QED BY <1>1, <1>2, Induct
<1> QED BY <1>3, FS_CardinalityType

\* A finite set can be put in an order.
LEMMA Orderable ==
    ASSUME NEW S, NEW R, Precedes(S, R)
    PROVE  \A X \in SUBSET S : IsFiniteSet(X) =>
              \E s \in [1 .. Cardinality(X) -> X] :
                 IsInjective(s) /\ \A j \in DOMAIN s : \A i \in 1 .. j - 1 : <<s[j], s[i]>> \notin R
<1> DEFINE Good(s) == IsInjective(s) /\ \A j \in DOMAIN s : \A i \in 1 .. j - 1 : <<s[j], s[i]>> \notin R
           T == {n \in Nat : \A X \in SUBSET S : IsFiniteSet(X) /\ Cardinality(X) = n => \E s \in [1 .. n -> X] : Good(s)}
<1>1. 0 \in T
  <2> SUFFICES ASSUME NEW X \in SUBSET S, IsFiniteSet(X), Cardinality(X) = 0 PROVE \E s \in [1 .. 0 -> X] : Good(s)
    OBVIOUS
  <2>1. Good([i \in 1 .. 0 |-> 0]) /\ [i \in 1 .. 0 |-> 0] \in [1 .. 0 -> X]
    BY DEF IsInjective
  <2> QED BY <2>1
<1>2. ASSUME NEW n \in Nat, n \in T PROVE n + 1 \in T
  <2> SUFFICES ASSUME NEW X \in SUBSET S, IsFiniteSet(X), Cardinality(X) = n + 1
               PROVE  \E s \in [1 .. n + 1 -> X] : Good(s)
    OBVIOUS
  <2>1. PICK x \in X : \A y \in X : <<y, x>> \notin R
    BY SomeFirst, FS_EmptySet
  <2> DEFINE Y == X \ {x}
  <2>2. IsFiniteSet(Y) /\ Cardinality(Y) = n /\ Y \in SUBSET S
    <3>1. IsFiniteSet(Y) /\ Cardinality(Y) = Cardinality(X) - 1
      BY FS_RemoveElement
    <3> QED BY <3>1
  <2>3. PICK t \in [1 .. n -> Y] : Good(t)
    BY <1>2, <2>2
  <2> DEFINE s == [i \in 1 .. n + 1 |-> IF i = 1 THEN x ELSE t[i - 1]]
  <2>4. \A i \in 1 .. n + 1 : i # 1 => i - 1 \in 1 .. n /\ s[i] = t[i - 1] /\ s[i] \in Y
    BY <2>3
  <2>5. s \in [1 .. n + 1 -> X] /\ s[1] = x
    <3> HIDE DEF Y
    <3>1. \A i \in 1 .. n + 1 : (IF i = 1 THEN x ELSE t[i - 1]) \in X
      BY <2>4 DEF Y
    <3> QED BY <3>1
  <2> HIDE DEF s
  <2>6. ASSUME NEW i \in 1 .. n + 1, NEW j \in 1 .. n + 1, s[i] = s[j] PROVE i = j
    <3>1. \A k \in 1 .. n + 1 : k # 1 => s[k] # x
      BY <2>4
    <3>2. CASE i = 1 \/ j = 1
      BY <2>5, <2>6, <3>1, <3>2
    <3>3. CASE i # 1 /\ j # 1
      <4>1. t[i - 1] = t[j - 1] /\ i - 1 \in 1 .. n /\ j - 1 \in 1 .. n
        BY <2>4, <2>6, <3>3
      <4>2. i - 1 = j - 1
        BY <4>1, <2>3 DEF IsInjective
      <4> QED BY <4>2
    <3> QED BY <3>2, <3>3
  <2>7. ASSUME NEW j \in 1 .. n + 1, NEW i \in 1 .. j - 1 PROVE <<s[j], s[i]>> \notin R
    <3>1. j # 1 /\ i \in 1 .. n + 1 /\ s[j] \in Y
      BY <2>4
    <3>2. CASE i = 1
      BY <2>1, <2>5, <3>1, <3>2
    <3>3. CASE i # 1
      <4>1. /\ s[j] = t[j - 1] /\ s[i] = t[i - 1] /\ j - 1 \in 1 .. n /\ i - 1 \in 1 .. (j - 1) - 1
        BY <2>4, <3>1, <3>3
      <4> QED BY <4>1, <2>3
    <3> QED BY <3>2, <3>3
  <2>8. Good(s)
    <3>1. DOMAIN s = 1 .. n + 1
      BY <2>5
    <3> QED BY <3>1, <2>6, <2>7 DEF IsInjective
  <2> QED BY <2>5, <2>8
<1>3. Nat \subseteq T
  <2> HIDE DEF T
  <2> QED BY <1>1, <1>2, Induct
<1>4. ASSUME NEW X \in SUBSET S, IsFiniteSet(X) PROVE \E s \in [1 .. Cardinality(X) -> X] : Good(s)
  <2>1. Cardinality(X) \in Nat
    BY <1>4, FS_CardinalityType
  <2>2. Cardinality(X) \in T
    <3> HIDE DEF T
    <3> QED BY <1>3, <2>1
  <2> QED BY <2>2, <1>4
<1> QED BY <1>4

\* An injective list of as many elements as a set has, all of the set, has
\* each of its elements.
LEMMA AllListed ==
    ASSUME NEW S, IsFiniteSet(S), NEW s \in [1 .. Cardinality(S) -> S], IsInjective(s)
    PROVE  s \in Seq(S) /\ Len(s) = Cardinality(S) /\ DOMAIN s = 1 .. Len(s) /\ ToSet(s) = S
<1>1. Cardinality(S) \in Nat
  BY FS_CardinalityType
<1>2. s \in Seq(S) /\ Len(s) = Cardinality(S) /\ DOMAIN s = 1 .. Len(s)
  BY <1>1
<1>3. Cardinality(1 .. Cardinality(S)) = Cardinality(S)
  BY <1>1, FS_Interval
<1>4. s \in Injection(1 .. Cardinality(S), S)
  BY DEF Injection
<1>5. s \in Surjection(1 .. Cardinality(S), S)
  BY <1>3, <1>4, FS_Injection
<1> QED BY <1>2, <1>5 DEF Surjection, ToSet

LEMMA OrderedLists ==
    ASSUME NEW S, IsFiniteSet(S), NEW R, Precedes(S, R)
    PROVE  LET s == Ordered(S, R)
           IN  s \in Seq(S) /\ Len(s) = Cardinality(S) /\ DOMAIN s = 1 .. Len(s) /\ ToSet(s) = S /\ IsInjective(s)
<1> DEFINE s == Ordered(S, R)
<1>1. s \in [1 .. Cardinality(S) -> S] /\ IsInjective(s)
  BY Orderable DEF Ordered
<1> HIDE DEF s
<1> QED BY <1>1, AllListed DEF s

LEMMA AscendingLists ==
    ASSUME NEW S \in SUBSET Nat, IsFiniteSet(S)
    PROVE  LET s == Ascending(S)
           IN  s \in Seq(S) /\ Len(s) = Cardinality(S) /\ DOMAIN s = 1 .. Len(s) /\ ToSet(s) = S /\ IsInjective(s)
<1> DEFINE R == {p \in S \X S : p[1] < p[2]}
<1>1. Precedes(S, R)
  BY DEF Precedes
<1> HIDE DEF R
<1> QED BY <1>1, OrderedLists DEF Ascending, R

LEMMA SomeList ==
    ASSUME NEW S, IsFiniteSet(S)
    PROVE  SetToSeq(S) \in Seq(S) /\ DOMAIN SetToSeq(S) = 1 .. Len(SetToSeq(S)) /\ ToSet(SetToSeq(S)) = S
<1> DEFINE s == SetToSeq(S)
<1>1. s \in [1 .. Cardinality(S) -> S] /\ IsInjective(s)
  BY FS_CardinalityType DEF SetToSeq, ExistsBijection, Bijection, Injection
<1> HIDE DEF s
<1> QED BY <1>1, AllListed DEF s

-----------------------------------------------------------------------------
(* The loops of the graph tools, round by round.                           *)

LEMMA WithinRounds ==
    ASSUME NEW g, NEW S
    PROVE  /\ Within(g, S, 0) = S
           /\ \A n \in Nat : Within(g, S, n + 1) = Within(g, S, n) \cup {e.src : e \in Into(g, Within(g, S, n))}
<1> DEFINE R == CHOOSE R : R = [k \in Nat |-> IF k = 0 THEN S ELSE R[k - 1] \cup {e.src : e \in Into(g, R[k - 1])}]
           Node  == S \cup {e.src : e \in g.edges}
           Nodes == SUBSET Node
           step == [k \in Nat |-> [X \in Nodes |-> X \cup {e.src : e \in Into(g, X)}]]
<1>1. step \in [Nat -> [Nodes -> Nodes]] /\ S \in Nodes
  <2>1. \A X \in Nodes : X \cup {e.src : e \in Into(g, X)} \in Nodes
    BY DEF Into
  <2> HIDE DEF Nodes
  <2>2. [X \in Nodes |-> X \cup {e.src : e \in Into(g, X)}] \in [Nodes -> Nodes]
    BY <2>1
  <2>3. S \in Nodes
    BY DEF Nodes
  <2> QED BY <2>2, <2>3
<1>2. \A k \in Nat : \A X \in Nodes : step[k][X] = X \cup {e.src : e \in Into(g, X)}
  OBVIOUS
<1> HIDE DEF Nodes, step
<1>3. PICK f \in [Nat -> Nodes] : Loops(f, S, step)
  BY <1>1, Recursion
<1>4. f = [k \in Nat |-> IF k = 0 THEN S ELSE f[k - 1] \cup {e.src : e \in Into(g, f[k - 1])}]
  <2>1. f[0] = S
    BY <1>3 DEF Loops
  <2>2. ASSUME NEW k \in Nat, k # 0 PROVE f[k] = f[k - 1] \cup {e.src : e \in Into(g, f[k - 1])}
    <3>1. k - 1 \in Nat /\ f[k - 1] \in Nodes /\ f[k] = step[k][f[k - 1]]
      BY <2>2, <1>3 DEF Loops
    <3> QED BY <3>1, <1>2
  <2> QED BY <2>1, <2>2
<1>5. R = [k \in Nat |-> IF k = 0 THEN S ELSE R[k - 1] \cup {e.src : e \in Into(g, R[k - 1])}]
  BY <1>4, Zenon
<1>6. \A n : Within(g, S, n) = R[n]
  BY DEF Within
<1> HIDE DEF R
<1>7. R[0] = S /\ \A n \in Nat : R[n + 1] = R[n] \cup {e.src : e \in Into(g, R[n])}
  <2>1. R[0] = S
    BY <1>5
  <2>2. ASSUME NEW n \in Nat PROVE R[n + 1] = R[n] \cup {e.src : e \in Into(g, R[n])}
    <3>1. n + 1 \in Nat /\ n + 1 # 0 /\ (n + 1) - 1 = n
      OBVIOUS
    <3>2. R[n + 1] = R[(n + 1) - 1] \cup {e.src : e \in Into(g, R[(n + 1) - 1])}
      BY <3>1, <1>5
    <3> QED BY <3>1, <3>2
  <2> QED BY <2>1, <2>2
<1> QED BY <1>6, <1>7

Got(Row) == [hits : Seq(Row), more : BOOLEAN]

LEMMA TakeType ==
    ASSUME NEW Row, NEW got \in Got(Row), NEW row \in Row, NEW max
    PROVE  Take(got, row, max) \in Got(Row)
<1>1. Append(got.hits, row) \in Seq(Row) /\ got.more \in BOOLEAN /\ got.hits \in Seq(Row)
  BY DEF Got
<1> QED BY <1>1 DEF Take, Got

LEMMA CollectRounds ==
    ASSUME NEW Row, NEW before \in Got(Row), NEW rows \in Seq(Row), NEW max
    PROVE  \E f :
              /\ f[0] = before /\ \A i \in 1 .. Len(rows) : f[i] = Take(f[i - 1], rows[i], max)
              /\ Collect(before, rows, max) = f[Len(rows)]
<1> DEFINE n == Len(rows)
           States == Got(Row)
           R == CHOOSE R : R = [i \in 0 .. n |-> IF i = 0 THEN before ELSE Take(R[i - 1], rows[i], max)]
           step == [i \in 1 .. n |-> [x \in States |-> Take(x, rows[i], max)]]
<1>1. n \in Nat /\ \A i \in 1 .. n : rows[i] \in Row
  OBVIOUS
<1>2. step \in [1 .. n -> [States -> States]] /\ before \in States
  <2>1. \A i \in 1 .. n : \A x \in States : Take(x, rows[i], max) \in States
    BY <1>1, TakeType
  <2> HIDE DEF States
  <2>2. \A i \in 1 .. n : [x \in States |-> Take(x, rows[i], max)] \in [States -> States]
    BY <2>1
  <2>3. before \in States
    BY DEF States
  <2> QED BY <2>2, <2>3
<1>3. \A i \in 1 .. n : \A x \in States : step[i][x] = Take(x, rows[i], max)
  OBVIOUS
<1> HIDE DEF step, n, States
<1>4. PICK f \in [0 .. n -> States] : LoopsTo(f, n, before, step)
  BY <1>1, <1>2, FiniteRecursion
<1>5. ASSUME NEW i \in 1 .. n PROVE f[i] = Take(f[i - 1], rows[i], max)
  <2>1. i - 1 \in 0 .. n
    BY <1>1
  <2>2. f[i - 1] \in States /\ f[i] = step[i][f[i - 1]]
    BY <1>4, <2>1 DEF LoopsTo
  <2> QED BY <2>2, <1>3
<1>6. f = [i \in 0 .. n |-> IF i = 0 THEN before ELSE Take(f[i - 1], rows[i], max)]
  <2>1. f[0] = before
    BY <1>4 DEF LoopsTo
  <2>2. \A i \in 0 .. n : i # 0 => i \in 1 .. n
    BY <1>1
  <2> QED BY <2>1, <2>2, <1>5
<1>7. R = [i \in 0 .. n |-> IF i = 0 THEN before ELSE Take(R[i - 1], rows[i], max)]
  BY <1>6, Zenon
<1>8. Collect(before, rows, max) = R[n]
  BY DEF Collect, n
<1> HIDE DEF R
<1>9. R[0] = before /\ \A i \in 1 .. n : R[i] = Take(R[i - 1], rows[i], max)
  BY <1>1, <1>7
<1> QED BY <1>8, <1>9 DEF n

\* What has been collected (got) of rows with the keys W: each key once, all
\* of them or else as many as the limit lets through.
Keys(hits) == {Key(hits[i]) : i \in DOMAIN hits}
Once(hits) == \A i, j \in DOMAIN hits : Key(hits[i]) = Key(hits[j]) => i = j
Complete(hits, more, W, max) ==
    /\ Once(hits) /\ Len(hits) <= max /\ Keys(hits) \subseteq W
    /\ IF more THEN Len(hits) = max /\ Keys(hits) # W ELSE Keys(hits) = W
Accounts(Row, got, W, max) == got \in Got(Row) /\ Complete(got.hits, got.more, W, max)

LEMMA TakeAccounts ==
    ASSUME NEW Row, NEW got, NEW W, NEW max \in Nat, Accounts(Row, got, W, max), NEW row \in Row
    PROVE  Accounts(Row, Take(got, row, max), W \cup {Key(row)}, max)
<1> DEFINE hits == got.hits
           keys == Keys(hits)
           after == Take(got, row, max)
<1>1. /\ got \in Got(Row) /\ hits \in Seq(Row) /\ got.more \in BOOLEAN
      /\ DOMAIN hits = 1 .. Len(hits) /\ Len(hits) \in Nat
      /\ Once(hits)
      /\ Len(hits) <= max /\ keys \subseteq W
      /\ IF got.more THEN Len(hits) = max /\ keys # W ELSE keys = W
  BY DEF Accounts, Got, Complete
<1> HIDE DEF hits, keys
<1>2. CASE got.more
  <2>1. after = got
    BY <1>2 DEF Take
  <2>2. keys # W \cup {Key(row)} /\ keys \subseteq W \cup {Key(row)}
    BY <1>1, <1>2
  <2> QED BY <1>1, <1>2, <2>1, <2>2 DEF Accounts, Complete, keys, hits
<1>3. CASE ~got.more /\ Key(row) \in keys
  <2>1. after = got
    BY <1>3 DEF Take, keys, hits, Keys
  <2>2. W \cup {Key(row)} = W
    BY <1>1, <1>3
  <2> QED BY <2>1, <2>2 DEF Accounts
<1>4. CASE ~got.more /\ Key(row) \notin keys /\ Len(hits) = max
  <2>1. after = [got EXCEPT !.more = TRUE]
    BY <1>4 DEF Take, keys, hits, Keys
  <2>2. after \in Got(Row) /\ after.hits = hits /\ after.more
    BY <1>1, <2>1 DEF Got, hits
  <2>3. keys # W \cup {Key(row)} /\ keys \subseteq W \cup {Key(row)}
    BY <1>1, <1>4
  <2> HIDE DEF after
  <2>4. Complete(after.hits, after.more, W \cup {Key(row)}, max)
    BY <1>1, <1>4, <2>2, <2>3 DEF Complete, keys
  <2> QED BY <2>2, <2>4 DEF Accounts, after
<1>5. CASE ~got.more /\ Key(row) \notin keys /\ Len(hits) # max
  <2> DEFINE more == Append(hits, row)
             n == Len(hits)
  <2>0. hits \in Seq(Row) /\ DOMAIN hits = 1 .. n /\ n \in Nat /\ n < max
    <3>1. n <= max /\ n # max /\ n \in Nat
      BY <1>1, <1>5
    <3>2. hits \in Seq(Row) /\ DOMAIN hits = 1 .. n
      BY <1>1
    <3> HIDE DEF n, more
    <3>3. n < max
      BY <3>1
    <3> QED BY <3>1, <3>2, <3>3
  <2>1. after = [got EXCEPT !.hits = more]
    BY <1>5 DEF Take, keys, hits, Keys
  <2>2. more \in Seq(Row) /\ Len(more) = n + 1 /\ DOMAIN more = 1 .. n + 1
    BY <2>0
  <2>3. more[n + 1] = row /\ \A i \in 1 .. n : more[i] = hits[i]
    BY <2>0
  <2> HIDE DEF more, n
  <2>4. after \in Got(Row) /\ after.hits = more /\ ~after.more
    BY <1>1, <1>5, <2>1, <2>2 DEF Got, hits
  <2>5. \A i \in DOMAIN more : i \in DOMAIN hits \/ i = n + 1
    BY <2>0, <2>2
  <2>6. Keys(more) = keys \cup {Key(row)}
    <3>1. \A i \in DOMAIN hits : i \in DOMAIN more /\ more[i] = hits[i]
      BY <2>0, <2>2, <2>3
    <3>2. n + 1 \in DOMAIN more
      BY <2>0, <2>2
    <3> QED BY <2>3, <2>5, <3>1, <3>2 DEF Keys, keys
  <2>7. ASSUME NEW i \in DOMAIN more, NEW j \in DOMAIN more, Key(more[i]) = Key(more[j]) PROVE i = j
    <3>1. \A k \in DOMAIN hits : more[k] = hits[k] /\ Key(hits[k]) # Key(row)
      BY <2>0, <1>5, <2>3 DEF keys, Keys
    <3> QED BY <2>3, <2>5, <2>7, <3>1, <1>1 DEF Once
  <2>8. Len(more) <= max
    BY <2>0, <2>2
  <2>9. keys \cup {Key(row)} = W \cup {Key(row)}
    BY <1>1, <1>5
  <2> HIDE DEF after
  <2>10. Complete(after.hits, after.more, W \cup {Key(row)}, max)
    BY <2>4, <2>6, <2>7, <2>8, <2>9 DEF Complete, Once
  <2> QED BY <2>4, <2>10 DEF Accounts, after
<1> QED BY <1>1, <1>2, <1>3, <1>4, <1>5

LEMMA CollectAccounts ==
    ASSUME NEW Row, NEW before, NEW W, NEW max \in Nat, Accounts(Row, before, W, max), NEW rows \in Seq(Row)
    PROVE  Accounts(Row, Collect(before, rows, max), W \cup Keys(rows), max)
<1> DEFINE n == Len(rows)
           Seen(k) == W \cup {Key(rows[i]) : i \in 1 .. k}
<1>1. n \in Nat /\ DOMAIN rows = 1 .. n /\ \A i \in 1 .. n : rows[i] \in Row
  OBVIOUS
<1>2. PICK f : /\ f[0] = before /\ \A i \in 1 .. n : f[i] = Take(f[i - 1], rows[i], max)
               /\ Collect(before, rows, max) = f[n]
  <2>1. before \in Got(Row)
    BY DEF Accounts
  <2> QED BY <2>1, CollectRounds
<1> HIDE DEF n
<1> DEFINE T == {k \in Nat : k <= n => Accounts(Row, f[k], Seen(k), max)}
<1>3. 0 \in T
  <2>1. Seen(0) = W
    OBVIOUS
  <2> QED BY <1>2, <2>1
<1>4. ASSUME NEW k \in Nat, k \in T PROVE k + 1 \in T
  <2> SUFFICES ASSUME k + 1 <= n PROVE Accounts(Row, f[k + 1], Seen(k + 1), max)
    OBVIOUS
  <2>1. k + 1 \in 1 .. n /\ (k + 1) - 1 = k /\ k <= n
    BY <1>1
  <2>2. Accounts(Row, f[k], Seen(k), max)
    BY <1>4, <2>1
  <2>3. Seen(k + 1) = Seen(k) \cup {Key(rows[k + 1])}
    <3>1. 1 .. k + 1 = (1 .. k) \cup {k + 1}
      OBVIOUS
    <3> QED BY <3>1
  <2>4. f[k + 1] = Take(f[k], rows[k + 1], max) /\ rows[k + 1] \in Row
    BY <1>1, <1>2, <2>1
  <2> HIDE DEF Seen
  <2> QED BY <2>2, <2>3, <2>4, TakeAccounts
<1>5. n \in T
  <2> HIDE DEF T
  <2> QED BY <1>1, <1>3, <1>4, Induct
<1>6. Seen(n) = W \cup Keys(rows)
  BY <1>1 DEF Keys
<1> HIDE DEF Seen
<1>7. n <= n /\ Accounts(Row, f[n], Seen(n), max)
  BY <1>1, <1>5
<1> QED BY <1>2, <1>6, <1>7

\* Whatever was collected, so is what the rows add.
LEMMA CollectType ==
    ASSUME NEW Row, NEW before \in Got(Row), NEW rows \in Seq(Row), NEW max
    PROVE  Collect(before, rows, max) \in Got(Row)
<1> DEFINE n == Len(rows)
<1>1. n \in Nat /\ \A i \in 1 .. n : rows[i] \in Row
  OBVIOUS
<1>2. PICK f : /\ f[0] = before /\ \A i \in 1 .. n : f[i] = Take(f[i - 1], rows[i], max)
               /\ Collect(before, rows, max) = f[n]
  BY CollectRounds
<1> HIDE DEF n
<1> DEFINE T == {k \in Nat : k <= n => f[k] \in Got(Row)}
<1>3. 0 \in T
  BY <1>2
<1>4. ASSUME NEW k \in Nat, k \in T PROVE k + 1 \in T
  <2> SUFFICES ASSUME k + 1 <= n PROVE f[k + 1] \in Got(Row)
    OBVIOUS
  <2>1. k + 1 \in 1 .. n /\ (k + 1) - 1 = k /\ k <= n
    BY <1>1
  <2>2. f[k + 1] = Take(f[k], rows[k + 1], max) /\ rows[k + 1] \in Row /\ f[k] \in Got(Row)
    BY <1>1, <1>2, <1>4, <2>1
  <2> QED BY <2>2, TakeType
<1>5. n \in T
  <2> HIDE DEF T
  <2> QED BY <1>1, <1>3, <1>4, Induct
<1> QED BY <1>2, <1>5, <1>1

LEMMA CollectAllRounds ==
    ASSUME NEW Row, NEW lists \in Seq(Seq(Row)), NEW max
    PROVE  \E f :
              /\ f[0] = [hits |-> <<>>, more |-> FALSE]
              /\ \A i \in 1 .. Len(lists) : f[i] = Collect(f[i - 1], lists[i], max)
              /\ CollectAll(lists, max) = f[Len(lists)]
<1> DEFINE n == Len(lists)
           States == Got(Row)
           none == [hits |-> <<>>, more |-> FALSE]
           R == CHOOSE R : R = [i \in 0 .. n |-> IF i = 0 THEN none ELSE Collect(R[i - 1], lists[i], max)]
           step == [i \in 1 .. n |-> [x \in States |-> Collect(x, lists[i], max)]]
<1>1. n \in Nat /\ \A i \in 1 .. n : lists[i] \in Seq(Row)
  OBVIOUS
<1>2. step \in [1 .. n -> [States -> States]] /\ none \in States
  <2>1. \A i \in 1 .. n : \A x \in States : Collect(x, lists[i], max) \in States
    BY <1>1, CollectType
  <2>2. none \in States
    BY DEF Got
  <2> HIDE DEF States, none
  <2>3. \A i \in 1 .. n : [x \in States |-> Collect(x, lists[i], max)] \in [States -> States]
    BY <2>1
  <2> QED BY <2>2, <2>3
<1>3. \A i \in 1 .. n : \A x \in States : step[i][x] = Collect(x, lists[i], max)
  OBVIOUS
<1> HIDE DEF step, n, States, none
<1>4. PICK f \in [0 .. n -> States] : LoopsTo(f, n, none, step)
  BY <1>1, <1>2, FiniteRecursion
<1>5. ASSUME NEW i \in 1 .. n PROVE f[i] = Collect(f[i - 1], lists[i], max)
  <2>1. i - 1 \in 0 .. n
    BY <1>1
  <2>2. f[i - 1] \in States /\ f[i] = step[i][f[i - 1]]
    BY <1>4, <2>1 DEF LoopsTo
  <2> QED BY <2>2, <1>3
<1>6. f = [i \in 0 .. n |-> IF i = 0 THEN none ELSE Collect(f[i - 1], lists[i], max)]
  <2>1. f[0] = none
    BY <1>4 DEF LoopsTo
  <2>2. \A i \in 0 .. n : i # 0 => i \in 1 .. n
    BY <1>1
  <2> QED BY <2>1, <2>2, <1>5
<1>7. R = [i \in 0 .. n |-> IF i = 0 THEN none ELSE Collect(R[i - 1], lists[i], max)]
  BY <1>6, Zenon
<1>8. CollectAll(lists, max) = R[n]
  BY DEF CollectAll, n, none
<1> HIDE DEF R
<1>9. R[0] = none /\ \A i \in 1 .. n : R[i] = Collect(R[i - 1], lists[i], max)
  BY <1>1, <1>7
<1> QED BY <1>8, <1>9 DEF n, none

LEMMA CollectAllAccounts ==
    ASSUME NEW Row, NEW lists \in Seq(Seq(Row)), NEW max \in Nat
    PROVE  Accounts(Row, CollectAll(lists, max), UNION {Keys(lists[i]) : i \in DOMAIN lists}, max)
<1> DEFINE n == Len(lists)
           Seen(k) == UNION {Keys(lists[i]) : i \in 1 .. k}
           none == [hits |-> <<>>, more |-> FALSE]
<1>1. n \in Nat /\ DOMAIN lists = 1 .. n /\ \A i \in 1 .. n : lists[i] \in Seq(Row)
  OBVIOUS
<1>2. PICK f : /\ f[0] = none /\ \A i \in 1 .. n : f[i] = Collect(f[i - 1], lists[i], max)
               /\ CollectAll(lists, max) = f[n]
  BY CollectAllRounds
<1>0. Accounts(Row, none, {}, max)
  <2>1. <<>> \in Seq(Row) /\ Len(<<>>) = 0 /\ DOMAIN <<>> = {}
    OBVIOUS
  <2> QED BY <2>1 DEF Accounts, Got, Complete, Once, Keys
<1> HIDE DEF n, none
<1> DEFINE T == {k \in Nat : k <= n => Accounts(Row, f[k], Seen(k), max)}
<1>3. 0 \in T
  <2>1. Seen(0) = {}
    OBVIOUS
  <2> QED BY <1>0, <1>2, <2>1
<1>4. ASSUME NEW k \in Nat, k \in T PROVE k + 1 \in T
  <2> SUFFICES ASSUME k + 1 <= n PROVE Accounts(Row, f[k + 1], Seen(k + 1), max)
    OBVIOUS
  <2>1. k + 1 \in 1 .. n /\ (k + 1) - 1 = k /\ k <= n
    BY <1>1
  <2>2. Accounts(Row, f[k], Seen(k), max)
    BY <1>4, <2>1
  <2>3. Seen(k + 1) = Seen(k) \cup Keys(lists[k + 1])
    <3>1. 1 .. k + 1 = (1 .. k) \cup {k + 1}
      OBVIOUS
    <3> QED BY <3>1
  <2>4. f[k + 1] = Collect(f[k], lists[k + 1], max) /\ lists[k + 1] \in Seq(Row)
    BY <1>1, <1>2, <2>1
  <2> HIDE DEF Seen
  <2> QED BY <2>2, <2>3, <2>4, CollectAccounts
<1>5. n \in T
  <2> HIDE DEF T
  <2> QED BY <1>1, <1>3, <1>4, Induct
<1>6. Seen(n) = UNION {Keys(lists[i]) : i \in DOMAIN lists}
  BY <1>1
<1> HIDE DEF Seen
<1>7. n <= n /\ Accounts(Row, f[n], Seen(n), max)
  BY <1>1, <1>5
<1> QED BY <1>2, <1>6, <1>7

\* A list has as many keys as hits, when it has each once.
LEMMA KeysCounted ==
    ASSUME NEW Row, NEW hits \in Seq(Row)
    PROVE  IsFiniteSet(Keys(hits)) /\ (Once(hits) => Cardinality(Keys(hits)) = Len(hits))
<1> DEFINE s == [i \in DOMAIN hits |-> Key(hits[i])]
<1>1. DOMAIN hits = 1 .. Len(hits) /\ Len(hits) \in Nat
  OBVIOUS
<1>2. IsFiniteSet(1 .. Len(hits)) /\ Cardinality(1 .. Len(hits)) = Len(hits)
  BY <1>1, FS_Interval
<1>3. s \in Surjection(1 .. Len(hits), Keys(hits))
  BY <1>1 DEF Surjection, Keys
<1>4. ASSUME Once(hits) PROVE s \in Injection(1 .. Len(hits), Keys(hits))
  BY <1>1, <1>3, <1>4 DEF Once, Injection, IsInjective, Surjection
<1> HIDE DEF s
<1> QED BY <1>2, <1>3, <1>4, FS_Surjection

LEMMA FiniteImage ==
    ASSUME NEW f, IsFiniteSet(DOMAIN f)
    PROVE  IsFiniteSet({f[x] : x \in DOMAIN f})
<1> DEFINE T == {f[x] : x \in DOMAIN f}
           h == [x \in DOMAIN f |-> f[x]]
<1>1. h \in Surjection(DOMAIN f, T)
  BY DEF Surjection
<1> HIDE DEF h
<1> QED BY <1>1, FS_Surjection

LEMMA AnswerCovers ==
    ASSUME NEW Row, NEW lists \in Seq(Seq(Row)), NEW max \in Nat
    PROVE  LET answer == Answer(lists, max)
           IN  Covers(answer, [k \in DOMAIN answer.hits |-> Key(answer.hits[k])],
                      UNION {Keys(lists[i]) : i \in DOMAIN lists}, max)
<1> DEFINE W == UNION {Keys(lists[i]) : i \in DOMAIN lists}
           got == CollectAll(lists, max)
           answer == Answer(lists, max)
           hits == answer.hits
           shown == [k \in DOMAIN hits |-> Key(hits[k])]
<1>1. DOMAIN lists = 1 .. Len(lists) /\ Len(lists) \in Nat /\ \A i \in DOMAIN lists : lists[i] \in Seq(Row)
  OBVIOUS
<1>2. IsFiniteSet(W)
  <2> DEFINE All == {Keys(lists[i]) : i \in DOMAIN lists}
  <2>1. IsFiniteSet(DOMAIN lists)
    BY <1>1, FS_Interval
  <2> DEFINE h == [i \in DOMAIN lists |-> Keys(lists[i])]
  <2>2. IsFiniteSet(All)
    <3>1. DOMAIN h = DOMAIN lists /\ {h[i] : i \in DOMAIN h} = All
      OBVIOUS
    <3> HIDE DEF h, All
    <3> QED BY <2>1, <3>1, FiniteImage
  <2>3. \A A \in All : IsFiniteSet(A)
    BY <1>1, KeysCounted
  <2> HIDE DEF All
  <2>4. IsFiniteSet(UNION All)
    BY <2>2, <2>3, FS_UNION
  <2> QED BY <2>4 DEF All
<1>3. Accounts(Row, got, W, max)
  BY CollectAllAccounts
<1>4. W = {} <=> \A i \in DOMAIN lists : lists[i] = <<>>
  <2>1. ASSUME NEW i \in DOMAIN lists PROVE Keys(lists[i]) = {} <=> lists[i] = <<>>
    <3> DEFINE rows == lists[i]
    <3>1. rows \in Seq(Row)
      BY <1>1
    <3> HIDE DEF rows
    <3>2. DOMAIN rows = 1 .. Len(rows) /\ Len(rows) \in Nat
      BY <3>1
    <3>3. Keys(rows) = {} <=> Len(rows) = 0
      <4>1. Keys(rows) = {} <=> DOMAIN rows = {}
        BY DEF Keys
      <4>2. ASSUME NEW m \in Nat PROVE 1 .. m = {} <=> m = 0
        <5>1. m # 0 => 1 \in 1 .. m
          OBVIOUS
        <5>2. m = 0 => 1 .. m = {}
          OBVIOUS
        <5> QED BY <5>1, <5>2
      <4> QED BY <3>2, <4>1, <4>2, Zenon
    <3>4. Len(rows) = 0 <=> rows = <<>>
      BY <3>1
    <3> QED BY <3>3, <3>4 DEF rows
  <2> QED BY <2>1
<1>5. Accounts(Row, [hits |-> hits, more |-> answer.more], W, max) /\ (answer.found <=> W # {})
  <2>1. CASE W = {}
    <3>1. answer = NoAnswer
      BY <1>4, <2>1 DEF Answer
    <3>2. <<>> \in Seq(Row) /\ Len(<<>>) = 0 /\ DOMAIN <<>> = {}
      OBVIOUS
    <3> HIDE DEF W, answer
    <3> QED BY <2>1, <3>1, <3>2 DEF NoAnswer, Accounts, Got, Complete, Once, Keys
  <2>2. CASE W # {}
    <3>1. answer = [found |-> TRUE, hits |-> got.hits, more |-> got.more]
      BY <1>4, <2>2 DEF Answer
    <3> HIDE DEF W, answer, got
    <3>2. [hits |-> hits, more |-> answer.more] = [hits |-> got.hits, more |-> got.more]
      BY <3>1
    <3>3. got = [hits |-> got.hits, more |-> got.more]
      BY <1>3 DEF Accounts, Got
    <3> QED BY <1>3, <2>2, <3>1, <3>2, <3>3
  <2> QED BY <2>1, <2>2
<1> HIDE DEF W, answer, got
<1>6. hits \in Seq(Row) /\ answer.more \in BOOLEAN /\ Complete(hits, answer.more, W, max)
  <2> DEFINE more == answer.more
  <2> HIDE DEF hits, more
  <2>1. [hits |-> hits, more |-> more] \in Got(Row) /\ Complete(hits, more, W, max)
    BY <1>5 DEF Accounts, more
  <2>2. [hits |-> hits, more |-> more].hits = hits /\ [hits |-> hits, more |-> more].more = more
    OBVIOUS
  <2> QED BY <2>1, <2>2 DEF Got, more
<1>7. DOMAIN hits = 1 .. Len(hits) /\ Len(hits) \in Nat
  BY <1>6
<1> HIDE DEF hits
<1>8. ToSet(shown) = Keys(hits) /\ IsInjective(shown) /\ Len(shown) = Len(hits)
  <2>1. Once(hits)
    BY <1>6 DEF Complete
  <2>2. DOMAIN shown = 1 .. Len(hits) /\ \A k \in DOMAIN hits : shown[k] = Key(hits[k])
    BY <1>7
  <2>3. shown \in Seq(Keys(hits))
    <3>1. \A k \in DOMAIN hits : Key(hits[k]) \in Keys(hits)
      BY DEF Keys
    <3>2. shown \in [1 .. Len(hits) -> Keys(hits)]
      BY <1>7, <3>1
    <3> HIDE DEF shown
    <3> QED BY <1>7, <3>2
  <2> HIDE DEF shown
  <2>4. ToSet(shown) = Keys(hits)
    BY <1>7, <2>2 DEF ToSet, Keys
  <2>5. IsInjective(shown)
    BY <1>7, <2>1, <2>2 DEF IsInjective, Once
  <2>6. Len(shown) = Len(hits)
    BY <1>7, <2>2, <2>3
  <2> QED BY <2>4, <2>5, <2>6
<1>9. Cardinality(Keys(hits)) = Len(hits) /\ Cardinality(W) \in Nat
  BY <1>2, <1>6, KeysCounted, FS_CardinalityType DEF Complete
<1>10. /\ Cardinality(W) >= Len(hits) /\ (Cardinality(W) = Len(hits) => Keys(hits) = W)
  BY <1>2, <1>6, <1>9, FS_Subset DEF Complete
<1>11. Len(hits) = Min({max, Cardinality(W)}) /\ (answer.more <=> Cardinality(W) > max)
  <2> DEFINE c == Cardinality(W)
             m == Min({max, c})
  <2>1. m \in {max, c} /\ m <= max /\ m <= c
    BY <1>9, MinIsLeast
  <2>2. c \in Nat
    BY <1>9
  <2>3. IF answer.more THEN Len(hits) = max /\ c # Len(hits) ELSE c = Len(hits)
    BY <1>6, <1>9, <1>10 DEF Complete
  <2>4. Len(hits) <= max /\ c >= Len(hits)
    BY <1>6, <1>10 DEF Complete
  <2> HIDE DEF m, c
  <2>5. Len(hits) = m /\ (answer.more <=> c > max)
    <3> DEFINE n == Len(hits)
               more == answer.more
    <3>1. n \in Nat /\ more \in BOOLEAN
      BY <1>6, <1>7
    <3>2. n <= max /\ c >= n /\ IF more THEN n = max /\ c # n ELSE c = n
      BY <2>3, <2>4
    <3> HIDE DEF n, more
    <3>3. n = m /\ (more <=> c > max)
      BY <2>1, <2>2, <3>1, <3>2
    <3> QED BY <3>3 DEF n, more
  <2> QED BY <2>5 DEF m, c
<1> HIDE DEF shown
<1> QED BY <1>5, <1>6, <1>8, <1>11 DEF Covers, Complete, W, answer, hits, shown

LEMMA ClampNat == \A v \in Int : clampGraphMax(v) \in Nat
<1> SUFFICES ASSUME NEW v \in Int PROVE clampGraphMax(v) \in Nat
  OBVIOUS
<1>1. CASE v < 1
  BY <1>1, LimitAssumption DEF clampGraphMax
<1>2. CASE v >= 1
  <2>1. {v, maxGraphResults} \in SUBSET Nat /\ {v, maxGraphResults} # {}
    BY <1>2, LimitAssumption
  <2>2. Min({v, maxGraphResults}) \in {v, maxGraphResults}
    BY <2>1, MinIsLeast
  <2> QED BY <1>2, <2>1, <2>2 DEF clampGraphMax
<1> QED BY <1>1, <1>2

LEMMA Definitions ==
    ASSUME NEW g, IsIndex(g), NEW q
    PROVE  LET defs == resolveDefs(g, q)
           IN  /\ defs \in Seq(DOMAIN g.node) /\ DOMAIN defs = 1 .. Len(defs) /\ IsInjective(defs)
               /\ \A k \in DOMAIN defs : defs[k] \in DOMAIN g.node
<1> DEFINE exact == {i \in DOMAIN g.node : g.node[i].name = q.name}
           nodes == IF exact # {} THEN exact ELSE {i \in DOMAIN g.node : g.node[i].tail = q.name}
           fits(hint, i) == hint = NoHint \/ g.node[i].file \in hint
           defs == {i \in nodes : g.node[i].kind \notin {"file", "module"} /\ fits(q.path, i) /\ fits(q.glob, i)}
           hinted == {i \in defs : fits(q.file, i)}
           S == IF hinted # {} THEN hinted ELSE defs
           s == Ascending(S)
<1>1. resolveDefs(g, q) = s
  BY DEF resolveDefs
<1>2. S \subseteq DOMAIN g.node
  <2>1. nodes \subseteq DOMAIN g.node
    OBVIOUS
  <2> HIDE DEF nodes, fits
  <2>2. defs \subseteq nodes
    OBVIOUS
  <2> HIDE DEF defs
  <2>3. hinted \subseteq defs
    OBVIOUS
  <2> HIDE DEF hinted
  <2> QED BY <2>1, <2>2, <2>3
<1> HIDE DEF S
<1>3. S \in SUBSET Nat /\ IsFiniteSet(S)
  BY <1>2, FS_Subset DEF IsIndex
<1>4. s \in Seq(S) /\ DOMAIN s = 1 .. Len(s) /\ IsInjective(s)
  BY <1>3, AscendingLists
<1> HIDE DEF s
<1>5. s \in Seq(DOMAIN g.node) /\ \A k \in DOMAIN s : s[k] \in DOMAIN g.node
  BY <1>2, <1>4
<1> QED BY <1>1, <1>4, <1>5

CallerRow(g, e) == GraphHit(g, e.src, IF e.line > 0 THEN e.line ELSE g.node[e.src].line, e.kind)
CalleeRow(g, e) == GraphHit(g, e.dst, g.node[e.dst].line, e.kind)
OutOf(g, S)   == {e \in g.edges : e.src \in S /\ e.kind \in structuralEdgeSQL}

\* The rows of a query are what it shows of the sites, each site once.
LEMMA CallerRows ==
    ASSUME NEW g, IsIndex(g), NEW id
    PROVE  LET rows == GetCallersWithKind(g, id)
           IN  /\ rows \in Seq({CallerRow(g, e) : e \in g.edges}) /\ DOMAIN rows = 1 .. Len(rows)
               /\ ToSet(rows) = {CallerRow(g, e) : e \in Into(g, {id})}
<1> DEFINE sites == {e \in g.edges : e.dst = id /\ e.kind \in structuralEdgeSQL}
           R == {p \in sites \X sites : \/ p[1].src < p[2].src
                                        \/ p[1].src = p[2].src /\ p[1].line < p[2].line}
           sorted == Ordered(sites, R)
           rows == GetCallersWithKind(g, id)
<1>1. sites = Into(g, {id}) /\ sites \subseteq g.edges
  BY DEF Into
<1>2. IsFiniteSet(sites) /\ \A e \in sites : e.src \in Nat /\ e.line \in Nat
  BY <1>1, FS_Subset DEF IsIndex
<1>3. Precedes(sites, R)
  <2> HIDE DEF sites
  <2>1. ASSUME NEW x \in sites PROVE <<x, x>> \notin R
    BY <1>2
  <2>2. ASSUME NEW x \in sites, NEW y \in sites, NEW z \in sites, <<x, y>> \in R, <<y, z>> \in R PROVE <<x, z>> \in R
    <3>1. \A a, b \in sites : <<a, b>> \in R <=> a.src < b.src \/ (a.src = b.src /\ a.line < b.line)
      OBVIOUS
    <3>2. /\ x.src \in Nat /\ y.src \in Nat /\ z.src \in Nat /\ x.line \in Nat /\ y.line \in Nat /\ z.line \in Nat
      BY <1>2
    <3> HIDE DEF R
    <3>3. x.src < z.src \/ (x.src = z.src /\ x.line < z.line)
      <4>1. x.src < y.src \/ (x.src = y.src /\ x.line < y.line)
        BY <2>2, <3>1
      <4>2. y.src < z.src \/ (y.src = z.src /\ y.line < z.line)
        BY <2>2, <3>1
      <4> QED BY <3>2, <4>1, <4>2
    <3> QED BY <3>1, <3>3
  <2> QED BY <2>1, <2>2 DEF Precedes
<1> HIDE DEF R
<1>4. sorted \in Seq(sites) /\ DOMAIN sorted = 1 .. Len(sorted) /\ ToSet(sorted) = sites
  BY <1>2, <1>3, OrderedLists
<1>5. rows = [k \in DOMAIN sorted |-> CallerRow(g, sorted[k])]
  BY DEF GetCallersWithKind, CallerRow, sorted, R
<1> HIDE DEF sorted, sites
<1>6. Len(sorted) \in Nat /\ \A k \in DOMAIN sorted : sorted[k] \in sites
  BY <1>4
<1>7. \A k \in DOMAIN sorted : CallerRow(g, sorted[k]) \in {CallerRow(g, e) : e \in g.edges}
  BY <1>1, <1>6
<1>8. rows \in Seq({CallerRow(g, e) : e \in g.edges}) /\ DOMAIN rows = DOMAIN sorted /\ DOMAIN rows = 1 .. Len(rows)
  <2> DEFINE Row == {CallerRow(g, e) : e \in g.edges}
  <2> HIDE DEF Row
  <2>1. rows \in [1 .. Len(sorted) -> Row]
    BY <1>4, <1>5, <1>7 DEF Row
  <2>2. rows \in Seq(Row) /\ DOMAIN rows = DOMAIN sorted
    BY <1>4, <1>6, <2>1
  <2> HIDE DEF rows
  <2> QED BY <2>2 DEF Row
<1>9. ToSet(rows) = {CallerRow(g, e) : e \in sites}
  <2>1. \A e \in sites : \E k \in DOMAIN sorted : e = sorted[k]
    BY <1>4 DEF ToSet
  <2>2. ToSet(rows) = {CallerRow(g, sorted[k]) : k \in DOMAIN sorted}
    BY <1>5 DEF ToSet
  <2> QED BY <1>6, <2>1, <2>2
<1> HIDE DEF rows
<1> QED BY <1>1, <1>8, <1>9 DEF rows

LEMMA CalleeRows ==
    ASSUME NEW g, IsIndex(g), NEW id
    PROVE  LET rows == GetCalleesWithKind(g, id)
           IN  /\ rows \in Seq({CalleeRow(g, e) : e \in g.edges}) /\ DOMAIN rows = 1 .. Len(rows)
               /\ ToSet(rows) = {CalleeRow(g, e) : e \in OutOf(g, {id})}
<1> DEFINE sites == {e \in g.edges : e.src = id /\ e.kind \in structuralEdgeSQL}
           R == {p \in sites \X sites : p[1].dst < p[2].dst}
           sorted == Ordered(sites, R)
           rows == GetCalleesWithKind(g, id)
<1>1. sites = OutOf(g, {id}) /\ sites \subseteq g.edges
  BY DEF OutOf
<1>2. IsFiniteSet(sites) /\ \A e \in sites : e.dst \in Nat
  BY <1>1, FS_Subset DEF IsIndex
<1>3. Precedes(sites, R)
  <2> HIDE DEF sites
  <2>1. ASSUME NEW x \in sites PROVE <<x, x>> \notin R
    BY <1>2
  <2>2. ASSUME NEW x \in sites, NEW y \in sites, NEW z \in sites, <<x, y>> \in R, <<y, z>> \in R PROVE <<x, z>> \in R
    <3>1. \A a, b \in sites : <<a, b>> \in R <=> a.dst < b.dst
      OBVIOUS
    <3>2. x.dst \in Nat /\ y.dst \in Nat /\ z.dst \in Nat
      BY <1>2
    <3> HIDE DEF R
    <3>3. x.dst < z.dst
      BY <2>2, <3>1, <3>2
    <3> QED BY <3>1, <3>3
  <2> QED BY <2>1, <2>2 DEF Precedes
<1> HIDE DEF R
<1>4. sorted \in Seq(sites) /\ DOMAIN sorted = 1 .. Len(sorted) /\ ToSet(sorted) = sites
  BY <1>2, <1>3, OrderedLists
<1>5. rows = [k \in DOMAIN sorted |-> CalleeRow(g, sorted[k])]
  BY DEF GetCalleesWithKind, CalleeRow, sorted, R
<1> HIDE DEF sorted, sites
<1>6. Len(sorted) \in Nat /\ \A k \in DOMAIN sorted : sorted[k] \in sites
  BY <1>4
<1>7. \A k \in DOMAIN sorted : CalleeRow(g, sorted[k]) \in {CalleeRow(g, e) : e \in g.edges}
  BY <1>1, <1>6
<1>8. rows \in Seq({CalleeRow(g, e) : e \in g.edges}) /\ DOMAIN rows = DOMAIN sorted /\ DOMAIN rows = 1 .. Len(rows)
  <2> DEFINE Row == {CalleeRow(g, e) : e \in g.edges}
  <2> HIDE DEF Row
  <2>1. rows \in [1 .. Len(sorted) -> Row]
    BY <1>4, <1>5, <1>7 DEF Row
  <2>2. rows \in Seq(Row) /\ DOMAIN rows = DOMAIN sorted
    BY <1>4, <1>6, <2>1
  <2> HIDE DEF rows
  <2> QED BY <2>2 DEF Row
<1>9. ToSet(rows) = {CalleeRow(g, e) : e \in sites}
  <2>1. \A e \in sites : \E k \in DOMAIN sorted : e = sorted[k]
    BY <1>4 DEF ToSet
  <2>2. ToSet(rows) = {CalleeRow(g, sorted[k]) : k \in DOMAIN sorted}
    BY <1>5 DEF ToSet
  <2> QED BY <1>6, <2>1, <2>2
<1> HIDE DEF rows
<1> QED BY <1>1, <1>8, <1>9 DEF rows

LEMMA ShownKeys == \A rows : Keys(rows) = {Key(x) : x \in ToSet(rows)}
BY DEF Keys, ToSet

LEMMA CallersExact ==
    ASSUME NEW g, IsIndex(g), NEW q, q.max \in Int
    PROVE  LET defs == ToSet(resolveDefs(g, q))
               site(e) == <<g.node[e.src].name, g.node[e.src].file, IF e.line > 0 THEN e.line ELSE g.node[e.src].line>>
               callers == ToolCallersGraph(g, q)
           IN  Covers(callers, [k \in DOMAIN callers.hits |-> Key(callers.hits[k])],
                      {site(e) : e \in Into(g, defs)}, clampGraphMax(q.max))
<1> DEFINE defs == resolveDefs(g, q)
           lists == [k \in DOMAIN defs |-> GetCallersWithKind(g, defs[k])]
           Row == {CallerRow(g, e) : e \in g.edges}
           max == clampGraphMax(q.max)
           site(e) == <<g.node[e.src].name, g.node[e.src].file, IF e.line > 0 THEN e.line ELSE g.node[e.src].line>>
           wanted == {site(e) : e \in Into(g, ToSet(defs))}
           callers == Answer(lists, max)
<1>1. ToolCallersGraph(g, q) = callers
  BY DEF ToolCallersGraph
<1>2. DOMAIN defs = 1 .. Len(defs) /\ Len(defs) \in Nat
  <2> HIDE DEF defs
  <2>1. defs \in Seq(DOMAIN g.node) /\ DOMAIN defs = 1 .. Len(defs)
    BY Definitions DEF defs
  <2> QED BY <2>1
<1> HIDE DEF defs
<1>3. \A id : /\ GetCallersWithKind(g, id) \in Seq(Row)
              /\ ToSet(GetCallersWithKind(g, id)) = {CallerRow(g, e) : e \in Into(g, {id})}
  BY CallerRows
<1>4. lists \in Seq(Seq(Row)) /\ DOMAIN lists = DOMAIN defs /\ \A k \in DOMAIN defs : lists[k] = GetCallersWithKind(g, defs[k])
  <2> HIDE DEF Row
  <2>1. lists \in [1 .. Len(defs) -> Seq(Row)]
    BY <1>2, <1>3
  <2>2. DOMAIN lists = DOMAIN defs /\ \A k \in DOMAIN defs : lists[k] = GetCallersWithKind(g, defs[k])
    OBVIOUS
  <2> HIDE DEF lists
  <2> QED BY <1>2, <2>1, <2>2
<1>5. \A e : Key(CallerRow(g, e)) = site(e)
  BY DEF Key, CallerRow, GraphHit
<1> HIDE DEF lists, Row, site
<1>6. UNION {Keys(lists[k]) : k \in DOMAIN lists} = wanted
  <2>1. ASSUME NEW k \in DOMAIN defs PROVE Keys(lists[k]) = {site(e) : e \in Into(g, {defs[k]})}
    <3>1. Keys(lists[k]) = {Key(x) : x \in {CallerRow(g, e) : e \in Into(g, {defs[k]})}}
      BY <1>3, <1>4, ShownKeys
    <3> QED BY <3>1, <1>5
  <2>2. \A e : e \in Into(g, ToSet(defs)) <=> \E k \in DOMAIN defs : e \in Into(g, {defs[k]})
    BY DEF Into, ToSet
  <2>3. ASSUME NEW x PROVE x \in UNION {Keys(lists[k]) : k \in DOMAIN lists} <=> x \in wanted
    <3>1. x \in UNION {Keys(lists[k]) : k \in DOMAIN lists} <=> \E k \in DOMAIN defs : x \in Keys(lists[k])
      BY <1>4
    <3>2. (\E k \in DOMAIN defs : x \in Keys(lists[k])) <=> \E k \in DOMAIN defs : \E e \in Into(g, {defs[k]}) : x = site(e)
      BY <2>1
    <3>3. x \in wanted <=> \E e \in Into(g, ToSet(defs)) : x = site(e)
      OBVIOUS
    <3> QED BY <3>1, <3>2, <3>3, <2>2
  <2> QED BY <2>3
<1>7. max \in Nat
  BY ClampNat
<1> HIDE DEF max, wanted
<1>8. Covers(callers, [k \in DOMAIN callers.hits |-> Key(callers.hits[k])], wanted, max)
  BY <1>4, <1>6, <1>7, AnswerCovers
<1> HIDE DEF callers
<1> QED BY <1>1, <1>8 DEF wanted, max, defs, site

LEMMA CalleesExact ==
    ASSUME NEW g, IsIndex(g), NEW q, q.max \in Int
    PROVE  LET defs == ToSet(resolveDefs(g, q))
               callee(e) == <<g.node[e.dst].name, g.node[e.dst].file, g.node[e.dst].line>>
               callees == ToolCalleesGraph(g, q)
           IN  Covers(callees, [k \in DOMAIN callees.hits |-> Key(callees.hits[k])],
                      {callee(e) : e \in OutOf(g, defs)}, clampGraphMax(q.max))
<1> DEFINE defs == resolveDefs(g, q)
           lists == [k \in DOMAIN defs |-> GetCalleesWithKind(g, defs[k])]
           Row == {CalleeRow(g, e) : e \in g.edges}
           max == clampGraphMax(q.max)
           callee(e) == <<g.node[e.dst].name, g.node[e.dst].file, g.node[e.dst].line>>
           wanted == {callee(e) : e \in OutOf(g, ToSet(defs))}
           callees == Answer(lists, max)
<1>1. ToolCalleesGraph(g, q) = callees
  BY DEF ToolCalleesGraph
<1>2. DOMAIN defs = 1 .. Len(defs) /\ Len(defs) \in Nat
  <2> HIDE DEF defs
  <2>1. defs \in Seq(DOMAIN g.node) /\ DOMAIN defs = 1 .. Len(defs)
    BY Definitions DEF defs
  <2> QED BY <2>1
<1> HIDE DEF defs
<1>3. \A id : /\ GetCalleesWithKind(g, id) \in Seq(Row)
              /\ ToSet(GetCalleesWithKind(g, id)) = {CalleeRow(g, e) : e \in OutOf(g, {id})}
  BY CalleeRows
<1>4. lists \in Seq(Seq(Row)) /\ DOMAIN lists = DOMAIN defs /\ \A k \in DOMAIN defs : lists[k] = GetCalleesWithKind(g, defs[k])
  <2> HIDE DEF Row
  <2>1. lists \in [1 .. Len(defs) -> Seq(Row)]
    BY <1>2, <1>3
  <2>2. DOMAIN lists = DOMAIN defs /\ \A k \in DOMAIN defs : lists[k] = GetCalleesWithKind(g, defs[k])
    OBVIOUS
  <2> HIDE DEF lists
  <2> QED BY <1>2, <2>1, <2>2
<1>5. \A e : Key(CalleeRow(g, e)) = callee(e)
  BY DEF Key, CalleeRow, GraphHit
<1> HIDE DEF lists, Row, callee
<1>6. UNION {Keys(lists[k]) : k \in DOMAIN lists} = wanted
  <2>1. ASSUME NEW k \in DOMAIN defs PROVE Keys(lists[k]) = {callee(e) : e \in OutOf(g, {defs[k]})}
    <3>1. Keys(lists[k]) = {Key(x) : x \in {CalleeRow(g, e) : e \in OutOf(g, {defs[k]})}}
      BY <1>3, <1>4, ShownKeys
    <3> QED BY <3>1, <1>5
  <2>2. \A e : e \in OutOf(g, ToSet(defs)) <=> \E k \in DOMAIN defs : e \in OutOf(g, {defs[k]})
    BY DEF OutOf, ToSet
  <2>3. ASSUME NEW x PROVE x \in UNION {Keys(lists[k]) : k \in DOMAIN lists} <=> x \in wanted
    <3>1. x \in UNION {Keys(lists[k]) : k \in DOMAIN lists} <=> \E k \in DOMAIN defs : x \in Keys(lists[k])
      BY <1>4
    <3>2. (\E k \in DOMAIN defs : x \in Keys(lists[k])) <=> \E k \in DOMAIN defs : \E e \in OutOf(g, {defs[k]}) : x = callee(e)
      BY <2>1
    <3>3. x \in wanted <=> \E e \in OutOf(g, ToSet(defs)) : x = callee(e)
      OBVIOUS
    <3> QED BY <3>1, <3>2, <3>3, <2>2
  <2> QED BY <2>3
<1>7. max \in Nat
  BY ClampNat
<1> HIDE DEF max, wanted
<1>8. Covers(callees, [k \in DOMAIN callees.hits |-> Key(callees.hits[k])], wanted, max)
  BY <1>4, <1>6, <1>7, AnswerCovers
<1> HIDE DEF callees
<1> QED BY <1>1, <1>8 DEF wanted, max, defs, callee

-----------------------------------------------------------------------------
(* Affected tests.                                                         *)

\* The files that a search from the files S can meet.
Met(t, S) == S \cup t.files \cup {i[1] : i \in t.imports}
Search(F) == [marked : SUBSET F, next : Seq(F)]
Importers(t, X) == UNION {findImportersCtx(t, f) : f \in X}
Beside(t, X)    == UNION {testsBeside(t, f) : f \in X}

LEMMA Joined ==
    ASSUME NEW S, NEW a \in Seq(S), NEW b \in Seq(S)
    PROVE  a \o b \in Seq(S) /\ ToSet(a \o b) = ToSet(a) \cup ToSet(b)
<1>1. /\ a \o b \in Seq(S) /\ Len(a \o b) = Len(a) + Len(b) /\ Len(a) \in Nat /\ Len(b) \in Nat
      /\ \A i \in 1 .. Len(a) : (a \o b)[i] = a[i]
      /\ \A i \in 1 .. Len(b) : (a \o b)[Len(a) + i] = b[i]
      /\ DOMAIN a = 1 .. Len(a) /\ DOMAIN b = 1 .. Len(b)
  OBVIOUS
<1>2. DOMAIN (a \o b) = 1 .. Len(a) + Len(b)
  BY <1>1
<1>3. ASSUME NEW i \in DOMAIN (a \o b) PROVE (a \o b)[i] \in ToSet(a) \cup ToSet(b)
  <2>1. CASE i <= Len(a)
    BY <1>1, <1>2, <2>1 DEF ToSet
  <2>2. CASE i > Len(a)
    <3>1. i - Len(a) \in 1 .. Len(b) /\ Len(a) + (i - Len(a)) = i
      BY <1>1, <1>2, <2>2
    <3>2. (a \o b)[i] = b[i - Len(a)]
      BY <1>1, <3>1
    <3> QED BY <1>1, <3>1, <3>2 DEF ToSet
  <2> QED BY <1>1, <1>2, <2>1, <2>2
<1>4. ASSUME NEW i \in DOMAIN a PROVE a[i] \in ToSet(a \o b)
  <2>1. i \in DOMAIN (a \o b) /\ a[i] = (a \o b)[i]
    BY <1>1, <1>2
  <2> QED BY <2>1 DEF ToSet
<1>5. ASSUME NEW i \in DOMAIN b PROVE b[i] \in ToSet(a \o b)
  <2>1. i \in 1 .. Len(b)
    BY <1>1
  <2>2. Len(a) + i \in 1 .. Len(a) + Len(b)
    BY <1>1, <2>1
  <2>3. Len(a) + i \in DOMAIN (a \o b) /\ b[i] = (a \o b)[Len(a) + i]
    BY <1>1, <1>2, <2>1, <2>2, Zenon
  <2> QED BY <2>3 DEF ToSet
<1> DEFINE c == a \o b
<1> HIDE DEF c
<1>6. ToSet(c) \subseteq ToSet(a) \cup ToSet(b)
  BY <1>3 DEF ToSet, c
<1>7. ToSet(a) \cup ToSet(b) \subseteq ToSet(c)
  BY <1>4, <1>5 DEF ToSet, c
<1> QED BY <1>1, <1>6, <1>7 DEF c

LEMMA ImportersFinite ==
    ASSUME NEW t, IsTree(t), NEW file
    PROVE  IsFiniteSet(findImportersCtx(t, file))
<1> DEFINE I == {i \in t.imports : IsPrefix(fileToPackage(t, file.dir), i[2])}
           f == [i \in I |-> i[1]]
<1>1. IsFiniteSet(I)
  BY FS_Subset DEF IsTree
<1>2. findImportersCtx(t, file) = {f[i] : i \in DOMAIN f} /\ DOMAIN f = I
  BY DEF findImportersCtx
<1> HIDE DEF f, I
<1> QED BY <1>1, <1>2, FiniteImage

\* What one visit does to the files marked and the files to come.
LEMMA Visited ==
    ASSUME NEW t, IsTree(t), NEW S, NEW at \in Search(Met(t, S)), NEW file \in Met(t, S)
    PROVE  LET after == Visit(t, at, file)
           IN  /\ after \in Search(Met(t, S))
               /\ IF file \in at.marked THEN after = at
                  ELSE /\ after.marked = at.marked \cup {file} \cup testsBeside(t, file)
                       /\ ToSet(after.next) = ToSet(at.next) \cup (findImportersCtx(t, file) \ after.marked)
<1> DEFINE F == Met(t, S)
           now == at.marked \cup {file} \cup testsBeside(t, file)
           more == findImportersCtx(t, file) \ now
           list == SetToSeq(more)
           after == Visit(t, at, file)
<1>1. at.marked \in SUBSET F /\ at.next \in Seq(F)
  BY DEF Search
<1>2. now \in SUBSET F
  BY <1>1 DEF Met, testsBeside
<1>3. more \subseteq F
  BY DEF Met, findImportersCtx
<1>4. IsFiniteSet(more)
  BY ImportersFinite, FS_Subset
<1> HIDE DEF more, F
<1>5. list \in Seq(more) /\ ToSet(list) = more
  BY <1>4, SomeList
<1> HIDE DEF list
<1>6. list \in Seq(F)
  BY <1>3, <1>5
<1> DEFINE next == at.next \o list
<1>7. next \in Seq(F) /\ ToSet(next) = ToSet(at.next) \cup more
  BY <1>1, <1>5, <1>6, Joined
<1>8. CASE file \in at.marked
  <2>1. after = at
    BY <1>8 DEF Visit
  <2> HIDE DEF after
  <2> QED BY <1>8, <2>1 DEF after
<1>9. CASE file \notin at.marked
  <2>1. after = [marked |-> now, next |-> next]
    BY <1>9 DEF Visit, list, more
  <2> HIDE DEF after, next, now
  <2>2. after \in Search(F) /\ after.marked = now /\ ToSet(after.next) = ToSet(at.next) \cup more
    BY <1>2, <1>7, <2>1 DEF Search
  <2> QED BY <1>9, <2>2 DEF after, now, F, more
<1> QED BY <1>8, <1>9

LEMMA LevelRounds ==
    ASSUME NEW t, IsTree(t), NEW S, NEW marked \in SUBSET Met(t, S), NEW queue \in Seq(Met(t, S))
    PROVE  \E f \in [0 .. Len(queue) -> Search(Met(t, S))] :
              /\ f[0] = [marked |-> marked, next |-> <<>>]
              /\ \A i \in 1 .. Len(queue) : f[i] = Visit(t, f[i - 1], queue[i])
              /\ Level(t, queue, marked) = f[Len(queue)]
<1> DEFINE n == Len(queue)
           States == Search(Met(t, S))
           first == [marked |-> marked, next |-> <<>>]
           R == CHOOSE R : R = [i \in 0 .. n |-> IF i = 0 THEN first ELSE Visit(t, R[i - 1], queue[i])]
           step == [i \in 1 .. n |-> [x \in States |-> Visit(t, x, queue[i])]]
<1>1. n \in Nat /\ \A i \in 1 .. n : queue[i] \in Met(t, S)
  OBVIOUS
<1>2. step \in [1 .. n -> [States -> States]] /\ first \in States
  <2>1. \A i \in 1 .. n : \A x \in States : Visit(t, x, queue[i]) \in States
    BY <1>1, Visited
  <2>2. first \in States
    BY DEF Search
  <2> HIDE DEF States, first
  <2>3. \A i \in 1 .. n : [x \in States |-> Visit(t, x, queue[i])] \in [States -> States]
    BY <2>1
  <2> QED BY <2>2, <2>3
<1>3. \A i \in 1 .. n : \A x \in States : step[i][x] = Visit(t, x, queue[i])
  OBVIOUS
<1> HIDE DEF step, n, States, first
<1>4. PICK f \in [0 .. n -> States] : LoopsTo(f, n, first, step)
  BY <1>1, <1>2, FiniteRecursion
<1>5. ASSUME NEW i \in 1 .. n PROVE f[i] = Visit(t, f[i - 1], queue[i])
  <2>1. i - 1 \in 0 .. n
    BY <1>1
  <2>2. f[i - 1] \in States /\ f[i] = step[i][f[i - 1]]
    BY <1>4, <2>1 DEF LoopsTo
  <2> QED BY <2>2, <1>3
<1>6. f = [i \in 0 .. n |-> IF i = 0 THEN first ELSE Visit(t, f[i - 1], queue[i])]
  <2>1. f[0] = first
    BY <1>4 DEF LoopsTo
  <2>2. \A i \in 0 .. n : i # 0 => i \in 1 .. n
    BY <1>1
  <2> QED BY <2>1, <2>2, <1>5
<1>7. R = [i \in 0 .. n |-> IF i = 0 THEN first ELSE Visit(t, R[i - 1], queue[i])]
  BY <1>6, Zenon
<1>8. Level(t, queue, marked) = R[n]
  BY DEF Level, n, first
<1> HIDE DEF R
<1>9. R[0] = first /\ \A i \in 1 .. n : R[i] = Visit(t, R[i - 1], queue[i])
  BY <1>1, <1>7
<1> DEFINE T == {k \in Nat : k <= n => R[k] \in States}
<1>10. 0 \in T
  BY <1>2, <1>9
<1>11. ASSUME NEW k \in Nat, k \in T PROVE k + 1 \in T
  <2> SUFFICES ASSUME k + 1 <= n PROVE R[k + 1] \in States
    OBVIOUS
  <2>1. k + 1 \in 1 .. n /\ (k + 1) - 1 = k /\ k <= n
    BY <1>1
  <2>2. R[k + 1] = Visit(t, R[k], queue[k + 1]) /\ R[k] \in States /\ queue[k + 1] \in Met(t, S)
    BY <1>1, <1>9, <1>11, <2>1
  <2> QED BY <2>2, Visited DEF States
<1>12. Nat \subseteq T
  <2> HIDE DEF T
  <2> QED BY <1>10, <1>11, Induct
<1>13. R \in [0 .. n -> States]
  BY <1>1, <1>7, <1>12
<1> QED BY <1>8, <1>9, <1>13 DEF n, States, first

LEMMA LevelType ==
    ASSUME NEW t, IsTree(t), NEW S, NEW marked \in SUBSET Met(t, S), NEW queue \in Seq(Met(t, S))
    PROVE  Level(t, queue, marked) \in Search(Met(t, S))
<1>1. PICK f \in [0 .. Len(queue) -> Search(Met(t, S))] :
              /\ f[0] = [marked |-> marked, next |-> <<>>]
              /\ \A i \in 1 .. Len(queue) : f[i] = Visit(t, f[i - 1], queue[i])
              /\ Level(t, queue, marked) = f[Len(queue)]
  BY LevelRounds
<1>2. Len(queue) \in 0 .. Len(queue)
  OBVIOUS
<1> QED BY <1>1, <1>2

\* Every marked file has been searched, or a file of its directory has: what
\* imports it is marked or to come, and the tests beside it are marked.
Searched(t, M, N) ==
    \A f \in M : testsBeside(t, f) \subseteq M /\ findImportersCtx(t, f) \subseteq M \cup N

\* A test beside a file has the importers of the file, and no test beside.
LEMMA BesideSame ==
    ASSUME NEW t, NEW file, NEW f \in testsBeside(t, file)
    PROVE  testsBeside(t, f) = {} /\ findImportersCtx(t, f) = findImportersCtx(t, file)
<1>1. f.test /\ f.dir = file.dir
  BY DEF testsBeside
<1> QED BY <1>1 DEF testsBeside, findImportersCtx

\* A level marks its files and the tests beside, and finds what imports them.
LEMMA LevelExact ==
    ASSUME NEW t, IsTree(t), NEW S, NEW M \in SUBSET Met(t, S), NEW queue \in Seq(Met(t, S)),
           Searched(t, M, ToSet(queue))
    PROVE  LET after == Level(t, queue, M)
               Q     == ToSet(queue)
           IN  /\ after \in Search(Met(t, S))
               /\ M \cup Q \subseteq after.marked /\ after.marked \subseteq M \cup Q \cup Beside(t, Q)
               /\ ToSet(after.next) \subseteq Importers(t, Q)
               /\ Searched(t, after.marked, ToSet(after.next))
<1> DEFINE n == Len(queue)
           Q == ToSet(queue)
           F == Met(t, S)
<1>1. n \in Nat /\ DOMAIN queue = 1 .. n /\ \A i \in 1 .. n : queue[i] \in F /\ queue[i] \in Q
  BY DEF ToSet
<1>2. PICK f \in [0 .. n -> Search(F)] :
              /\ f[0] = [marked |-> M, next |-> <<>>]
              /\ \A i \in 1 .. n : f[i] = Visit(t, f[i - 1], queue[i])
              /\ Level(t, queue, M) = f[n]
  BY LevelRounds
<1> DEFINE Good(at, k) == /\ M \subseteq at.marked /\ \A i \in 1 .. k : queue[i] \in at.marked
                          /\ at.marked \subseteq M \cup Q \cup Beside(t, Q)
                          /\ ToSet(at.next) \subseteq Importers(t, Q)
                          /\ Searched(t, at.marked, ToSet(at.next) \cup Q)
           T == {k \in Nat : k <= n => Good(f[k], k)}
<1>3. 0 \in T
  <2>1. ToSet(<<>>) = {}
    BY DEF ToSet
  <2>2. f[0].marked = M /\ ToSet(f[0].next) = {}
    BY <1>2, <2>1
  <2> HIDE DEF Q
  <2>3. Searched(t, M, Q) /\ {} \cup Q = Q
    BY DEF Q
  <2>4. Good(f[0], 0)
    BY <2>2, <2>3
  <2> QED BY <2>4
<1>4. ASSUME NEW k \in Nat, k \in T PROVE k + 1 \in T
  <2> SUFFICES ASSUME k + 1 <= n PROVE Good(f[k + 1], k + 1)
    OBVIOUS
  <2> DEFINE at == f[k]
             file == queue[k + 1]
             after == f[k + 1]
  <2>1. k + 1 \in 1 .. n /\ (k + 1) - 1 = k /\ k <= n /\ k \in 0 .. n
    BY <1>1
  <2>2. Good(at, k)
    BY <1>4, <2>1
  <2>3. after = Visit(t, at, file) /\ file \in F /\ file \in Q /\ at \in Search(F)
    BY <1>1, <1>2, <2>1
  <2> HIDE DEF at, file, after
  <2>4. IF file \in at.marked THEN after = at
        ELSE /\ after.marked = at.marked \cup {file} \cup testsBeside(t, file)
             /\ ToSet(after.next) = ToSet(at.next) \cup (findImportersCtx(t, file) \ after.marked)
    BY <2>3, Visited
  <2>5. \A i \in 1 .. k + 1 : i \in 1 .. k \/ queue[i] = file
    <3>1. \A i \in 1 .. k + 1 : i \in 1 .. k \/ i = k + 1
      OBVIOUS
    <3> QED BY <3>1 DEF file
  <2>6. CASE file \in at.marked
    BY <2>2, <2>4, <2>5, <2>6
  <2>7. CASE file \notin at.marked
    <3> DEFINE B == testsBeside(t, file)
               I == findImportersCtx(t, file)
    <3>1. after.marked = at.marked \cup {file} \cup B /\ ToSet(after.next) = ToSet(at.next) \cup (I \ after.marked)
      BY <2>4, <2>7
    <3>2. B \subseteq Beside(t, Q) /\ I \subseteq Importers(t, Q)
      BY <2>3 DEF Beside, Importers
    <3>3. ASSUME NEW x \in after.marked
          PROVE  testsBeside(t, x) \subseteq after.marked /\ findImportersCtx(t, x) \subseteq after.marked \cup (ToSet(after.next) \cup Q)
      <4> HIDE DEF B, I
      <4>1. CASE x \in at.marked
        <5>1. testsBeside(t, x) \subseteq at.marked /\ findImportersCtx(t, x) \subseteq at.marked \cup (ToSet(at.next) \cup Q)
          BY <2>2, <4>1 DEF Searched
        <5> QED BY <3>1, <5>1
      <4>2. CASE x = file
        <5>1. testsBeside(t, x) = B /\ findImportersCtx(t, x) = I
          BY <4>2 DEF B, I
        <5> QED BY <3>1, <5>1
      <4>3. CASE x \in B
        <5>1. testsBeside(t, x) = {} /\ findImportersCtx(t, x) = I
          BY <4>3, BesideSame DEF B, I
        <5> QED BY <3>1, <5>1
      <4> QED BY <3>1, <3>3, <4>1, <4>2, <4>3
    <3> HIDE DEF B, I, Q
    <3>4. Searched(t, after.marked, ToSet(after.next) \cup Q)
      BY <3>3 DEF Searched
    <3>5. M \subseteq after.marked /\ \A i \in 1 .. k + 1 : queue[i] \in after.marked
      BY <2>2, <2>5, <3>1
    <3>6. after.marked \subseteq M \cup Q \cup Beside(t, Q)
      BY <2>2, <2>3, <3>1, <3>2
    <3>7. ToSet(after.next) \subseteq Importers(t, Q)
      BY <2>2, <3>1, <3>2
    <3>8. Good(after, k + 1)
      BY <3>4, <3>5, <3>6, <3>7
    <3> HIDE DEF Good
    <3> QED BY <3>8 DEF after
  <2> QED BY <2>6, <2>7 DEF after
<1>5. n \in T
  <2> HIDE DEF T
  <2> QED BY <1>1, <1>3, <1>4, Induct
<1> DEFINE after == f[n]
<1>6. Good(after, n)
  <2>1. n <= n
    BY <1>1
  <2> QED BY <1>5, <2>1
<1>7. after \in Search(F)
  BY <1>1, <1>2
<1> HIDE DEF after, n
<1>8. Q \subseteq after.marked
  BY <1>1, <1>6 DEF ToSet
<1>9. Searched(t, after.marked, ToSet(after.next))
  <2> HIDE DEF Q
  <2>1. after.marked \cup (ToSet(after.next) \cup Q) = after.marked \cup ToSet(after.next)
    BY <1>8
  <2> QED BY <1>6, <2>1 DEF Searched
<1>10. Level(t, queue, M) = after
  BY <1>2 DEF after
<1> QED BY <1>6, <1>7, <1>8, <1>9, <1>10

LEMMA ReachRounds ==
    ASSUME NEW t, NEW S
    PROVE  /\ Reach(t, S, 0) = S
           /\ \A n \in Nat : Reach(t, S, n + 1) = Reach(t, S, n) \cup Importers(t, Reach(t, S, n))
<1> DEFINE R == CHOOSE R : R = [k \in Nat |-> IF k = 0 THEN S ELSE R[k - 1] \cup UNION {findImportersCtx(t, f) : f \in R[k - 1]}]
           Sets == SUBSET Met(t, S)
           step == [k \in Nat |-> [X \in Sets |-> X \cup UNION {findImportersCtx(t, f) : f \in X}]]
<1>1. step \in [Nat -> [Sets -> Sets]] /\ S \in Sets
  <2>1. \A X \in Sets : X \cup UNION {findImportersCtx(t, f) : f \in X} \in Sets
    BY DEF Met, findImportersCtx
  <2>2. S \in Sets
    BY DEF Met
  <2> HIDE DEF Sets
  <2>3. [X \in Sets |-> X \cup UNION {findImportersCtx(t, f) : f \in X}] \in [Sets -> Sets]
    BY <2>1
  <2> QED BY <2>2, <2>3
<1>2. \A k \in Nat : \A X \in Sets : step[k][X] = X \cup UNION {findImportersCtx(t, f) : f \in X}
  OBVIOUS
<1> HIDE DEF Sets, step
<1>3. PICK r \in [Nat -> Sets] : Loops(r, S, step)
  BY <1>1, Recursion
<1>4. r = [k \in Nat |-> IF k = 0 THEN S ELSE r[k - 1] \cup UNION {findImportersCtx(t, f) : f \in r[k - 1]}]
  <2>1. r[0] = S
    BY <1>3 DEF Loops
  <2>2. ASSUME NEW k \in Nat, k # 0 PROVE r[k] = r[k - 1] \cup UNION {findImportersCtx(t, f) : f \in r[k - 1]}
    <3>1. k - 1 \in Nat /\ r[k - 1] \in Sets /\ r[k] = step[k][r[k - 1]]
      BY <2>2, <1>3 DEF Loops
    <3> QED BY <3>1, <1>2
  <2> QED BY <2>1, <2>2
<1>5. R = [k \in Nat |-> IF k = 0 THEN S ELSE R[k - 1] \cup UNION {findImportersCtx(t, f) : f \in R[k - 1]}]
  BY <1>4, Zenon
<1>6. \A n : Reach(t, S, n) = R[n]
  BY DEF Reach
<1> HIDE DEF R
<1>7. R[0] = S /\ \A n \in Nat : R[n + 1] = R[n] \cup Importers(t, R[n])
  <2>1. R[0] = S
    BY <1>5
  <2>2. ASSUME NEW n \in Nat PROVE R[n + 1] = R[n] \cup Importers(t, R[n])
    <3>1. n + 1 \in Nat /\ n + 1 # 0 /\ (n + 1) - 1 = n
      OBVIOUS
    <3>2. R[n + 1] = R[(n + 1) - 1] \cup UNION {findImportersCtx(t, f) : f \in R[(n + 1) - 1]}
      BY <3>1, <1>5
    <3> QED BY <3>1, <3>2 DEF Importers
  <2> QED BY <2>1, <2>2
<1> QED BY <1>6, <1>7

\* The states at of the loop over the levels.
GoesThrough(t, queue, at) ==
    /\ at[0] = [marked |-> {}, next |-> queue]
    /\ \A k \in Nat : at[k + 1] = Level(t, at[k].next, at[k].marked)
    /\ \A k \in Nat : Levels(t, k, queue) = at[k].marked

LEMMA LevelsRounds ==
    ASSUME NEW t, IsTree(t), NEW S, NEW queue \in Seq(S)
    PROVE  \E at \in [Nat -> Search(Met(t, S))] : GoesThrough(t, queue, at)
<1> DEFINE States == Search(Met(t, S))
           first == [marked |-> {}, next |-> queue]
           R == CHOOSE R : R = [k \in Nat |-> IF k = 0 THEN first
                                              ELSE LET last == R[k - 1] IN Level(t, last.next, last.marked)]
           step == [k \in Nat |-> [x \in States |-> Level(t, x.next, x.marked)]]
<1>1. step \in [Nat -> [States -> States]] /\ first \in States
  <2>1. ASSUME NEW x \in States PROVE Level(t, x.next, x.marked) \in States
    <3>1. x.marked \in SUBSET Met(t, S) /\ x.next \in Seq(Met(t, S))
      BY DEF Search
    <3> DEFINE M == x.marked
               N == x.next
    <3> HIDE DEF M, N
    <3>2. Level(t, N, M) \in Search(Met(t, S))
      BY <3>1, LevelType DEF M, N
    <3> QED BY <3>2 DEF M, N
  <2>2. first \in States
    <3>1. queue \in Seq(Met(t, S))
      BY DEF Met
    <3> QED BY <3>1 DEF Search
  <2> HIDE DEF States, first
  <2>3. [x \in States |-> Level(t, x.next, x.marked)] \in [States -> States]
    BY <2>1
  <2> QED BY <2>2, <2>3
<1>2. \A k \in Nat : \A x \in States : step[k][x] = Level(t, x.next, x.marked)
  OBVIOUS
<1> HIDE DEF step, States, first
<1>3. PICK f \in [Nat -> States] : Loops(f, first, step)
  BY <1>1, Recursion
<1>4. f[0] = first /\ \A k \in Nat : k # 0 => f[k] = Level(t, f[k - 1].next, f[k - 1].marked)
  <2>1. f[0] = first
    BY <1>3 DEF Loops
  <2>2. ASSUME NEW k \in Nat, k # 0 PROVE f[k] = Level(t, f[k - 1].next, f[k - 1].marked)
    <3>1. k - 1 \in Nat /\ f[k - 1] \in States /\ f[k] = step[k][f[k - 1]]
      BY <2>2, <1>3 DEF Loops
    <3> QED BY <3>1, <1>2
  <2> QED BY <2>1, <2>2
<1>5. f = [k \in Nat |-> IF k = 0 THEN first ELSE LET last == f[k - 1] IN Level(t, last.next, last.marked)]
  BY <1>4
<1>6. R = [k \in Nat |-> IF k = 0 THEN first ELSE LET last == R[k - 1] IN Level(t, last.next, last.marked)]
  BY <1>5, Zenon
<1>7. \A n : Levels(t, n, queue) = R[n].marked
  BY DEF Levels, first
<1> HIDE DEF R
<1>8. R[0] = first /\ \A k \in Nat : R[k + 1] = Level(t, R[k].next, R[k].marked)
  <2>1. R[0] = first
    BY <1>6
  <2>2. ASSUME NEW k \in Nat PROVE R[k + 1] = Level(t, R[k].next, R[k].marked)
    <3>1. k + 1 \in Nat /\ k + 1 # 0 /\ (k + 1) - 1 = k
      OBVIOUS
    <3>2. R[k + 1] = Level(t, R[(k + 1) - 1].next, R[(k + 1) - 1].marked)
      BY <3>1, <1>6
    <3> QED BY <3>1, <3>2
  <2> QED BY <2>1, <2>2
<1>9. \A k \in Nat : R[k] \in States
  <2> DEFINE T == {k \in Nat : R[k] \in States}
  <2>1. 0 \in T
    BY <1>1, <1>8
  <2>2. ASSUME NEW k \in Nat, k \in T PROVE k + 1 \in T
    <3>1. R[k] \in States /\ R[k + 1] = step[k][R[k]]
      BY <2>2, <1>2, <1>8
    <3>2. step[k][R[k]] \in States
      BY <3>1, <1>1
    <3> QED BY <3>1, <3>2
  <2>3. Nat \subseteq T
    <3> HIDE DEF T
    <3> QED BY <2>1, <2>2, Induct
  <2> QED BY <2>3
<1>10. R \in [Nat -> States]
  BY <1>6, <1>9
<1> QED BY <1>7, <1>8, <1>10 DEF GoesThrough, States, first

\* The files R within each number of imports of the files S.
Grows(t, S, R) == R[0] = S /\ \A k \in Nat : R[k + 1] = R[k] \cup Importers(t, R[k])

LEMMA ReachGrows == \A t, S : Grows(t, S, [k \in Nat |-> Reach(t, S, k)])
<1> SUFFICES ASSUME NEW t, NEW S PROVE Grows(t, S, [k \in Nat |-> Reach(t, S, k)])
  OBVIOUS
<1> DEFINE R == [k \in Nat |-> Reach(t, S, k)]
<1>1. R[0] = S
  BY ReachRounds
<1>2. ASSUME NEW k \in Nat PROVE R[k + 1] = R[k] \cup Importers(t, R[k])
  <2>1. Reach(t, S, k + 1) = Reach(t, S, k) \cup Importers(t, Reach(t, S, k))
    BY ReachRounds
  <2>2. R[k] = Reach(t, S, k) /\ R[k + 1] = Reach(t, S, k + 1)
    OBVIOUS
  <2> HIDE DEF R
  <2> QED BY <2>1, <2>2
<1> HIDE DEF R
<1>3. Grows(t, S, R)
  BY <1>1, <1>2 DEF Grows
<1> QED BY <1>3 DEF R

Descends(t, S, at) ==
    /\ at[0].marked = {} /\ ToSet(at[0].next) = S
    /\ \A k \in Nat : at[k + 1] = Level(t, at[k].next, at[k].marked)
Marks(t, R, at) == \A n \in Nat : at[n + 1].marked = R[n] \cup Beside(t, R[n])

\* After n + 1 levels exactly the files within n imports of the changed ones
\* are marked, and the tests beside them.
LEMMA LevelsMark ==
    ASSUME NEW t, IsTree(t), NEW S, NEW R, Grows(t, S, R), NEW at \in [Nat -> Search(Met(t, S))], Descends(t, S, at)
    PROVE  Marks(t, R, at)
<1> SUFFICES ASSUME NEW n \in Nat PROVE at[n + 1].marked = R[n] \cup Beside(t, R[n])
  BY DEF Marks
<1>1. /\ at[0].marked = {} /\ ToSet(at[0].next) = S
      /\ \A k \in Nat : at[k + 1] = Level(t, at[k].next, at[k].marked)
  BY DEF Descends
<1>2. R[0] = S /\ \A k \in Nat : R[k + 1] = R[k] \cup Importers(t, R[k])
  BY DEF Grows
<1> DEFINE M(k) == at[k].marked
           Q(k) == ToSet(at[k].next)
<1>3. ASSUME NEW k \in Nat, Searched(t, M(k), Q(k))
      PROVE  /\ M(k) \cup Q(k) \subseteq M(k + 1)
             /\ M(k + 1) \subseteq M(k) \cup Q(k) \cup Beside(t, Q(k))
             /\ Q(k + 1) \subseteq Importers(t, Q(k))
             /\ Searched(t, M(k + 1), Q(k + 1))
  <2> DEFINE next == at[k].next
             mk == at[k].marked
  <2>1. next \in Seq(Met(t, S)) /\ mk \in SUBSET Met(t, S)
    BY <1>1 DEF Search
  <2>2. at[k + 1] = Level(t, next, mk)
    BY <1>1
  <2>3. Searched(t, mk, ToSet(next))
    BY <1>3
  <2> HIDE DEF next, mk
  <2>4. /\ mk \cup ToSet(next) \subseteq at[k + 1].marked
        /\ at[k + 1].marked \subseteq mk \cup ToSet(next) \cup Beside(t, ToSet(next))
        /\ ToSet(at[k + 1].next) \subseteq Importers(t, ToSet(next))
        /\ Searched(t, at[k + 1].marked, ToSet(at[k + 1].next))
    BY <2>1, <2>2, <2>3, LevelExact
  <2> QED BY <2>4 DEF next, mk
<1>4. M(0) = {} /\ Q(0) = S
  BY <1>1
<1> HIDE DEF M, Q
<1> DEFINE Good(k) == /\ Searched(t, M(k), Q(k)) /\ R[k] \subseteq M(k) \cup Q(k) /\ Q(k) \subseteq R[k]
                      /\ M(k + 1) = R[k] \cup Beside(t, R[k])
           Start(k) == /\ Searched(t, M(k), Q(k)) /\ R[k] \subseteq M(k) \cup Q(k) /\ Q(k) \subseteq R[k]
                       /\ M(k) \subseteq R[k] \cup Beside(t, R[k])
           T == {k \in Nat : Start(k)}
<1>5. ASSUME NEW k \in Nat, Start(k)
      PROVE  M(k + 1) = R[k] \cup Beside(t, R[k]) /\ Start(k + 1)
  <2>1. /\ M(k) \cup Q(k) \subseteq M(k + 1)
        /\ M(k + 1) \subseteq M(k) \cup Q(k) \cup Beside(t, Q(k))
        /\ Q(k + 1) \subseteq Importers(t, Q(k))
        /\ Searched(t, M(k + 1), Q(k + 1))
    BY <1>3, <1>5
  <2>2. R[k] \subseteq M(k + 1)
    BY <1>5, <2>1
  <2>3. Beside(t, R[k]) \subseteq M(k + 1)
    BY <2>1, <2>2 DEF Searched, Beside
  <2>4. Beside(t, Q(k)) \subseteq Beside(t, R[k]) /\ Importers(t, Q(k)) \subseteq Importers(t, R[k])
    BY <1>5 DEF Beside, Importers
  <2>5. M(k + 1) = R[k] \cup Beside(t, R[k])
    BY <1>5, <2>1, <2>2, <2>3, <2>4
  <2>6. R[k + 1] = R[k] \cup Importers(t, R[k])
    BY <1>2
  <2>7. Importers(t, R[k]) \subseteq M(k + 1) \cup Q(k + 1)
    BY <2>1, <2>2 DEF Searched, Importers
  <2>8. Beside(t, R[k]) \subseteq Beside(t, R[k + 1])
    BY <2>6 DEF Beside
  <2> QED BY <2>1, <2>2, <2>4, <2>5, <2>6, <2>7, <2>8
<1>6. 0 \in T
  <2>1. Searched(t, {}, S)
    BY DEF Searched
  <2> QED BY <1>2, <1>4, <2>1
<1>7. \A k \in Nat : k \in T => k + 1 \in T
  BY <1>5
<1>8. n \in T
  <2> HIDE DEF T
  <2>1. Nat \subseteq T
    BY <1>6, <1>7, Induct
  <2> QED BY <2>1
<1>9. M(n + 1) = R[n] \cup Beside(t, R[n])
  BY <1>5, <1>8
<1> QED BY <1>9 DEF M

LEMMA LevelsExact ==
    ASSUME NEW t, IsTree(t), NEW S, NEW queue \in Seq(S), ToSet(queue) = S, NEW n \in Nat
    PROVE  Levels(t, n + 1, queue) = Reach(t, S, n) \cup Beside(t, Reach(t, S, n))
<1>1. PICK at \in [Nat -> Search(Met(t, S))] : GoesThrough(t, queue, at)
  BY LevelsRounds
<1>2. at[0].marked = {} /\ at[0].next = queue
  BY <1>1 DEF GoesThrough
<1>3. /\ \A k \in Nat : at[k + 1] = Level(t, at[k].next, at[k].marked)
      /\ \A k \in Nat : Levels(t, k, queue) = at[k].marked
  BY <1>1 DEF GoesThrough
<1> DEFINE R == [k \in Nat |-> Reach(t, S, k)]
<1>4. Grows(t, S, R)
  BY ReachGrows
<1>5. R[n] = Reach(t, S, n) /\ n + 1 \in Nat
  OBVIOUS
<1> HIDE DEF R
<1>6. Descends(t, S, at)
  BY <1>2, <1>3 DEF Descends
<1>7. Marks(t, R, at)
  BY <1>4, <1>6, LevelsMark
<1>8. at[n + 1].marked = R[n] \cup Beside(t, R[n])
  BY <1>7 DEF Marks
<1> QED BY <1>3, <1>5, <1>8, Zenon

LEMMA AffectedIsExact ==
    ASSUME NEW t, IsTree(t), NEW inputs, IsFiniteSet(inputs), NEW depth \in Int
    PROVE  AffectedExact(t, inputs, depth)
<1> DEFINE S == {f \in inputs : f.inside}
           queue == SetToSeq(S)
           n == clampedDepth(depth) - 1
<1>1. IsFiniteSet(S)
  BY FS_Subset
<1>2. clampedDepth(depth) \in Nat /\ n \in Nat /\ n + 1 = clampedDepth(depth)
  BY LimitAssumption DEF clampedDepth
<1> HIDE DEF S
<1>3. queue \in Seq(S) /\ ToSet(queue) = S
  BY <1>1, SomeList
<1> HIDE DEF queue, n
<1>4. Levels(t, n + 1, queue) = Reach(t, S, n) \cup Beside(t, Reach(t, S, n))
  BY <1>2, <1>3, LevelsExact
<1>5. ToolAffected(t, inputs, depth) = {f \in Levels(t, n + 1, queue) : f.test}
  BY <1>2 DEF ToolAffected, queue, S
<1>6. AffectedExact(t, inputs, depth) <=>
        ToolAffected(t, inputs, depth) = {f \in Reach(t, S, n) \cup Beside(t, Reach(t, S, n)) : f.test}
  BY DEF AffectedExact, Beside, S, n
<1> QED BY <1>4, <1>5, <1>6

-----------------------------------------------------------------------------
(* Impact.                                                                 *)

LEMMA ListOf ==
    ASSUME NEW S, NEW n \in Nat, NEW f \in [1 .. n -> S]
    PROVE  f \in Seq(S) /\ Len(f) = n
OBVIOUS

LEMMA Wider ==
    ASSUME NEW S, NEW T, S \subseteq T, NEW f \in Seq(S)
    PROVE  f \in Seq(T)
<1>1. \A i \in 1 .. Len(f) : f[i] \in T
  OBVIOUS
<1> QED BY <1>1

\* c is b behind a.
Joins(S, a, b, c) ==
    /\ c \in Seq(S) /\ Len(c) = Len(a) + Len(b)
    /\ \A i \in 1 .. Len(a) : c[i] = a[i]
    /\ \A i \in 1 .. Len(b) : c[Len(a) + i] = b[i]
LEMMA JoinedAt == \A S : \A a, b \in Seq(S) : Joins(S, a, b, a \o b)
BY DEF Joins

\* A queue of nodes at a distance from the first ones.
Queue(g, q) == /\ Len(q) \in Nat /\ DOMAIN q = 1 .. Len(q)
               /\ \A i \in DOMAIN q : q[i].id \in DOMAIN g.node /\ q[i].d \in Nat
Waiting(g) == [id : DOMAIN g.node, d : Nat]
Impact(g)  == [queue : Seq(Waiting(g)), visited : SUBSET DOMAIN g.node, files : Seq(Nat)]
Callers(g, X) == {e.src : e \in Into(g, X)}
Ids(q) == {q[i].id : i \in DOMAIN q}

\* No node waits twice, and the queue is in the order of distance, which
\* differs by one at most.
Ranked(q) == \A i, j \in DOMAIN q : /\ q[i].id = q[j].id => i = j
                                    /\ i <= j => q[i].d <= q[j].d /\ q[j].d <= q[i].d + 1

\* q1 is q without its head and with new behind, one call further than it.
Follows(q, new, q1) ==
    /\ Len(q1) = Len(q) - 1 + Len(new)
    /\ \A i \in 1 .. Len(q) - 1 : q1[i] = q[i + 1]
    /\ \A i \in 1 .. Len(new) : q1[Len(q) - 1 + i].id = new[i] /\ q1[Len(q) - 1 + i].d = q[1].d + 1

LEMMA QueueMoves ==
    ASSUME NEW g, NEW q, Queue(g, q), Len(q) # 0, NEW q1, Queue(g, q1),
           NEW new \in Seq(DOMAIN g.node), IsInjective(new), Follows(q, new, q1),
           Ranked(q), ToSet(new) \cap Ids(q) = {}
    PROVE  /\ Ranked(q1) /\ Ids(q1) = (Ids(q) \ {q[1].id}) \cup ToSet(new)
           /\ \A i \in DOMAIN q1 : \/ \E j \in DOMAIN q : q1[i] = q[j]
                                   \/ q1[i].id \in ToSet(new) /\ q1[i].d = q[1].d + 1
<1> DEFINE n == Len(q)
           m == Len(new)
           d0 == q[1].d
<1>1. /\ DOMAIN q = 1 .. n /\ n \in Nat /\ n # 0 /\ DOMAIN new = 1 .. m /\ m \in Nat
      /\ DOMAIN q1 = 1 .. Len(q1) /\ Len(q1) \in Nat
  BY DEF Queue
<1>3. /\ Len(q1) = n - 1 + m /\ \A i \in 1 .. n - 1 : q1[i] = q[i + 1]
      /\ \A i \in 1 .. m : q1[n - 1 + i].id = new[i] /\ q1[n - 1 + i].d = d0 + 1
  BY DEF Follows
<1>4. \A i, j \in DOMAIN new : new[i] = new[j] => i = j
  BY DEF IsInjective
<1>5. \A i \in DOMAIN q : q[i].d \in Nat
  BY DEF Queue
<1>6. /\ \A i, j \in DOMAIN q : q[i].id = q[j].id => i = j
      /\ \A i, j \in DOMAIN q : i <= j => q[i].d <= q[j].d /\ q[j].d <= q[i].d + 1
  BY DEF Ranked
<1>7. \A i \in DOMAIN q, j \in DOMAIN new : q[i].id # new[j]
  BY DEF Ids, ToSet
<1> DEFINE Old(i) == i \in 1 .. n - 1 /\ i + 1 \in DOMAIN q /\ q1[i] = q[i + 1]
           New(i) == i - (n - 1) \in DOMAIN new /\ q1[i].id = new[i - (n - 1)] /\ q1[i].d = d0 + 1
<1>8. ASSUME NEW i \in DOMAIN q1 PROVE IF i <= n - 1 THEN Old(i) ELSE New(i)
  <2>1. CASE i <= n - 1
    BY <1>1, <1>3, <2>1
  <2>2. CASE i > n - 1
    <3> DEFINE k == i - (n - 1)
    <3>1. k \in 1 .. m /\ n - 1 + k = i
      BY <1>1, <1>3, <2>2
    <3> HIDE DEF k
    <3>2. q1[i].id = new[k] /\ q1[i].d = d0 + 1
      BY <1>3, <3>1
    <3> QED BY <1>1, <2>2, <3>1, <3>2 DEF k
  <2> QED BY <1>1, <2>1, <2>2
<1>9. 1 \in DOMAIN q /\ \A i \in DOMAIN q : d0 <= q[i].d /\ q[i].d <= d0 + 1
  BY <1>1, <1>6
<1>0. n - 1 \in Nat
  BY <1>1
<1> HIDE DEF n, m, d0
<1>10. Ranked(q1)
  <2> SUFFICES ASSUME NEW i \in DOMAIN q1, NEW j \in DOMAIN q1
               PROVE  /\ q1[i].id = q1[j].id => i = j
                      /\ i <= j => q1[i].d <= q1[j].d /\ q1[j].d <= q1[i].d + 1
    BY DEF Ranked
  <2>1. i \in Nat /\ j \in Nat
    BY <1>1
  <2>2. CASE i <= n - 1 /\ j <= n - 1
    <3>1. Old(i) /\ Old(j)
      BY <1>8, <2>2
    <3>2. q[i + 1].id = q[j + 1].id => i + 1 = j + 1
      BY <1>6, <3>1
    <3>3. i <= j => q[i + 1].d <= q[j + 1].d /\ q[j + 1].d <= q[i + 1].d + 1
      BY <1>6, <2>1, <3>1
    <3> QED BY <2>1, <3>1, <3>2, <3>3
  <2>3. CASE i <= n - 1 /\ ~(j <= n - 1)
    <3>1. Old(i) /\ New(j)
      BY <1>8, <2>3
    <3>2. q1[i].id # q1[j].id
      BY <1>7, <3>1
    <3>3. d0 <= q[i + 1].d /\ q[i + 1].d <= d0 + 1 /\ q[i + 1].d \in Nat /\ d0 \in Nat
      BY <1>5, <1>9, <3>1 DEF d0
    <3> QED BY <3>1, <3>2, <3>3
  <2>4. CASE ~(i <= n - 1) /\ j <= n - 1
    <3>1. New(i) /\ Old(j)
      BY <1>8, <2>4
    <3>2. q1[i].id # q1[j].id
      BY <1>7, <3>1
    <3>3. ~(i <= j)
      BY <1>0, <2>1, <2>4
    <3> QED BY <3>2, <3>3
  <2>5. CASE ~(i <= n - 1) /\ ~(j <= n - 1)
    <3>1. New(i) /\ New(j)
      BY <1>8, <2>5
    <3>2. new[i - (n - 1)] = new[j - (n - 1)] => i - (n - 1) = j - (n - 1)
      BY <1>4, <3>1
    <3>3. q1[i].id = q1[j].id => i = j
      BY <1>0, <2>1, <3>1, <3>2
    <3>4. d0 \in Nat
      BY <1>5, <1>9 DEF d0
    <3> QED BY <3>1, <3>3, <3>4
  <2> QED BY <2>2, <2>3, <2>4, <2>5
<1>11. \A i \in DOMAIN q1 : \/ \E j \in DOMAIN q : q1[i] = q[j]
                            \/ q1[i].id \in ToSet(new) /\ q1[i].d = d0 + 1
  BY <1>8 DEF ToSet
<1>12. Ids(q1) = (Ids(q) \ {q[1].id}) \cup ToSet(new)
  <2>1. ASSUME NEW i \in DOMAIN q1 PROVE q1[i].id \in (Ids(q) \ {q[1].id}) \cup ToSet(new)
    <3>1. CASE i <= n - 1
      <4>1. Old(i)
        BY <1>8, <3>1
      <4>2. i + 1 # 1
        BY <1>1, <3>1
      <4>3. q[i + 1].id # q[1].id
        BY <1>6, <1>9, <4>1, <4>2
      <4> QED BY <4>1, <4>3 DEF Ids
    <3>2. CASE ~(i <= n - 1)
      BY <1>8, <3>2 DEF ToSet
    <3> QED BY <3>1, <3>2
  <2>2. ASSUME NEW j \in DOMAIN q, q[j].id # q[1].id PROVE q[j].id \in Ids(q1)
    <3>1. j # 1
      BY <2>2
    <3>2. j - 1 \in 1 .. n - 1 /\ j - 1 \in DOMAIN q1 /\ (j - 1) + 1 = j
      BY <1>1, <1>3, <3>1
    <3>3. q1[j - 1] = q[j]
      BY <1>3, <3>2
    <3> QED BY <3>2, <3>3 DEF Ids
  <2>3. ASSUME NEW j \in DOMAIN new PROVE new[j] \in Ids(q1)
    <3>1. n - 1 + j \in DOMAIN q1 /\ j \in 1 .. m
      BY <1>1, <1>3
    <3> DEFINE i == n - 1 + j
    <3>2. i \in DOMAIN q1 /\ q1[i].id = new[j]
      BY <1>3, <3>1
    <3> HIDE DEF i
    <3> QED BY <3>2 DEF Ids
  <2>4. Ids(q1) \subseteq (Ids(q) \ {q[1].id}) \cup ToSet(new)
    BY <2>1 DEF Ids
  <2>5. (Ids(q) \ {q[1].id}) \subseteq Ids(q1)
    BY <2>2 DEF Ids
  <2>6. ToSet(new) \subseteq Ids(q1)
    BY <2>3 DEF ToSet
  <2> QED BY <2>4, <2>5, <2>6
<1> QED BY <1>10, <1>11, <1>12 DEF d0

\* One round: the nodes from behind the head that were not met go to the end
\* of the queue.
Moved(g, from, q, met, q1, met1) ==
    /\ Queue(g, q1) /\ met1 = met \cup from /\ met1 \subseteq DOMAIN g.node
    /\ \E new \in Seq(DOMAIN g.node) : IsInjective(new) /\ ToSet(new) = from \ met /\ Follows(q, new, q1)

LEMMA QueueType == \A g : \A q \in Seq(Waiting(g)) : Queue(g, q) /\ (q # <<>> <=> Len(q) # 0)
<1> SUFFICES ASSUME NEW g, NEW q \in Seq(Waiting(g)) PROVE Queue(g, q) /\ (q # <<>> <=> Len(q) # 0)
  OBVIOUS
<1>1. Len(q) \in Nat /\ DOMAIN q = 1 .. Len(q) /\ (q # <<>> <=> Len(q) # 0) /\ \A i \in DOMAIN q : q[i] \in Waiting(g)
  OBVIOUS
<1> QED BY <1>1 DEF Queue, Waiting

\* The nodes to look at behind the head of the queue.
Behind(g, depth, q) == IF q[1].d < depth THEN Callers(g, {q[1].id}) ELSE {}

LEMMA RoundMoves ==
    ASSUME NEW g, IsIndex(g), NEW depth \in Nat, NEW s \in Impact(g), s.queue # <<>>
    PROVE  LET from  == Behind(g, depth, s.queue)
               after == ImpactRound(g, depth, s)
           IN  /\ Moved(g, from, s.queue, s.visited, after.queue, after.visited) /\ after \in Impact(g)
               /\ ToSet(after.files) = ToSet(s.files) \cup {g.node[x].file : x \in from}
<1> DEFINE q == s.queue
           cur == q[1]
           from == IF cur.d < depth THEN Callers(g, {cur.id}) ELSE {}
           rows == IF cur.d < depth THEN GetCallersWithKind(g, cur.id) ELSE <<>>
           ids == {rows[k].id : k \in DOMAIN rows}
           files == [k \in DOMAIN rows |-> rows[k].file]
           new == Ascending(ids \ s.visited)
           more == [k \in DOMAIN new |-> [id |-> new[k], d |-> cur.d + 1]]
           after == ImpactRound(g, depth, s)
<1>1. q \in Seq(Waiting(g)) /\ s.visited \in SUBSET DOMAIN g.node /\ s.files \in Seq(Nat)
  BY DEF Impact
<1>2. Head(q) = cur /\ cur.id \in DOMAIN g.node /\ cur.d \in Nat
  <2>1. q # <<>>
    OBVIOUS
  <2> HIDE DEF q
  <2>2. Len(q) \in Nat /\ Len(q) # 0 /\ 1 \in 1 .. Len(q)
    BY <1>1, <2>1
  <2>3. cur \in Waiting(g)
    BY <1>1, <2>2
  <2> QED BY <2>3 DEF Waiting
<1>3. DOMAIN rows = 1 .. Len(rows) /\ Len(rows) \in Nat
      /\ ToSet(rows) = IF cur.d < depth THEN {CallerRow(g, e) : e \in Into(g, {cur.id})} ELSE {}
  <2>1. CASE cur.d < depth
    <3> DEFINE r == GetCallersWithKind(g, cur.id)
    <3>1. /\ r \in Seq({CallerRow(g, e) : e \in g.edges}) /\ DOMAIN r = 1 .. Len(r)
          /\ ToSet(r) = {CallerRow(g, e) : e \in Into(g, {cur.id})}
      BY CallerRows
    <3>2. rows = r
      BY <2>1
    <3> HIDE DEF r, rows
    <3>3. Len(r) \in Nat
      BY <3>1
    <3>4. (IF cur.d < depth THEN {CallerRow(g, e) : e \in Into(g, {cur.id})} ELSE {}) = {CallerRow(g, e) : e \in Into(g, {cur.id})}
      BY <2>1
    <3> QED BY <3>1, <3>2, <3>3, <3>4
  <2>2. CASE ~(cur.d < depth)
    <3>1. rows = <<>>
      BY <2>2
    <3> HIDE DEF rows
    <3> QED BY <2>2, <3>1 DEF ToSet
  <2> QED BY <2>1, <2>2
<1> HIDE DEF rows
<1>4. \A I : /\ {x.id : x \in {CallerRow(g, e) : e \in I}} = {e.src : e \in I}
             /\ {x.file : x \in {CallerRow(g, e) : e \in I}} = {g.node[x].file : x \in {e.src : e \in I}}
  <2> SUFFICES ASSUME NEW I
               PROVE  /\ {x.id : x \in {CallerRow(g, e) : e \in I}} = {e.src : e \in I}
                      /\ {x.file : x \in {CallerRow(g, e) : e \in I}} = {g.node[x].file : x \in {e.src : e \in I}}
    OBVIOUS
  <2>1. \A e : CallerRow(g, e).id = e.src /\ CallerRow(g, e).file = g.node[e.src].file
    BY DEF CallerRow, GraphHit
  <2> DEFINE R == {CallerRow(g, e) : e \in I}
             X == {e.src : e \in I}
  <2>2. (\A e \in I : CallerRow(g, e) \in R) /\ \A x \in R : \E e \in I : x = CallerRow(g, e)
    OBVIOUS
  <2>3. (\A e \in I : e.src \in X) /\ \A x \in X : \E e \in I : x = e.src
    OBVIOUS
  <2> HIDE DEF R, X
  <2>4. \A y : y \in {x.id : x \in R} <=> y \in X
    BY <2>1, <2>2, <2>3
  <2>5. \A y : y \in {x.file : x \in R} <=> \E e \in I : y = g.node[e.src].file
    BY <2>1, <2>2
  <2>6. \A y : y \in {g.node[x].file : x \in X} <=> \E e \in I : y = g.node[e.src].file
    BY <2>3
  <2>7. {x.id : x \in R} = X /\ {x.file : x \in R} = {g.node[x].file : x \in X}
    BY <2>4, <2>5, <2>6
  <2> QED BY <2>7 DEF R, X
<1>5. ids = {x.id : x \in ToSet(rows)} /\ {rows[k].file : k \in DOMAIN rows} = {x.file : x \in ToSet(rows)}
  BY DEF ToSet
<1> DEFINE I == IF cur.d < depth THEN Into(g, {cur.id}) ELSE {}
<1>6. from = {e.src : e \in I} /\ ToSet(rows) = {CallerRow(g, e) : e \in I}
  BY <1>3 DEF Callers
<1> HIDE DEF I, ids, from
<1>7. ids = from /\ {rows[k].file : k \in DOMAIN rows} = {g.node[x].file : x \in from}
  BY <1>4, <1>5, <1>6
<1>8. from \subseteq DOMAIN g.node
  BY <1>6 DEF I, Into, IsIndex
<1>9. new \in Seq(DOMAIN g.node) /\ IsInjective(new) /\ ToSet(new) = from \ s.visited /\ DOMAIN new = 1 .. Len(new)
  <2> DEFINE X == from \ s.visited
  <2>1. X \in SUBSET Nat /\ IsFiniteSet(X) /\ X \subseteq DOMAIN g.node
    BY <1>8, FS_Subset DEF IsIndex
  <2>2. new = Ascending(X)
    BY <1>7
  <2> HIDE DEF X, new
  <2>3. new \in Seq(X) /\ IsInjective(new) /\ ToSet(new) = X /\ DOMAIN new = 1 .. Len(new)
    BY <2>1, <2>2, AscendingLists
  <2>4. new \in Seq(DOMAIN g.node)
    BY <2>1, <2>3, Wider
  <2> QED BY <2>3, <2>4 DEF X
<1> HIDE DEF new
<1>10. Len(new) \in Nat /\ \A k \in DOMAIN new : new[k] \in DOMAIN g.node
  BY <1>9
<1>11. more \in Seq(Waiting(g)) /\ Len(more) = Len(new) /\ \A k \in 1 .. Len(new) : more[k] = [id |-> new[k], d |-> cur.d + 1]
  <2>1. more \in [1 .. Len(new) -> Waiting(g)] /\ \A k \in 1 .. Len(new) : more[k] = [id |-> new[k], d |-> cur.d + 1]
    BY <1>2, <1>9, <1>10 DEF Waiting
  <2> HIDE DEF more
  <2> QED BY <1>10, <2>1
<1>12. files \in Seq(Nat) /\ ToSet(files) = {g.node[x].file : x \in from}
  <2>1. \A x \in from : g.node[x].file \in Nat
    BY <1>8 DEF IsIndex
  <2>2. \A k \in DOMAIN rows : rows[k].file \in Nat
    BY <1>7, <2>1
  <2>3. files \in [1 .. Len(rows) -> Nat] /\ ToSet(files) = {rows[k].file : k \in DOMAIN rows}
    BY <1>3, <2>2 DEF ToSet
  <2> HIDE DEF files
  <2>4. files \in Seq(Nat)
    BY <1>3, <2>3, ListOf
  <2> QED BY <1>7, <2>3, <2>4
<1>13. after = [queue |-> Tail(q) \o more, visited |-> s.visited \cup ToSet(new), files |-> s.files \o files]
  BY <1>2 DEF ImpactRound, rows, ids, new
<1> HIDE DEF after, more, files, cur, q
<1> DEFINE q1 == Tail(q) \o more
<1>14. q1 \in Seq(Waiting(g)) /\ Follows(q, new, q1)
  <2>1. q # <<>> /\ Len(q) \in Nat /\ Len(q) # 0
    BY <1>1 DEF q
  <2>2. Tail(q) \in Seq(Waiting(g)) /\ Len(Tail(q)) = Len(q) - 1 /\ \A i \in 1 .. Len(q) - 1 : Tail(q)[i] = q[i + 1]
    BY <1>1, <2>1
  <2> DEFINE rest == Tail(q)
  <2> HIDE DEF rest
  <2>3. rest \in Seq(Waiting(g)) /\ Len(rest) = Len(q) - 1 /\ \A i \in 1 .. Len(q) - 1 : rest[i] = q[i + 1]
    BY <2>2 DEF rest
  <2> DEFINE both == rest \o more
  <2>4. /\ both \in Seq(Waiting(g)) /\ Len(both) = Len(rest) + Len(more)
        /\ \A i \in 1 .. Len(rest) : both[i] = rest[i]
        /\ \A i \in 1 .. Len(more) : both[Len(rest) + i] = more[i]
    <3>1. more \in Seq(Waiting(g)) /\ rest \in Seq(Waiting(g))
      BY <1>11, <2>3
    <3>2. Joins(Waiting(g), rest, more, both)
      BY <3>1, JoinedAt
    <3> HIDE DEF both
    <3> QED BY <3>2 DEF Joins
  <2>5. both = q1
    BY DEF rest
  <2> HIDE DEF both, q1
  <2>6. Follows(q, new, both)
    <3>1. Len(both) = Len(q) - 1 + Len(new)
      BY <1>11, <2>3, <2>4
    <3>2. \A i \in 1 .. Len(q) - 1 : both[i] = q[i + 1]
      BY <2>3, <2>4
    <3>3. ASSUME NEW i \in 1 .. Len(new) PROVE both[Len(q) - 1 + i].id = new[i] /\ both[Len(q) - 1 + i].d = q[1].d + 1
      <4>1. both[Len(q) - 1 + i] = more[i]
        BY <1>11, <2>3, <2>4
      <4>2. more[i] = [id |-> new[i], d |-> cur.d + 1]
        BY <1>11, <2>3
      <4> QED BY <4>1, <4>2 DEF cur
    <3> QED BY <3>1, <3>2, <3>3 DEF Follows
  <2> QED BY <2>4, <2>5, <2>6
<1> DEFINE f1 == s.files \o files
<1>15. f1 \in Seq(Nat) /\ ToSet(f1) = ToSet(s.files) \cup {g.node[x].file : x \in from}
  BY <1>1, <1>12, Joined
<1> HIDE DEF q1, f1
<1>16. after.queue = q1 /\ after.files = f1 /\ after.visited = s.visited \cup from
  <2>1. after = [queue |-> q1, visited |-> s.visited \cup ToSet(new), files |-> f1]
    BY <1>13 DEF q1, f1
  <2>2. s.visited \cup ToSet(new) = s.visited \cup from
    BY <1>9
  <2> QED BY <2>1, <2>2
<1>17. after \in Impact(g)
  <2>1. s.visited \cup ToSet(new) \in SUBSET DOMAIN g.node
    BY <1>1, <1>8, <1>9
  <2>2. after = [queue |-> q1, visited |-> s.visited \cup ToSet(new), files |-> f1]
    BY <1>13 DEF q1, f1
  <2> QED BY <1>14, <1>15, <2>1, <2>2 DEF Impact
<1>18. \E x \in Seq(DOMAIN g.node) : IsInjective(x) /\ ToSet(x) = from \ s.visited /\ Follows(q, x, after.queue)
  BY <1>9, <1>14, <1>16
<1>19. Queue(g, after.queue)
  BY <1>14, <1>16, QueueType
<1>20. after.visited \subseteq DOMAIN g.node
  BY <1>17 DEF Impact
<1> QED BY <1>15, <1>16, <1>17, <1>18, <1>19, <1>20 DEF Moved, Behind, q, cur, from, after

\* The nodes W within each number of calls of the nodes S.
Expands(g, S, W) == W[0] = S /\ \A k \in Nat : W[k + 1] = W[k] \cup Callers(g, W[k])

LEMMA WithinExpands == \A g, S : Expands(g, S, [k \in Nat |-> Within(g, S, k)])
<1> SUFFICES ASSUME NEW g, NEW S PROVE Expands(g, S, [k \in Nat |-> Within(g, S, k)])
  OBVIOUS
<1> DEFINE W == [k \in Nat |-> Within(g, S, k)]
<1>1. W[0] = S
  BY WithinRounds
<1>2. ASSUME NEW k \in Nat PROVE W[k + 1] = W[k] \cup Callers(g, W[k])
  <2>1. Within(g, S, k + 1) = Within(g, S, k) \cup Callers(g, Within(g, S, k))
    <3>1. Callers(g, Within(g, S, k)) = {e.src : e \in Into(g, Within(g, S, k))}
      BY DEF Callers
    <3>2. \A n \in Nat : Within(g, S, n + 1) = Within(g, S, n) \cup {e.src : e \in Into(g, Within(g, S, n))}
      BY WithinRounds, Zenon
    <3>3. Within(g, S, k + 1) = Within(g, S, k) \cup {e.src : e \in Into(g, Within(g, S, k))}
      BY <3>2, Zenon
    <3> QED BY <3>1, <3>3
  <2>2. W[k] = Within(g, S, k) /\ W[k + 1] = Within(g, S, k + 1)
    OBVIOUS
  <2> HIDE DEF W
  <2> QED BY <2>1, <2>2
<1> HIDE DEF W
<1>3. Expands(g, S, W)
  BY <1>1, <1>2 DEF Expands
<1> QED BY <1>3 DEF W

LEMMA WithinMore ==
    ASSUME NEW g, NEW S, NEW W, Expands(g, S, W), NEW m \in Nat, NEW n \in Nat, m <= n
    PROVE  W[m] \subseteq W[n]
<1> DEFINE T == {k \in Nat : W[m] \subseteq W[m + k]}
<1>1. 0 \in T
  OBVIOUS
<1>2. ASSUME NEW k \in Nat, k \in T PROVE k + 1 \in T
  <2>1. m + k \in Nat /\ (m + k) + 1 = m + (k + 1)
    OBVIOUS
  <2>2. W[m + k] \subseteq W[m + (k + 1)]
    BY <2>1 DEF Expands
  <2> QED BY <1>2, <2>2
<1>3. n - m \in T
  <2> HIDE DEF T
  <2>1. n - m \in Nat
    OBVIOUS
  <2> QED BY <1>1, <1>2, <2>1, Induct
<1>4. m + (n - m) = n
  OBVIOUS
<1> QED BY <1>3, <1>4

\* The nodes a search that has met some has taken from its queue.
Done(q, met) == met \ Ids(q)

\* What the search knows: the distance of what waits; and it has met the
\* callers of what it has taken and searched.
Exact(q, W) == \A i \in DOMAIN q : q[i].id \in W[q[i].d] /\ \A m \in Nat : m < q[i].d => q[i].id \notin W[m]
Knows(g, depth, S, W, q, met) ==
    /\ Queue(g, q) /\ met \subseteq DOMAIN g.node /\ S \subseteq met /\ Ids(q) \subseteq met
    /\ Ranked(q) /\ Exact(q, W)
    /\ Callers(g, Done(q, met) \cap W[depth - 1]) \subseteq met

\* What is no further than the head of the queue has been met.
LEMMA MetBelow ==
    ASSUME NEW g, NEW depth \in Nat \ {0}, NEW S, NEW W, Expands(g, S, W), NEW q, NEW met, Knows(g, depth, S, W, q, met),
           NEW d \in Nat, d <= depth, Len(q) = 0 \/ d <= q[1].d
    PROVE  W[d] \subseteq met
<1> DEFINE T == {k \in Nat : k <= d => W[k] \subseteq met}
<1>1. Queue(g, q)
  BY DEF Knows
<1>2. 0 \in T
  BY DEF Expands, Knows
<1>3. ASSUME NEW k \in Nat, k \in T PROVE k + 1 \in T
  <2> SUFFICES ASSUME k + 1 <= d PROVE W[k + 1] \subseteq met
    OBVIOUS
  <2>1. W[k] \subseteq met
    BY <1>3
  <2>2. W[k] \cap Ids(q) = {}
    <3> SUFFICES ASSUME NEW i \in DOMAIN q PROVE q[i].id \notin W[k]
      BY DEF Ids
    <3>1. Len(q) # 0 /\ 1 \in DOMAIN q /\ 1 <= i /\ q[i].d \in Nat /\ q[1].d \in Nat
      BY <1>1 DEF Queue
    <3>2. d <= q[1].d
      BY <3>1
    <3>3. q[1].d <= q[i].d
      BY <3>1 DEF Knows, Ranked
    <3>4. k < q[i].d
      BY <3>1, <3>2, <3>3
    <3> QED BY <3>4 DEF Knows, Exact
  <2>3. k <= depth - 1 /\ depth - 1 \in Nat
    OBVIOUS
  <2>4. W[k] \subseteq W[depth - 1]
    BY <2>3, WithinMore
  <2>5. W[k] \subseteq Done(q, met) \cap W[depth - 1]
    BY <2>1, <2>2, <2>4 DEF Done
  <2>6. Callers(g, W[k]) \subseteq Callers(g, Done(q, met) \cap W[depth - 1])
    BY <2>5 DEF Callers, Into
  <2>7. Callers(g, Done(q, met) \cap W[depth - 1]) \subseteq met
    BY DEF Knows
  <2>8. W[k + 1] = W[k] \cup Callers(g, W[k])
    BY DEF Expands
  <2> QED BY <2>1, <2>6, <2>7, <2>8
<1>4. d \in T
  <2> HIDE DEF T
  <2> QED BY <1>2, <1>3, Induct
<1> QED BY <1>4

LEMMA CallersJoin == \A g, X, Y : Callers(g, X \cup Y) = Callers(g, X) \cup Callers(g, Y)
BY DEF Callers, Into

\* A round of a search, which an empty queue ends.
Advances(g, depth, q, met, q1, met1) ==
    IF Len(q) = 0 THEN q1 = q /\ met1 = met ELSE Moved(g, Behind(g, depth, q), q, met, q1, met1)
\* It takes the head, and what it meets is one call further.
Away(W, d, x) == x \in W[d] /\ \A m \in Nat : m < d => x \notin W[m]
Takes(g, depth, W, q, met, q1, met1) ==
    /\ Done(q1, met1) = Done(q, met) \cup {q[1].id} /\ q[1].id \in met \ Done(q, met)
    /\ q[1].d \in Nat /\ Away(W, q[1].d, q[1].id)
    /\ Callers(g, Done(q1, met1) \cap W[depth - 1]) = Callers(g, Done(q, met) \cap W[depth - 1]) \cup Behind(g, depth, q)
    /\ \A x \in met1 \ met : x \in Behind(g, depth, q) /\ q[1].d < depth /\ Away(W, q[1].d + 1, x)

\* A round keeps what the search knows, and takes one more node.
LEMMA RoundKnows ==
    ASSUME NEW g, NEW depth \in Nat \ {0}, NEW S, NEW W, Expands(g, S, W),
           NEW q, NEW met, Knows(g, depth, S, W, q, met), Len(q) # 0, NEW q1, NEW met1, Advances(g, depth, q, met, q1, met1)
    PROVE  Knows(g, depth, S, W, q1, met1) /\ Takes(g, depth, W, q, met, q1, met1)
<1> DEFINE cur == q[1]
           from == IF cur.d < depth THEN Callers(g, {cur.id}) ELSE {}
           P == Done(q, met) \cap W[depth - 1]
<1>0. /\ Queue(g, q) /\ depth \in Nat
      /\ S \subseteq met /\ Ids(q) \subseteq met /\ Ranked(q) /\ Exact(q, W)
      /\ Callers(g, P) \subseteq met
  BY DEF Knows
<1>1. Moved(g, from, q, met, q1, met1)
  BY DEF Advances, Behind
<1>2. met1 = met \cup from /\ met1 \subseteq DOMAIN g.node /\ Queue(g, q1)
  BY <1>1 DEF Moved
<1>3. PICK new \in Seq(DOMAIN g.node) : IsInjective(new) /\ ToSet(new) = from \ met /\ Follows(q, new, q1)
  BY <1>1 DEF Moved
<1>5. 1 \in DOMAIN q /\ cur.id \in DOMAIN g.node /\ cur.d \in Nat
  BY <1>0 DEF Queue
<1>6. cur.id \in Ids(q) /\ cur.d \in Nat
  BY <1>5 DEF Ids
<1> HIDE DEF P, from
<1>7. ToSet(new) \cap Ids(q) = {}
  BY <1>0, <1>3
<1>8. /\ Ranked(q1) /\ Ids(q1) = (Ids(q) \ {cur.id}) \cup ToSet(new)
      /\ \A i \in DOMAIN q1 : \/ \E j \in DOMAIN q : q1[i] = q[j]
                              \/ q1[i].id \in ToSet(new) /\ q1[i].d = cur.d + 1
  BY <1>0, <1>2, <1>3, <1>7, QueueMoves
<1>9. Done(q1, met1) = Done(q, met) \cup {cur.id} /\ cur.id \in met \ Done(q, met)
  <2>1. Done(q1, met1) = (met \cup from) \ Ids(q1) /\ Done(q, met) = met \ Ids(q)
    BY <1>2 DEF Done
  <2> HIDE DEF cur
  <2> QED BY <1>0, <1>3, <1>6, <1>8, <2>1
<1>10. cur.id \in W[cur.d] /\ \A m \in Nat : m < cur.d => cur.id \notin W[m]
  BY <1>0, <1>5 DEF Exact
<1>11. ASSUME NEW x \in from \ met PROVE cur.d < depth /\ x \in W[cur.d + 1] /\ \A m \in Nat : m < cur.d + 1 => x \notin W[m]
  <2>1. cur.d < depth /\ from = Callers(g, {cur.id})
    BY <1>11 DEF from
  <2>2. from \subseteq W[cur.d + 1]
    <3>1. Callers(g, {cur.id}) \subseteq Callers(g, W[cur.d])
      BY <1>10 DEF Callers, Into
    <3>2. W[cur.d + 1] = W[cur.d] \cup Callers(g, W[cur.d])
      BY <1>6 DEF Expands
    <3> QED BY <2>1, <3>1, <3>2
  <2>3. W[cur.d] \subseteq met
    <3> DEFINE d == cur.d
    <3>1. d \in Nat /\ d <= depth /\ (Len(q) = 0 \/ d <= q[1].d)
      BY <1>6, <2>1
    <3> HIDE DEF d
    <3>2. W[d] \subseteq met
      BY <3>1, MetBelow
    <3> QED BY <3>2 DEF d
  <2>4. ASSUME NEW m \in Nat, m < cur.d + 1 PROVE W[m] \subseteq met
    <3>1. m <= cur.d
      BY <1>6, <2>4
    <3>2. W[m] \subseteq W[cur.d]
      BY <1>6, <3>1, WithinMore
    <3> QED BY <2>3, <3>2
  <2> QED BY <1>11, <2>1, <2>2, <2>4
<1>12. Exact(q1, W)
  <2> SUFFICES ASSUME NEW i \in DOMAIN q1
               PROVE  q1[i].id \in W[q1[i].d] /\ \A m \in Nat : m < q1[i].d => q1[i].id \notin W[m]
    BY DEF Exact
  <2>1. CASE \E j \in DOMAIN q : q1[i] = q[j]
    BY <1>0, <2>1 DEF Exact
  <2>2. CASE q1[i].id \in ToSet(new) /\ q1[i].d = cur.d + 1
    <3> HIDE DEF cur
    <3> QED BY <1>3, <1>11, <2>2
  <2> QED BY <1>8, <2>1, <2>2
<1> DEFINE P1 == Done(q1, met1) \cap W[depth - 1]
<1>13. Callers(g, P1) = Callers(g, P) \cup from
  <2>1. CASE cur.d < depth
    <3>1. cur.d <= depth - 1 /\ depth - 1 \in Nat
      BY <1>0, <1>6, <2>1
    <3>2. cur.id \in W[depth - 1]
      BY <1>6, <1>10, <3>1, WithinMore
    <3>3. P1 = P \cup {cur.id}
      BY <1>9, <3>2 DEF P
    <3> HIDE DEF P1
    <3>4. Callers(g, P1) = Callers(g, P) \cup Callers(g, {cur.id})
      BY <3>3, CallersJoin
    <3> QED BY <2>1, <3>4 DEF from
  <2>2. CASE ~(cur.d < depth)
    <3>1. depth - 1 \in Nat /\ depth - 1 < cur.d
      BY <1>0, <1>6, <2>2
    <3>2. cur.id \notin W[depth - 1]
      BY <1>10, <3>1
    <3>3. P1 = P
      BY <1>9, <3>2 DEF P
    <3>4. from = {}
      BY <2>2 DEF from
    <3> HIDE DEF P1
    <3> QED BY <3>3, <3>4
  <2> QED BY <2>1, <2>2
<1> HIDE DEF P1
<1>14. Callers(g, P1) \subseteq met1
  BY <1>0, <1>2, <1>13
<1>15. S \subseteq met1 /\ Ids(q1) \subseteq met1
  BY <1>0, <1>2, <1>3, <1>8
<1>16. Knows(g, depth, S, W, q1, met1)
  BY <1>2, <1>8, <1>12, <1>14, <1>15 DEF Knows, P1
<1>17. \A x \in met1 \ met : /\ x \in from /\ cur.d < depth /\ x \in W[cur.d + 1]
                             /\ \A m \in Nat : m < cur.d + 1 => x \notin W[m]
  BY <1>2, <1>11
<1> HIDE DEF P1
<1>18. from = Behind(g, depth, q)
  BY DEF from, Behind
<1>19. Away(W, cur.d, cur.id)
  BY <1>10 DEF Away
<1>20. \A x \in met1 \ met : x \in from /\ cur.d < depth /\ Away(W, cur.d + 1, x)
  BY <1>17 DEF Away
<1>21. Takes(g, depth, W, q, met, q1, met1)
  <2> HIDE DEF cur
  <2> QED BY <1>6, <1>9, <1>13, <1>18, <1>19, <1>20 DEF P, P1, cur, Takes
<1> QED BY <1>16, <1>21

\* A node is taken in each round, so that nothing waits after as many rounds
\* as there are nodes, and all within the depth has been met.
LEMMA SearchEnds ==
    ASSUME NEW g, IsFiniteSet(DOMAIN g.node), NEW depth \in Nat \ {0}, NEW S, NEW W, Expands(g, S, W), NEW Q, NEW M,
           Knows(g, depth, S, W, Q[0], M[0]), \A k \in Nat : Advances(g, depth, Q[k], M[k], Q[k + 1], M[k + 1])
    PROVE  LET N == Cardinality(DOMAIN g.node)
           IN  /\ \A k \in Nat : Knows(g, depth, S, W, Q[k], M[k])
               /\ Len(Q[N]) = 0 /\ Done(Q[N], M[N]) = M[N] /\ W[depth] \subseteq M[N]
<1> DEFINE N == Cardinality(DOMAIN g.node)
           D(k) == Done(Q[k], M[k])
           Good(k) == Knows(g, depth, S, W, Q[k], M[k]) /\ (Len(Q[k]) = 0 \/ Cardinality(D(k)) >= k)
           T == {k \in Nat : Good(k)}
<1>1. N \in Nat
  BY FS_CardinalityType
<1>2. ASSUME NEW k \in Nat, Knows(g, depth, S, W, Q[k], M[k])
      PROVE  D(k) \subseteq M[k] /\ M[k] \in SUBSET DOMAIN g.node /\ IsFiniteSet(D(k)) /\ Cardinality(D(k)) \in Nat
  <2>1. M[k] \in SUBSET DOMAIN g.node
    BY <1>2 DEF Knows
  <2>2. D(k) \subseteq M[k] /\ D(k) \in SUBSET DOMAIN g.node
    BY <2>1 DEF Done
  <2> HIDE DEF D
  <2> QED BY <2>1, <2>2, FS_Subset, FS_CardinalityType
<1>3. 0 \in T
  <2>1. Cardinality(D(0)) >= 0
    BY <1>2
  <2> QED BY <2>1
<1> HIDE DEF D
<1>4. ASSUME NEW k \in Nat, Good(k), Len(Q[k]) # 0
      PROVE  /\ Knows(g, depth, S, W, Q[k + 1], M[k + 1]) /\ Q[k][1].id \in M[k] \ D(k)
             /\ D(k + 1) = D(k) \cup {Q[k][1].id}
  <2> DEFINE q == Q[k]
             met == M[k]
             q1 == Q[k + 1]
             met1 == M[k + 1]
  <2>1. Advances(g, depth, q, met, q1, met1)
    OBVIOUS
  <2>2. Knows(g, depth, S, W, q, met) /\ Len(q) # 0
    BY <1>4
  <2> HIDE DEF q, met, q1, met1
  <2>3. Knows(g, depth, S, W, q1, met1) /\ Takes(g, depth, W, q, met, q1, met1)
    BY <2>1, <2>2, RoundKnows
  <2>4. q[1].id \in met \ Done(q, met) /\ Done(q1, met1) = Done(q, met) \cup {q[1].id}
    BY <2>3 DEF Takes
  <2> QED BY <2>3, <2>4 DEF q, met, q1, met1, D
<1>5. ASSUME NEW k \in Nat, k \in T PROVE k + 1 \in T
  <2>1. Good(k) /\ k + 1 \in Nat
    <3> HIDE DEF Good
    <3> QED BY <1>5
  <2>2. CASE Len(Q[k]) = 0
    <3>1. Q[k + 1] = Q[k] /\ M[k + 1] = M[k]
      BY <2>2 DEF Advances
    <3> QED BY <2>1, <2>2, <3>1
  <2>3. CASE Len(Q[k]) # 0
    <3> DEFINE x == Q[k][1].id
    <3>1. Knows(g, depth, S, W, Q[k + 1], M[k + 1]) /\ x \notin D(k) /\ D(k + 1) = D(k) \cup {x}
      BY <1>4, <2>1, <2>3
    <3>2. IsFiniteSet(D(k)) /\ Cardinality(D(k)) \in Nat /\ Cardinality(D(k)) >= k
      BY <1>2, <2>1, <2>3
    <3> HIDE DEF x
    <3>3. Cardinality(D(k + 1)) = Cardinality(D(k)) + 1
      BY <3>1, <3>2, FS_AddElement
    <3>4. Cardinality(D(k + 1)) >= k + 1
      BY <3>2, <3>3
    <3> QED BY <2>1, <3>1, <3>4
  <2> QED BY <2>2, <2>3
<1>6. \A k \in Nat : k \in T
  <2> HIDE DEF T
  <2> QED BY <1>3, <1>5, Induct
<1> HIDE DEF N
<1>7. Good(N)
  BY <1>1, <1>6
<1>8. Len(Q[N]) = 0
  <2> SUFFICES ASSUME Len(Q[N]) # 0 PROVE FALSE
    OBVIOUS
  <2>1. D(N) # M[N]
    BY <1>1, <1>4, <1>7
  <2>2. D(N) \subseteq M[N] /\ M[N] \in SUBSET DOMAIN g.node /\ Cardinality(D(N)) \in Nat /\ Cardinality(D(N)) >= N
    BY <1>1, <1>2, <1>7
  <2>3. D(N) \in SUBSET DOMAIN g.node
    BY <2>2
  <2>4. Cardinality(D(N)) <= N /\ (Cardinality(D(N)) = N => D(N) = DOMAIN g.node)
    BY <2>3, FS_Subset DEF N
  <2>5. D(N) = DOMAIN g.node
    BY <1>1, <2>2, <2>4
  <2> QED BY <2>1, <2>2, <2>5
<1>9. Knows(g, depth, S, W, Q[N], M[N])
  BY <1>7
<1>10. Done(Q[N], M[N]) = M[N]
  <2>1. DOMAIN Q[N] = {}
    BY <1>8, <1>9 DEF Knows, Queue
  <2> QED BY <2>1 DEF Done, Ids
<1>11. W[depth] \subseteq M[N]
  <2> DEFINE q == Q[N]
             met == M[N]
  <2>1. Knows(g, depth, S, W, q, met) /\ Len(q) = 0 /\ depth <= depth
    BY <1>8, <1>9
  <2> HIDE DEF q, met
  <2>2. W[depth] \subseteq met
    BY <2>1, MetBelow
  <2> QED BY <2>2 DEF met
<1>12. \A k \in Nat : Knows(g, depth, S, W, Q[k], M[k])
  BY <1>6
<1> QED BY <1>8, <1>10, <1>11, <1>12 DEF N

FirstImpact(defs) ==
    [queue |-> [i \in DOMAIN defs |-> [id |-> defs[i], d |-> 0]], visited |-> ToSet(defs), files |-> <<>>]
\* The states at of the search.
Searches(g, depth, defs, at) ==
    /\ at[0] = FirstImpact(defs) /\ \A k \in Nat : at[k + 1] = ImpactRound(g, depth, at[k])
    /\ ImpactSearch(g, depth, defs) = at[Cardinality(DOMAIN g.node)].files

LEMMA RoundType ==
    ASSUME NEW g, IsIndex(g), NEW depth \in Nat, NEW s \in Impact(g)
    PROVE  ImpactRound(g, depth, s) \in Impact(g)
<1>1. CASE s.queue = <<>>
  <2>1. ImpactRound(g, depth, s) = s
    BY <1>1 DEF ImpactRound
  <2> QED BY <2>1
<1>2. CASE s.queue # <<>>
  BY <1>2, RoundMoves
<1> QED BY <1>1, <1>2

LEMMA FirstType ==
    ASSUME NEW g, NEW defs \in Seq(DOMAIN g.node)
    PROVE  LET s == FirstImpact(defs)
           IN  s \in Impact(g) /\ DOMAIN s.queue = DOMAIN defs /\ s.visited = ToSet(defs) /\ s.files = <<>>
               /\ \A i \in DOMAIN defs : s.queue[i] = [id |-> defs[i], d |-> 0]
<1> DEFINE q == [i \in DOMAIN defs |-> [id |-> defs[i], d |-> 0]]
           n == Len(defs)
<1>1. DOMAIN defs = 1 .. n /\ n \in Nat /\ \A i \in DOMAIN defs : defs[i] \in DOMAIN g.node
  OBVIOUS
<1>2. q \in [1 .. n -> Waiting(g)] /\ \A i \in DOMAIN defs : q[i] = [id |-> defs[i], d |-> 0]
  BY <1>1 DEF Waiting
<1> HIDE DEF q, n
<1>3. q \in Seq(Waiting(g)) /\ DOMAIN q = DOMAIN defs
  BY <1>1, <1>2, ListOf
<1>4. ToSet(defs) \in SUBSET DOMAIN g.node /\ <<>> \in Seq(Nat)
  BY <1>1 DEF ToSet
<1>5. FirstImpact(defs) = [queue |-> q, visited |-> ToSet(defs), files |-> <<>>]
  BY DEF FirstImpact, q
<1> DEFINE s == FirstImpact(defs)
<1> HIDE DEF s
<1>6. s = [queue |-> q, visited |-> ToSet(defs), files |-> <<>>]
  BY <1>5 DEF s
<1>7. s \in Impact(g) /\ s.queue = q /\ s.visited = ToSet(defs) /\ s.files = <<>>
  BY <1>3, <1>4, <1>6 DEF Impact
<1> QED BY <1>2, <1>3, <1>7 DEF s

LEMMA ImpactRounds ==
    ASSUME NEW g, IsIndex(g), NEW depth \in Nat, NEW defs \in Seq(DOMAIN g.node)
    PROVE  \E at \in [Nat -> Impact(g)] : Searches(g, depth, defs, at)
<1> DEFINE States == Impact(g)
           first == FirstImpact(defs)
           R == CHOOSE R : R = [k \in Nat |-> IF k = 0 THEN first ELSE ImpactRound(g, depth, R[k - 1])]
           step == [k \in Nat |-> [x \in States |-> ImpactRound(g, depth, x)]]
<1>1. step \in [Nat -> [States -> States]] /\ first \in States
  <2>1. \A x \in States : ImpactRound(g, depth, x) \in States
    BY RoundType
  <2>2. first \in States
    BY FirstType
  <2> HIDE DEF States, first
  <2>3. [x \in States |-> ImpactRound(g, depth, x)] \in [States -> States]
    BY <2>1
  <2> QED BY <2>2, <2>3
<1>2. \A k \in Nat : \A x \in States : step[k][x] = ImpactRound(g, depth, x)
  OBVIOUS
<1> HIDE DEF step, States, first
<1>3. PICK f \in [Nat -> States] : Loops(f, first, step)
  BY <1>1, Recursion
<1>4. f[0] = first /\ \A k \in Nat : k # 0 => f[k] = ImpactRound(g, depth, f[k - 1])
  <2>1. f[0] = first
    BY <1>3 DEF Loops
  <2>2. ASSUME NEW k \in Nat, k # 0 PROVE f[k] = ImpactRound(g, depth, f[k - 1])
    <3>1. k - 1 \in Nat /\ f[k - 1] \in States /\ f[k] = step[k][f[k - 1]]
      BY <2>2, <1>3 DEF Loops
    <3> QED BY <3>1, <1>2
  <2> QED BY <2>1, <2>2
<1>5. f = [k \in Nat |-> IF k = 0 THEN first ELSE ImpactRound(g, depth, f[k - 1])]
  BY <1>4
<1>6. R = [k \in Nat |-> IF k = 0 THEN first ELSE ImpactRound(g, depth, R[k - 1])]
  BY <1>5, Zenon
<1>7. ImpactSearch(g, depth, defs) = R[Cardinality(DOMAIN g.node)].files
  BY DEF ImpactSearch, first, FirstImpact
<1> HIDE DEF R
<1>8. R[0] = first /\ \A k \in Nat : R[k + 1] = ImpactRound(g, depth, R[k])
  <2>1. R[0] = first
    BY <1>6
  <2>2. ASSUME NEW k \in Nat PROVE R[k + 1] = ImpactRound(g, depth, R[k])
    <3>1. k + 1 \in Nat /\ k + 1 # 0 /\ (k + 1) - 1 = k
      OBVIOUS
    <3>2. R[k + 1] = ImpactRound(g, depth, R[(k + 1) - 1])
      BY <3>1, <1>6
    <3> QED BY <3>1, <3>2
  <2> QED BY <2>1, <2>2
<1>9. \A k \in Nat : R[k] \in States
  <2> DEFINE T == {k \in Nat : R[k] \in States}
  <2>1. 0 \in T
    BY <1>1, <1>8
  <2>2. ASSUME NEW k \in Nat, k \in T PROVE k + 1 \in T
    <3>1. R[k] \in States /\ R[k + 1] = step[k][R[k]]
      BY <2>2, <1>2, <1>8
    <3>2. step[k][R[k]] \in States
      BY <3>1, <1>1
    <3> QED BY <3>1, <3>2
  <2>3. Nat \subseteq T
    <3> HIDE DEF T
    <3> QED BY <2>1, <2>2, Induct
  <2> QED BY <2>3
<1>10. R \in [Nat -> States]
  BY <1>6, <1>9
<1> QED BY <1>7, <1>8, <1>10 DEF Searches, States, first

LEMMA FirstKnows ==
    ASSUME NEW g, NEW depth, NEW defs \in Seq(DOMAIN g.node), IsInjective(defs), NEW W, Expands(g, ToSet(defs), W)
    PROVE  LET s == FirstImpact(defs)
           IN  Knows(g, depth, ToSet(defs), W, s.queue, s.visited) /\ Done(s.queue, s.visited) = {} /\ ToSet(s.files) = {}
<1> DEFINE s == FirstImpact(defs)
           q == s.queue
<1>1. /\ s \in Impact(g) /\ DOMAIN q = DOMAIN defs /\ s.visited = ToSet(defs) /\ s.files = <<>>
      /\ \A i \in DOMAIN defs : q[i] = [id |-> defs[i], d |-> 0]
  BY FirstType
<1> HIDE DEF s, q
<1>2. \A i \in DOMAIN q : q[i].id = defs[i] /\ q[i].d = 0
  BY <1>1
<1>3. Ids(q) = ToSet(defs)
  BY <1>1, <1>2 DEF Ids, ToSet
<1>4. Ranked(q)
  BY <1>1, <1>2 DEF Ranked, IsInjective
<1>5. Exact(q, W)
  <2>1. \A i \in DOMAIN q : defs[i] \in W[0]
    BY <1>1 DEF Expands, ToSet
  <2> QED BY <1>2, <2>1 DEF Exact
<1>6. Done(q, s.visited) = {} /\ Callers(g, Done(q, s.visited) \cap W[depth - 1]) = {}
  BY <1>1, <1>3 DEF Done, Callers, Into
<1>7. ToSet(s.files) = {}
  BY <1>1 DEF ToSet
<1>8. Queue(g, q) /\ s.visited \subseteq DOMAIN g.node
  BY <1>1, QueueType DEF Impact, q
<1> QED BY <1>1, <1>3, <1>4, <1>5, <1>6, <1>7, <1>8 DEF Knows, q, s

\* The search ends, and the files it has listed are those of the callers
\* within the depth.
LEMMA ImpactFiles ==
    ASSUME NEW g, IsIndex(g), NEW depth \in Nat \ {0}, NEW defs \in Seq(DOMAIN g.node), IsInjective(defs)
    PROVE  /\ ImpactSearch(g, depth, defs) \in Seq(Nat)
           /\ ToSet(ImpactSearch(g, depth, defs)) = {g.node[x].file : x \in Callers(g, Within(g, ToSet(defs), depth - 1))}
<1> DEFINE S == ToSet(defs)
           W == [k \in Nat |-> Within(g, S, k)]
           N == Cardinality(DOMAIN g.node)
<1>1. PICK at \in [Nat -> Impact(g)] : Searches(g, depth, defs, at)
  BY ImpactRounds
<1>2. Expands(g, S, W) /\ W[depth - 1] = Within(g, S, depth - 1)
  <2>1. Expands(g, S, W)
    BY WithinExpands
  <2> QED BY <2>1
<1> HIDE DEF S, W
<1>3. /\ at[0] = FirstImpact(defs) /\ \A k \in Nat : at[k + 1] = ImpactRound(g, depth, at[k])
      /\ ImpactSearch(g, depth, defs) = at[N].files
  BY <1>1 DEF Searches
<1>4. IsFiniteSet(DOMAIN g.node) /\ N \in Nat
  BY FS_CardinalityType DEF IsIndex
<1> HIDE DEF N
<1> DEFINE Q == [k \in Nat |-> at[k].queue]
           M == [k \in Nat |-> at[k].visited]
           FilesOf(X) == {g.node[x].file : x \in X}
           P(k) == Callers(g, Done(Q[k], M[k]) \cap W[depth - 1])
           Counted(k) == ToSet(at[k].files) = FilesOf(P(k))
           T == {k \in Nat : Counted(k)}
<1>5. ASSUME NEW k \in Nat, at[k].queue # <<>>
      PROVE  /\ Moved(g, Behind(g, depth, Q[k]), Q[k], M[k], Q[k + 1], M[k + 1])
             /\ ToSet(at[k + 1].files) = ToSet(at[k].files) \cup {g.node[x].file : x \in Behind(g, depth, Q[k])}
  <2> DEFINE s == at[k]
             after == at[k + 1]
  <2>1. s \in Impact(g) /\ after = ImpactRound(g, depth, s) /\ s.queue # <<>> /\ depth \in Nat
    BY <1>3, <1>5
  <2>2. Q[k] = s.queue /\ M[k] = s.visited /\ Q[k + 1] = after.queue /\ M[k + 1] = after.visited
    OBVIOUS
  <2> HIDE DEF s, after, Q, M
  <2>3. /\ Moved(g, Behind(g, depth, s.queue), s.queue, s.visited, after.queue, after.visited)
        /\ ToSet(after.files) = ToSet(s.files) \cup {g.node[x].file : x \in Behind(g, depth, s.queue)}
    BY <2>1, RoundMoves
  <2> QED BY <2>2, <2>3 DEF s, after
<1>6. \A k \in Nat : (at[k].queue = <<>> <=> Len(Q[k]) = 0) /\ (Len(Q[k]) = 0 => at[k + 1] = at[k])
  <2> SUFFICES ASSUME NEW k \in Nat PROVE (at[k].queue = <<>> <=> Len(Q[k]) = 0) /\ (Len(Q[k]) = 0 => at[k + 1] = at[k])
    OBVIOUS
  <2>1. at[k].queue \in Seq(Waiting(g))
    BY DEF Impact
  <2>2. at[k].queue = <<>> <=> Len(Q[k]) = 0
    BY <2>1, QueueType
  <2>3. at[k].queue = <<>> => at[k + 1] = at[k]
    BY <1>3 DEF ImpactRound
  <2> QED BY <2>2, <2>3
<1>7. Knows(g, depth, S, W, Q[0], M[0]) /\ Done(Q[0], M[0]) = {} /\ ToSet(at[0].files) = {}
  BY <1>2, <1>3, FirstKnows DEF S
<1>8. ASSUME NEW k \in Nat PROVE Advances(g, depth, Q[k], M[k], Q[k + 1], M[k + 1])
  <2>1. CASE Len(Q[k]) = 0
    BY <1>6, <2>1 DEF Advances
  <2>2. CASE Len(Q[k]) # 0
    <3>1. Moved(g, Behind(g, depth, Q[k]), Q[k], M[k], Q[k + 1], M[k + 1])
      BY <1>5, <1>6, <2>2
    <3> HIDE DEF Q, M
    <3> QED BY <2>2, <3>1 DEF Advances
  <2> QED BY <2>1, <2>2
<1>9. /\ \A k \in Nat : Knows(g, depth, S, W, Q[k], M[k])
      /\ Done(Q[N], M[N]) = M[N] /\ W[depth] \subseteq M[N]
  <2> HIDE DEF Q, M
  <2>1. LET n == Cardinality(DOMAIN g.node)
        IN  /\ \A k \in Nat : Knows(g, depth, S, W, Q[k], M[k])
            /\ Len(Q[n]) = 0 /\ Done(Q[n], M[n]) = M[n] /\ W[depth] \subseteq M[n]
    <3>1. Expands(g, S, W) /\ Knows(g, depth, S, W, Q[0], M[0]) /\ \A k \in Nat : Advances(g, depth, Q[k], M[k], Q[k + 1], M[k + 1])
      BY <1>2, <1>7, <1>8
    <3> QED BY <1>4, <3>1, SearchEnds
  <2> QED BY <2>1 DEF N
<1>10. P(0) = {}
  <2> HIDE DEF Q, M
  <2> QED BY <1>7 DEF Callers, Into
<1>11. 0 \in T
  <2>1. FilesOf(P(0)) = {}
    <3> HIDE DEF P
    <3> QED BY <1>10
  <2> HIDE DEF FilesOf, P
  <2> QED BY <1>7, <2>1
<1>12. ASSUME NEW k \in Nat, k \in T PROVE k + 1 \in T
  <2> DEFINE from == Behind(g, depth, Q[k])
  <2>1. Counted(k) /\ k + 1 \in Nat
    <3> HIDE DEF Counted
    <3> QED BY <1>12
  <2>2. CASE Len(Q[k]) = 0
    <3>1. at[k + 1] = at[k]
      BY <1>6, <2>2
    <3>2. Q[k + 1] = Q[k] /\ M[k + 1] = M[k]
      BY <3>1
    <3>3. P(k + 1) = P(k)
      <4> HIDE DEF Q, M
      <4> QED BY <3>2
    <3> HIDE DEF P, FilesOf
    <3> QED BY <2>1, <3>1, <3>3
  <2>3. CASE Len(Q[k]) # 0
    <3>1. ToSet(at[k + 1].files) = ToSet(at[k].files) \cup FilesOf(from)
      BY <1>5, <1>6, <2>3
    <3>2. P(k + 1) = P(k) \cup from
      <4> HIDE DEF Q, M
      <4>1. Advances(g, depth, Q[k], M[k], Q[k + 1], M[k + 1]) /\ Knows(g, depth, S, W, Q[k], M[k])
        BY <1>8, <1>9
      <4>2. Takes(g, depth, W, Q[k], M[k], Q[k + 1], M[k + 1])
        BY <1>2, <2>3, <4>1, RoundKnows
      <4> QED BY <4>2 DEF Takes
    <3> HIDE DEF P, from
    <3>3. FilesOf(P(k + 1)) = FilesOf(P(k)) \cup FilesOf(from)
      BY <3>2
    <3> HIDE DEF FilesOf
    <3> QED BY <2>1, <3>1, <3>3
  <2> QED BY <2>2, <2>3
<1> HIDE DEF FilesOf, P
<1>13. Counted(N)
  <2> HIDE DEF T
  <2>1. N \in T
    BY <1>4, <1>11, <1>12, Induct
  <2> QED BY <2>1 DEF T
<1>14. W[depth - 1] \subseteq M[N]
  <2> DEFINE d == depth - 1
  <2>1. d \in Nat /\ depth \in Nat /\ d <= depth
    OBVIOUS
  <2> HIDE DEF d
  <2>2. W[d] \subseteq W[depth]
    BY <1>2, <2>1, WithinMore
  <2> QED BY <1>9, <2>2 DEF d
<1>15. Done(Q[N], M[N]) \cap W[depth - 1] = W[depth - 1]
  BY <1>9, <1>14
<1>16. ToSet(at[N].files) = {g.node[x].file : x \in Callers(g, W[depth - 1])} /\ at[N].files \in Seq(Nat)
  BY <1>4, <1>13, <1>15 DEF FilesOf, P, Impact
<1> QED BY <1>2, <1>3, <1>16 DEF S

\* The answer about a list: as much of it as is allowed.
LEMMA ListCovers ==
    ASSUME NEW S, IsFiniteSet(S), NEW list \in Seq(S), IsInjective(list), ToSet(list) = S, Len(list) = Cardinality(S), NEW max \in Nat
    PROVE  Covers(IF list = <<>> THEN NoAnswer
                  ELSE [found |-> TRUE, hits |-> SubSeq(list, 1, Min({Len(list), max})), more |-> Len(list) > max],
                  IF list = <<>> THEN <<>> ELSE SubSeq(list, 1, Min({Len(list), max})), S, max)
<1> DEFINE n == Len(list)
           m == Min({n, max})
           hits == SubSeq(list, 1, m)
<1>1. n \in Nat /\ DOMAIN list = 1 .. n /\ (list = <<>> <=> n = 0)
  OBVIOUS
<1>2. m \in {n, max} /\ m <= n /\ m <= max /\ m \in Nat
  <2> HIDE DEF n
  <2>1. {n, max} \in SUBSET Nat /\ {n, max} # {}
    BY <1>1
  <2>2. m \in {n, max} /\ \A y \in {n, max} : m <= y
    BY <2>1, MinIsLeast
  <2> QED BY <2>1, <2>2
<1>3. Min({max, Cardinality(S)}) = m
  <2>1. {max, Cardinality(S)} = {n, max}
    OBVIOUS
  <2> QED BY <2>1
<1> HIDE DEF n, m
<1>4. hits \in Seq(S) /\ Len(hits) = m /\ DOMAIN hits = 1 .. m /\ \A i \in 1 .. m : hits[i] = list[i]
  BY <1>1, <1>2 DEF n
<1> HIDE DEF hits
<1>5. ToSet(hits) \subseteq S
  BY <1>1, <1>2, <1>4 DEF ToSet
<1>6. IsInjective(hits)
  BY <1>1, <1>2, <1>4 DEF IsInjective
<1>7. S = {} <=> n = 0
  <2>1. S = {} <=> DOMAIN list = {}
    BY DEF ToSet
  <2>2. n # 0 => 1 \in 1 .. n
    BY <1>1
  <2>3. n = 0 => 1 .. n = {}
    BY <1>1
  <2> QED BY <1>1, <2>1, <2>2, <2>3
<1>8. CASE list = <<>>
  <2>1. n = 0 /\ S = {} /\ m = 0
    BY <1>1, <1>2, <1>7, <1>8
  <2>2. ToSet(<<>>) = {} /\ IsInjective(<<>>) /\ Len(<<>>) = 0
    BY DEF ToSet, IsInjective
  <2>3. Cardinality(S) = 0
    BY <2>1, FS_EmptySet
  <2>4. Covers(NoAnswer, <<>>, S, max)
    BY <1>3, <2>1, <2>2, <2>3 DEF Covers, NoAnswer
  <2> QED BY <1>8, <2>4
<1>9. CASE list # <<>>
  <2> DEFINE answer == [found |-> TRUE, hits |-> hits, more |-> n > max]
  <2>1. S # {}
    BY <1>1, <1>7, <1>9
  <2>2. answer.found = TRUE /\ answer.more = (n > max)
    OBVIOUS
  <2> HIDE DEF answer
  <2>3. Cardinality(S) = n
    BY DEF n
  <2>4. Covers(answer, hits, S, max)
    BY <1>3, <1>4, <1>5, <1>6, <2>1, <2>2, <2>3 DEF Covers
  <2> QED BY <1>9, <2>4 DEF answer, hits, m, n
<1> QED BY <1>8, <1>9

LEMMA HitCountNat == \A s : IsFiniteSet(DOMAIN s) => \A x : HitCount(s, x) \in Nat
<1> SUFFICES ASSUME NEW s, IsFiniteSet(DOMAIN s), NEW x PROVE HitCount(s, x) \in Nat
  OBVIOUS
<1> DEFINE X == {k \in DOMAIN s : s[k] = x}
<1>1. IsFiniteSet(X)
  BY FS_Subset
<1> QED BY <1>1, FS_CardinalityType DEF HitCount

LEMMA ImpactExact ==
    ASSUME NEW g, IsIndex(g), NEW q, q.max \in Int, q.depth \in Int
    PROVE  LET impact == ToolImpactGraph(g, q)
           IN  Covers(impact, impact.hits,
                      {g.node[e.src].file : e \in Into(g, Within(g, ToSet(resolveDefs(g, q)), impactDepth(q.depth) - 1))},
                      clampGraphMax(q.max))
<1> DEFINE defs == resolveDefs(g, q)
           depth == impactDepth(q.depth)
           found == ImpactSearch(g, depth, defs)
           files == ToSet(found)
           R == {p \in files \X files : \/ HitCount(found, p[1]) > HitCount(found, p[2])
                                        \/ HitCount(found, p[1]) = HitCount(found, p[2]) /\ p[1] < p[2]}
           list == Ordered(files, R)
           max == clampGraphMax(q.max)
           wanted == {g.node[e.src].file : e \in Into(g, Within(g, ToSet(defs), depth - 1))}
           impact == ToolImpactGraph(g, q)
<1>1. depth \in Nat \ {0}
  <2>1. CASE q.depth < 1
    BY <2>1, LimitAssumption DEF impactDepth
  <2>2. CASE q.depth >= 1
    <3>1. {q.depth, maxImpactDepth} \in SUBSET Nat /\ {q.depth, maxImpactDepth} # {}
      BY <2>2, LimitAssumption
    <3>2. Min({q.depth, maxImpactDepth}) \in {q.depth, maxImpactDepth}
      BY <3>1, MinIsLeast
    <3> QED BY <2>2, <3>1, <3>2, LimitAssumption DEF impactDepth
  <2> QED BY <2>1, <2>2
<1>2. max \in Nat
  BY ClampNat
<1>3. impact = IF list = <<>> THEN NoAnswer
               ELSE [found |-> TRUE, hits |-> SubSeq(list, 1, Min({Len(list), max})), more |-> Len(list) > max]
  BY DEF ToolImpactGraph
<1>4. defs \in Seq(DOMAIN g.node) /\ IsInjective(defs)
  BY Definitions
<1> HIDE DEF depth, max, defs, impact, list, R
<1>5. found \in Seq(Nat) /\ files = {g.node[x].file : x \in Callers(g, Within(g, ToSet(defs), depth - 1))}
  BY <1>1, <1>4, ImpactFiles
<1>6. files = wanted
  BY <1>5 DEF Callers
<1> HIDE DEF found
<1>7. IsFiniteSet(files) /\ files \subseteq Nat /\ IsFiniteSet(DOMAIN found)
  <2>1. IsFiniteSet(DOMAIN found)
    <3>1. DOMAIN found = 1 .. Len(found) /\ Len(found) \in Nat
      BY <1>5
    <3> QED BY <3>1, FS_Interval
  <2>2. files \subseteq Nat
    <3>1. \A k \in DOMAIN found : found[k] \in Nat
      BY <1>5
    <3> QED BY <3>1 DEF ToSet
  <2> QED BY <2>1, <2>2, FiniteImage DEF ToSet
<1>8. \A x : HitCount(found, x) \in Nat
  BY <1>7, HitCountNat
<1> HIDE DEF files, wanted
<1>9. Precedes(files, R)
  <2> DEFINE c(x) == HitCount(found, x)
  <2>1. \A x, y \in files : <<x, y>> \in R <=> c(x) > c(y) \/ (c(x) = c(y) /\ x < y)
    BY DEF R
  <2> HIDE DEF c
  <2>2. \A x \in files : c(x) \in Nat /\ x \in Nat
    BY <1>7, <1>8 DEF c
  <2>3. ASSUME NEW x \in files PROVE <<x, x>> \notin R
    BY <2>1, <2>2
  <2>4. ASSUME NEW x \in files, NEW y \in files, NEW z \in files, <<x, y>> \in R, <<y, z>> \in R PROVE <<x, z>> \in R
    <3>1. c(x) > c(y) \/ (c(x) = c(y) /\ x < y)
      BY <2>1, <2>4
    <3>2. c(y) > c(z) \/ (c(y) = c(z) /\ y < z)
      BY <2>1, <2>4
    <3>3. c(x) > c(z) \/ (c(x) = c(z) /\ x < z)
      BY <2>2, <3>1, <3>2
    <3> QED BY <2>1, <3>3
  <2> QED BY <2>3, <2>4 DEF Precedes
<1>10. list \in Seq(files) /\ Len(list) = Cardinality(files) /\ ToSet(list) = files /\ IsInjective(list)
  BY <1>7, <1>9, OrderedLists DEF list
<1>11. Covers(impact, IF list = <<>> THEN <<>> ELSE SubSeq(list, 1, Min({Len(list), max})), files, max)
  BY <1>2, <1>3, <1>7, <1>10, ListCovers
<1>12. impact.hits = IF list = <<>> THEN <<>> ELSE SubSeq(list, 1, Min({Len(list), max}))
  BY <1>3 DEF NoAnswer
<1> QED BY <1>6, <1>11, <1>12 DEF wanted, max, defs, depth, impact

\* The answers of the graph tools about every index the store can keep, and
\* the affected tests of every tree, are complete and exact: whatever the
\* definitions, the call sites, the cycles among them and the limits.
THEOREM GraphToolsExactHolds ==
    ((input.of = "graph" => IsIndex(input)) /\ (input.of = "tree" => IsTree(input))) => GraphToolsExact
<1> SUFFICES ASSUME input.of = "graph" => IsIndex(input), input.of = "tree" => IsTree(input)
             PROVE  GraphToolsExact
  OBVIOUS
<1>1. ASSUME input.of = "graph", NEW q \in Question PROVE GraphAnswersExact(input, q)
  <2>1. IsIndex(input) /\ q.max \in Int /\ q.depth \in Int
    BY <1>1, QuestionAssumption
  <2> DEFINE g == input
  <2> HIDE DEF g
  <2>2. OutOf(g, ToSet(resolveDefs(g, q))) = {e \in g.edges : e.src \in ToSet(resolveDefs(g, q)) /\ e.kind \in structuralEdgeSQL}
    BY DEF OutOf
  <2>3. GraphAnswersExact(g, q)
    BY <2>1, <2>2, CallersExact, CalleesExact, ImpactExact DEF GraphAnswersExact, g
  <2> QED BY <2>3 DEF g
<1>2. ASSUME input.of = "tree", NEW changed \in Change, NEW depth \in Depth PROVE AffectedExact(input, changed, depth)
  BY <1>2, ChangeAssumption, AffectedIsExact
<1> QED BY <1>1, <1>2 DEF GraphToolsExact

-----------------------------------------------------------------------------
(* Explore.  The search for a flow is the search of impact once more, along *)
(* the steps that a flow may take.                                          *)

\* The steps of a flow as the edges of an index, turned round.
Turned(g, q, named) ==
    [node  |-> g.node,
     edges |-> {e \in [src : DOMAIN g.node, dst : DOMAIN g.node, kind : {"calls"}, line : {0}] : CallStep(g, q, named, e.dst, e.src)}]

\* One step back in the turned index is one step of a flow.
LEMMA StepsBehind ==
    ASSUME NEW g, NEW q, NEW named, NEW X \in SUBSET DOMAIN g.node
    PROVE  Callers(Turned(g, q, named), X) = {b \in DOMAIN g.node : \E a \in X : CallStep(g, q, named, a, b)}
<1> DEFINE E == {e \in [src : DOMAIN g.node, dst : DOMAIN g.node, kind : {"calls"}, line : {0}] : CallStep(g, q, named, e.dst, e.src)}
           Y == {b \in DOMAIN g.node : \E a \in X : CallStep(g, q, named, a, b)}
<1>1. Turned(g, q, named).edges = E
  BY DEF Turned
<1>2. Callers(Turned(g, q, named), X) = {e.src : e \in {e \in E : e.dst \in X /\ e.kind \in structuralEdgeSQL}}
  BY <1>1 DEF Callers, Into
<1>3. ASSUME NEW e \in E, e.dst \in X PROVE e.src \in Y
  BY <1>3
<1>4. ASSUME NEW b \in Y PROVE \E e \in E : e.dst \in X /\ e.kind \in structuralEdgeSQL /\ e.src = b
  <2>1. PICK a \in X : CallStep(g, q, named, a, b)
    BY <1>4
  <2> DEFINE e == [src |-> b, dst |-> a, kind |-> "calls", line |-> 0]
  <2>2. e \in E
    BY <1>4, <2>1
  <2>3. e.dst = a /\ e.src = b /\ e.kind \in structuralEdgeSQL
    BY DEF structuralEdgeSQL
  <2> QED BY <2>2, <2>3
<1> HIDE DEF E, Y
<1>5. {e.src : e \in {e \in E : e.dst \in X /\ e.kind \in structuralEdgeSQL}} = Y
  BY <1>3, <1>4
<1> QED BY <1>2, <1>5 DEF Y

\* What a node calls is a node, in a file under the root.
LEMMA CalleesKnown ==
    ASSUME NEW g, IsSized(g), NEW q, NEW id
    PROVE  Callees(g, q, id) \subseteq DOMAIN g.node /\ \A c \in Callees(g, q, id) : g.node[c].file \in q.root
BY DEF Callees, IsSized

\* The search: what waits, and whether it may be followed by any node.
Hop(g)     == [id : DOMAIN g.node, d : Nat, streak : Nat]
Parents(g) == UNION {[D -> DOMAIN g.node] : D \in SUBSET DOMAIN g.node}
Flowing(g) == [queue : Seq(Hop(g)), parent : Parents(g), deep : Hop(g)]
Streaks(q, named) == \A i \in DOMAIN q : q[i].streak = 0 <=> q[i].id \in named

\* The queue of the flow is a queue of nodes at a distance.
LEMMA HopQueue == \A g : \A q \in Seq(Hop(g)) : Queue(g, q) /\ (q # <<>> <=> Len(q) # 0)
<1> SUFFICES ASSUME NEW g, NEW q \in Seq(Hop(g)) PROVE Queue(g, q) /\ (q # <<>> <=> Len(q) # 0)
  OBVIOUS
<1>1. Len(q) \in Nat /\ DOMAIN q = 1 .. Len(q) /\ (q # <<>> <=> Len(q) # 0) /\ \A i \in DOMAIN q : q[i] \in Hop(g)
  OBVIOUS
<1> QED BY <1>1 DEF Queue, Hop

\* What a round does to the parents and to the deepest named symbol.
Leads(named, s, after) ==
    LET cur == s.queue[1]
    IN  /\ \A x \in DOMAIN s.parent : after.parent[x] = s.parent[x]
        /\ \A x \in DOMAIN after.parent \ DOMAIN s.parent : after.parent[x] = cur.id
        /\ after.deep = IF cur.id \in named /\ cur.d > s.deep.d THEN cur ELSE s.deep

\* A round moves the queue as a round of impact does, along the steps of a flow.
LEMMA FlowMoves ==
    ASSUME NEW g, IsSized(g), NEW q, NEW named, NEW s \in Flowing(g), s.queue # <<>>, Streaks(s.queue, named)
    PROVE  LET h == Turned(g, q, named)
               after == FlowRound(g, q, named, s)
           IN  /\ after \in Flowing(g) /\ Streaks(after.queue, named)
               /\ Moved(h, Behind(h, maxHops - 1, s.queue), s.queue, DOMAIN s.parent, after.queue, DOMAIN after.parent)
               /\ Leads(named, s, after)
<1> DEFINE h == Turned(g, q, named)
           cur == s.queue[1]
           met == DOMAIN s.parent
           from == Behind(h, maxHops - 1, s.queue)
           X == {c \in Callees(g, q, cur.id) \ met : cur.d < maxHops - 1 /\ (c \in named \/ cur.streak = 0)}
           new == Ascending(X)
           streak(c) == IF c \in named THEN 0 ELSE cur.streak + 1
           more == [k \in DOMAIN new |-> [id |-> new[k], d |-> cur.d + 1, streak |-> streak(new[k])]]
           parent1 == [c \in met \cup ToSet(new) |-> IF c \in met THEN s.parent[c] ELSE cur.id]
           q1 == Tail(s.queue) \o more
           deep1 == IF cur.id \in named /\ cur.d > s.deep.d THEN cur ELSE s.deep
           after == FlowRound(g, q, named, s)
<1>1. s.queue \in Seq(Hop(g)) /\ s.parent \in Parents(g) /\ s.deep \in Hop(g)
  BY DEF Flowing
<1>2. Len(s.queue) \in Nat \ {0} /\ DOMAIN s.queue = 1 .. Len(s.queue) /\ Head(s.queue) = cur /\ cur \in Hop(g)
  <2> DEFINE p == s.queue
  <2>1. p \in Seq(Hop(g)) /\ p # <<>>
    BY <1>1
  <2> HIDE DEF p
  <2>2. Len(p) \in Nat \ {0} /\ DOMAIN p = 1 .. Len(p) /\ Head(p) = p[1] /\ p[1] \in Hop(g)
    BY <2>1
  <2> QED BY <2>2 DEF p
<1>3. met \in SUBSET DOMAIN g.node /\ s.parent \in [met -> DOMAIN g.node]
  BY <1>1 DEF Parents
<1>4. cur.id \in DOMAIN g.node /\ cur.d \in Nat /\ cur.streak \in Nat /\ (cur.streak = 0 <=> cur.id \in named)
  BY <1>2 DEF Hop, Streaks
<1>5. after = [queue |-> q1, parent |-> parent1, deep |-> deep1]
  BY <1>2 DEF FlowRound
<1> HIDE DEF after
<1>6. from \subseteq DOMAIN g.node /\ X = from \ met
  <2>1. Callers(h, {cur.id}) = {b \in DOMAIN g.node : CallStep(g, q, named, cur.id, b)}
    <3>1. {cur.id} \in SUBSET DOMAIN g.node
      BY <1>4
    <3> HIDE DEF h, cur
    <3>2. Callers(h, {cur.id}) = {b \in DOMAIN g.node : \E a \in {cur.id} : CallStep(g, q, named, a, b)}
      BY <3>1, StepsBehind DEF h
    <3> QED BY <3>2
  <2>2. from = IF cur.d < maxHops - 1 THEN {b \in DOMAIN g.node : CallStep(g, q, named, cur.id, b)} ELSE {}
    BY <2>1 DEF Behind
  <2> HIDE DEF from, h, met
  <2>3. \A c : CallStep(g, q, named, cur.id, c) <=> c \in Callees(g, q, cur.id) /\ (c \in named \/ cur.streak = 0)
    BY <1>4 DEF CallStep
  <2>4. Callees(g, q, cur.id) \subseteq DOMAIN g.node
    BY CalleesKnown
  <2> HIDE DEF cur
  <2>5. X = (IF cur.d < maxHops - 1 THEN {b \in DOMAIN g.node : CallStep(g, q, named, cur.id, b)} ELSE {}) \ met
    BY <2>3, <2>4
  <2> QED BY <2>2, <2>5
<1>7. new \in Seq(DOMAIN g.node) /\ IsInjective(new) /\ ToSet(new) = from \ met /\ DOMAIN new = 1 .. Len(new) /\ Len(new) \in Nat
  <2> HIDE DEF X, from, met
  <2>1. X \in SUBSET Nat /\ IsFiniteSet(X) /\ X \subseteq DOMAIN g.node
    BY <1>6, FS_Subset DEF IsSized
  <2> HIDE DEF new
  <2>2. new \in Seq(X) /\ IsInjective(new) /\ ToSet(new) = X /\ DOMAIN new = 1 .. Len(new)
    BY <2>1, AscendingLists DEF new
  <2>3. new \in Seq(DOMAIN g.node)
    BY <2>1, <2>2, Wider
  <2> QED BY <1>6, <2>2, <2>3
<1> HIDE DEF X, from, new
<1>8. \A k \in 1 .. Len(new) : new[k] \in DOMAIN g.node
  BY <1>7
<1>9. /\ more \in Seq(Hop(g)) /\ Len(more) = Len(new)
      /\ \A k \in 1 .. Len(new) : more[k].id = new[k] /\ more[k].d = cur.d + 1 /\ (more[k].streak = 0 <=> new[k] \in named)
  <2> HIDE DEF cur
  <2>1. \A k \in 1 .. Len(new) : streak(new[k]) \in Nat /\ (streak(new[k]) = 0 <=> new[k] \in named)
    BY <1>4
  <2>2. more \in [1 .. Len(new) -> Hop(g)]
    BY <1>4, <1>7, <1>8, <2>1 DEF Hop
  <2>3. \A k \in 1 .. Len(new) : more[k].id = new[k] /\ more[k].d = cur.d + 1 /\ more[k].streak = streak(new[k])
    BY <1>7
  <2>4. more \in Seq(Hop(g)) /\ Len(more) = Len(new)
    <3> HIDE DEF more
    <3> QED BY <1>7, <2>2, ListOf
  <2> QED BY <2>1, <2>3, <2>4
<1> HIDE DEF more
<1> DEFINE rest == Tail(s.queue)
<1>10. rest \in Seq(Hop(g)) /\ Len(rest) = Len(s.queue) - 1 /\ \A i \in 1 .. Len(s.queue) - 1 : rest[i] = s.queue[i + 1]
  <2> DEFINE p == s.queue
  <2>1. p \in Seq(Hop(g)) /\ p # <<>>
    BY <1>1
  <2> HIDE DEF p
  <2>2. Tail(p) \in Seq(Hop(g)) /\ Len(Tail(p)) = Len(p) - 1 /\ \A i \in 1 .. Len(p) - 1 : Tail(p)[i] = p[i + 1]
    BY <2>1
  <2> QED BY <2>2 DEF p
<1>11. Joins(Hop(g), rest, more, q1)
  <2> HIDE DEF rest
  <2> QED BY <1>9, <1>10, JoinedAt DEF rest
<1> HIDE DEF rest, q1
<1>12. Follows(s.queue, new, q1)
  <2>1. Len(q1) = Len(s.queue) - 1 + Len(new) /\ \A i \in 1 .. Len(s.queue) - 1 : q1[i] = s.queue[i + 1]
    BY <1>9, <1>10, <1>11 DEF Joins
  <2>2. ASSUME NEW i \in 1 .. Len(new)
        PROVE  q1[Len(s.queue) - 1 + i].id = new[i] /\ q1[Len(s.queue) - 1 + i].d = s.queue[1].d + 1
    <3>1. q1[Len(s.queue) - 1 + i] = more[i]
      BY <1>9, <1>10, <1>11 DEF Joins
    <3> QED BY <1>9, <3>1
  <2> QED BY <2>1, <2>2 DEF Follows
<1>13. Streaks(q1, named)
  <2> SUFFICES ASSUME NEW i \in DOMAIN q1 PROVE q1[i].streak = 0 <=> q1[i].id \in named
    BY DEF Streaks
  <2>1. i \in 1 .. Len(rest) + Len(new)
    BY <1>9, <1>11 DEF Joins
  <2>2. CASE i \in 1 .. Len(rest)
    <3>1. q1[i] = s.queue[i + 1] /\ i + 1 \in DOMAIN s.queue
      BY <1>2, <1>10, <1>11, <2>2 DEF Joins
    <3> QED BY <3>1 DEF Streaks
  <2>3. CASE i \notin 1 .. Len(rest)
    <3> DEFINE k == i - Len(rest)
    <3>1. k \in 1 .. Len(new) /\ Len(rest) + k = i
      <4>1. Len(rest) \in Nat /\ Len(new) \in Nat
        BY <1>7, <1>10
      <4> HIDE DEF rest
      <4> QED BY <2>1, <2>3, <4>1
    <3> HIDE DEF k
    <3>2. q1[i] = more[k]
      BY <1>9, <1>11, <3>1 DEF Joins
    <3> QED BY <1>9, <3>1, <3>2
  <2> QED BY <2>2, <2>3
<1>14. parent1 \in [met \cup from -> DOMAIN g.node] /\ met \cup from \in SUBSET DOMAIN g.node
  <2>1. met \cup ToSet(new) = met \cup from
    BY <1>7
  <2> HIDE DEF cur, met
  <2> QED BY <1>3, <1>4, <1>6, <2>1
<1>15. after.queue = q1 /\ after.parent = parent1 /\ after.deep = deep1
  BY <1>5
<1>16. deep1 \in Hop(g)
  <2> HIDE DEF cur
  <2> QED BY <1>1, <1>2
<1>17. q1 \in Seq(Hop(g))
  BY <1>11 DEF Joins
<1>18. after \in Flowing(g)
  <2>1. parent1 \in Parents(g)
    <3> HIDE DEF parent1
    <3> QED BY <1>14 DEF Parents
  <2> HIDE DEF parent1, deep1
  <2> QED BY <1>5, <1>16, <1>17, <2>1 DEF Flowing
<1>19. DOMAIN after.parent = met \cup from /\ h.node = g.node
  BY <1>14, <1>15 DEF Turned
<1>20. Leads(named, s, after)
  <2>1. \A x \in met : after.parent[x] = s.parent[x]
    BY <1>15
  <2>2. ASSUME NEW x \in DOMAIN after.parent \ met PROVE after.parent[x] = cur.id
    BY <1>7, <1>15, <1>19
  <2> HIDE DEF after
  <2> QED BY <1>15, <2>1, <2>2 DEF Leads
<1>21. Moved(h, from, s.queue, met, after.queue, DOMAIN after.parent)
  <2>1. Queue(g, q1)
    BY <1>17, HopQueue
  <2>2. Queue(h, q1)
    BY <1>19, <2>1 DEF Queue
  <2> HIDE DEF h, met, after, parent1, deep1
  <2> QED BY <1>7, <1>12, <1>14, <1>15, <1>19, <2>2 DEF Moved
<1> QED BY <1>13, <1>15, <1>18, <1>20, <1>21 DEF from, after

Streaked(g, named) == {s \in Flowing(g) : Streaks(s.queue, named)}
FirstHop(seed) == [id |-> seed, d |-> 0, streak |-> 0]
FirstFlow(seed) == [queue |-> <<FirstHop(seed)>>, parent |-> [c \in {seed} |-> seed], deep |-> FirstHop(seed)]

\* A round keeps the search well formed.
LEMMA FlowTypes ==
    ASSUME NEW g, IsSized(g), NEW q, NEW named
    PROVE  /\ \A s \in Streaked(g, named) : FlowRound(g, q, named, s) \in Streaked(g, named)
           /\ \A seed \in DOMAIN g.node : seed \in named => FirstFlow(seed) \in Streaked(g, named)
<1>1. ASSUME NEW s \in Streaked(g, named) PROVE FlowRound(g, q, named, s) \in Streaked(g, named)
  <2>1. s \in Flowing(g) /\ Streaks(s.queue, named)
    BY DEF Streaked
  <2>2. CASE s.queue = <<>>
    <3>1. FlowRound(g, q, named, s) = s
      BY <2>2 DEF FlowRound
    <3> QED BY <3>1
  <2>3. CASE s.queue # <<>>
    BY <2>1, <2>3, FlowMoves DEF Streaked
  <2> QED BY <2>2, <2>3
<1>2. ASSUME NEW seed \in DOMAIN g.node, seed \in named PROVE FirstFlow(seed) \in Streaked(g, named)
  <2> DEFINE hop == FirstHop(seed)
             parent == [c \in {seed} |-> seed]
  <2>1. hop \in Hop(g) /\ hop.id = seed /\ hop.streak = 0
    BY DEF Hop, FirstHop
  <2>2. parent \in [{seed} -> DOMAIN g.node] /\ {seed} \in SUBSET DOMAIN g.node
    OBVIOUS
  <2>3. parent \in Parents(g)
    <3> HIDE DEF parent
    <3> QED BY <2>2 DEF Parents
  <2>4. FirstFlow(seed) = [queue |-> <<hop>>, parent |-> parent, deep |-> hop]
    BY DEF FirstFlow
  <2> HIDE DEF hop, parent
  <2>5. <<hop>> \in Seq(Hop(g)) /\ DOMAIN <<hop>> = {1} /\ <<hop>>[1] = hop
    BY <2>1
  <2>6. FirstFlow(seed) \in Flowing(g) /\ FirstFlow(seed).queue = <<hop>>
    BY <2>1, <2>3, <2>4, <2>5 DEF Flowing
  <2>7. Streaks(<<hop>>, named)
    BY <1>2, <2>1, <2>5 DEF Streaks
  <2> QED BY <2>6, <2>7 DEF Streaked
<1> QED BY <1>1, <1>2

\* The states of the search after each number of rounds.
RoundsOf(g, q, named, seed, at) ==
    /\ at[0] = FirstFlow(seed) /\ \A k \in Nat : at[k + 1] = FlowRound(g, q, named, at[k])
    /\ FlowSearch(g, q, named, seed) = at[Cardinality(DOMAIN g.node)]

\* The search is the state after as many rounds as there are nodes.
LEMMA FlowRounds ==
    ASSUME NEW g, IsSized(g), NEW q, NEW named, NEW seed \in DOMAIN g.node, seed \in named
    PROVE  \E at \in [Nat -> Streaked(g, named)] : RoundsOf(g, q, named, seed, at)
<1> DEFINE States == Streaked(g, named)
           first == FirstFlow(seed)
           R == CHOOSE R : R = [k \in Nat |-> IF k = 0 THEN first ELSE FlowRound(g, q, named, R[k - 1])]
           step == [k \in Nat |-> [x \in States |-> FlowRound(g, q, named, x)]]
<1>1. step \in [Nat -> [States -> States]] /\ first \in States
  <2>1. (\A x \in States : FlowRound(g, q, named, x) \in States) /\ first \in States
    BY FlowTypes
  <2> HIDE DEF States, first
  <2>2. [x \in States |-> FlowRound(g, q, named, x)] \in [States -> States]
    BY <2>1
  <2> QED BY <2>1, <2>2
<1>2. \A k \in Nat : \A x \in States : step[k][x] = FlowRound(g, q, named, x)
  OBVIOUS
<1> HIDE DEF step, States
<1>3. FlowSearch(g, q, named, seed) = R[Cardinality(DOMAIN g.node)]
  BY DEF FlowSearch, FirstFlow, FirstHop
<1> HIDE DEF first
<1>4. PICK f \in [Nat -> States] : Loops(f, first, step)
  BY <1>1, Recursion
<1>5. f[0] = first /\ \A k \in Nat : k # 0 => f[k] = FlowRound(g, q, named, f[k - 1])
  <2>1. f[0] = first
    BY <1>4 DEF Loops
  <2>2. ASSUME NEW k \in Nat, k # 0 PROVE f[k] = FlowRound(g, q, named, f[k - 1])
    <3>1. k - 1 \in Nat /\ f[k - 1] \in States /\ f[k] = step[k][f[k - 1]]
      BY <2>2, <1>4 DEF Loops
    <3> QED BY <3>1, <1>2
  <2> QED BY <2>1, <2>2
<1>6. f = [k \in Nat |-> IF k = 0 THEN first ELSE FlowRound(g, q, named, f[k - 1])]
  BY <1>5
<1>7. R = [k \in Nat |-> IF k = 0 THEN first ELSE FlowRound(g, q, named, R[k - 1])]
  BY <1>6, Zenon
<1> HIDE DEF R
<1>8. R = f
  <2> DEFINE T == {k \in Nat : R[k] = f[k]}
  <2>1. 0 \in T
    BY <1>5, <1>7
  <2>2. ASSUME NEW k \in Nat, k \in T PROVE k + 1 \in T
    <3>1. k + 1 \in Nat /\ k + 1 # 0 /\ (k + 1) - 1 = k
      OBVIOUS
    <3>2. R[k + 1] = FlowRound(g, q, named, R[(k + 1) - 1]) /\ f[k + 1] = FlowRound(g, q, named, f[(k + 1) - 1])
      BY <3>1, <1>5, <1>7
    <3>3. R[k] = f[k]
      BY <2>2
    <3> QED BY <3>1, <3>2, <3>3
  <2>3. \A k \in Nat : R[k] = f[k]
    <3>1. Nat \subseteq T
      <4> HIDE DEF T
      <4> QED BY <2>1, <2>2, Induct
    <3> QED BY <3>1
  <2>4. DOMAIN R = Nat /\ R = [k \in Nat |-> R[k]]
    BY <1>7
  <2> QED BY <2>3, <2>4
<1>9. \A k \in Nat : f[k + 1] = FlowRound(g, q, named, f[k])
  <2> SUFFICES ASSUME NEW k \in Nat PROVE f[k + 1] = FlowRound(g, q, named, f[k])
    OBVIOUS
  <2>1. k + 1 \in Nat /\ k + 1 # 0 /\ (k + 1) - 1 = k
    OBVIOUS
  <2> QED BY <2>1, <1>5
<1>10. f \in [Nat -> Streaked(g, named)]
  BY <1>4 DEF States
<1>11. RoundsOf(g, q, named, seed, f)
  BY <1>3, <1>5, <1>8, <1>9 DEF RoundsOf, first
<1> QED BY <1>10, <1>11

\* The nodes within each number of steps of the seed.
LEMMA SpreadExpands ==
    ASSUME NEW g, NEW q, NEW named, NEW seed \in DOMAIN g.node
    PROVE  /\ Expands(Turned(g, q, named), {seed}, [k \in Nat |-> Spread(g, q, named, seed, k)])
           /\ \A k \in Nat : Spread(g, q, named, seed, k) \subseteq DOMAIN g.node
<1> DEFINE Nodes == SUBSET DOMAIN g.node
           Turn(X) == X \cup {b \in DOMAIN g.node : \E a \in X : CallStep(g, q, named, a, b)}
           R == CHOOSE R : R = [k \in Nat |-> IF k = 0 THEN {seed}
                                              ELSE R[k - 1] \cup {b \in DOMAIN g.node : \E a \in R[k - 1] : CallStep(g, q, named, a, b)}]
           step == [k \in Nat |-> [X \in Nodes |-> Turn(X)]]
           h == Turned(g, q, named)
<1>1. \A X \in Nodes : Turn(X) \in Nodes /\ Turn(X) = X \cup Callers(h, X)
  <2> SUFFICES ASSUME NEW X \in Nodes PROVE Turn(X) \in Nodes /\ Turn(X) = X \cup Callers(h, X)
    OBVIOUS
  <2>1. Callers(h, X) = {b \in DOMAIN g.node : \E a \in X : CallStep(g, q, named, a, b)}
    BY StepsBehind
  <2> QED BY <2>1
<1>2. \A n : Spread(g, q, named, seed, n) = R[n]
  BY DEF Spread
<1> HIDE DEF h
<1>3. step \in [Nat -> [Nodes -> Nodes]] /\ {seed} \in Nodes /\ \A k \in Nat : \A X \in Nodes : step[k][X] = Turn(X)
  <2> HIDE DEF Turn
  <2>1. \A X \in Nodes : Turn(X) \in Nodes
    BY <1>1
  <2>2. {seed} \in Nodes
    OBVIOUS
  <2> HIDE DEF Nodes
  <2>3. [X \in Nodes |-> Turn(X)] \in [Nodes -> Nodes]
    BY <2>1
  <2> QED BY <2>2, <2>3
<1> HIDE DEF step, Nodes
<1>4. PICK f \in [Nat -> Nodes] : Loops(f, {seed}, step)
  BY <1>3, Recursion
<1>5. f[0] = {seed} /\ \A k \in Nat : k # 0 => f[k] = Turn(f[k - 1])
  <2> HIDE DEF Turn
  <2>1. f[0] = {seed}
    BY <1>4 DEF Loops
  <2>2. ASSUME NEW k \in Nat, k # 0 PROVE f[k] = Turn(f[k - 1])
    <3>1. k - 1 \in Nat /\ f[k - 1] \in Nodes /\ f[k] = step[k][f[k - 1]]
      BY <2>2, <1>4 DEF Loops
    <3> QED BY <3>1, <1>3
  <2> QED BY <2>1, <2>2
<1>6. f = [k \in Nat |-> IF k = 0 THEN {seed} ELSE Turn(f[k - 1])]
  <2> HIDE DEF Turn
  <2> QED BY <1>5
<1>7. R = [k \in Nat |-> IF k = 0 THEN {seed} ELSE Turn(R[k - 1])]
  BY <1>6, ZenonT(60)
<1> HIDE DEF R, Turn
<1>8. R[0] = {seed} /\ \A k \in Nat : R[k + 1] = Turn(R[k])
  <2>1. R[0] = {seed}
    BY <1>7
  <2>2. ASSUME NEW k \in Nat PROVE R[k + 1] = Turn(R[k])
    <3>1. k + 1 \in Nat /\ k + 1 # 0 /\ (k + 1) - 1 = k
      OBVIOUS
    <3>2. R[k + 1] = Turn(R[(k + 1) - 1])
      BY <3>1, <1>7
    <3> QED BY <3>1, <3>2
  <2> QED BY <2>1, <2>2
<1>9. \A k \in Nat : R[k] \in Nodes
  <2> DEFINE T == {k \in Nat : R[k] \in Nodes}
  <2>1. 0 \in T
    BY <1>3, <1>8
  <2>2. ASSUME NEW k \in Nat, k \in T PROVE k + 1 \in T
    <3>1. R[k] \in Nodes /\ R[k + 1] = Turn(R[k])
      BY <2>2, <1>8
    <3>2. R[k + 1] \in Nodes
      BY <3>1, <1>1
    <3> QED BY <3>2
  <2>3. Nat \subseteq T
    <3> HIDE DEF T
    <3> QED BY <2>1, <2>2, Induct
  <2> QED BY <2>3
<1> DEFINE W == [k \in Nat |-> Spread(g, q, named, seed, k)]
<1>10. \A k \in Nat : W[k] = R[k]
  BY <1>2
<1> HIDE DEF W
<1>11. \A k \in Nat : W[k + 1] = W[k] \cup Callers(h, W[k])
  <2> SUFFICES ASSUME NEW k \in Nat PROVE W[k + 1] = W[k] \cup Callers(h, W[k])
    OBVIOUS
  <2>1. W[k + 1] = Turn(R[k]) /\ W[k] = R[k] /\ R[k] \in Nodes
    BY <1>8, <1>9, <1>10
  <2> QED BY <2>1, <1>1
<1>12. Expands(h, {seed}, W)
  BY <1>8, <1>10, <1>11 DEF Expands
<1> QED BY <1>2, <1>9, <1>12 DEF W, h, Nodes

\* A node is at one distance only.
LEMMA AwayOnce ==
    ASSUME NEW W, NEW x, NEW a \in Nat, NEW b \in Nat, Away(W, a, x), Away(W, b, x)
    PROVE  a = b
<1>1. ~(a < b) /\ ~(b < a)
  BY DEF Away
<1> QED BY <1>1

\* What the search for a flow knows: the parent of a node it has met is one
\* step nearer to the seed, and no named symbol that it has taken is farther
\* than the deepest.
Follow(g, q, named, W, parent, x) ==
    \E k \in Nat : /\ k < maxHops - 1 /\ parent[x] \in DOMAIN parent
                   /\ Away(W, k, parent[x]) /\ Away(W, k + 1, x) /\ CallStep(g, q, named, parent[x], x)
FlowKnows(g, q, named, seed, W, s) ==
    /\ seed \in DOMAIN s.parent /\ s.parent[seed] = seed
    /\ \A x \in DOMAIN s.parent : x # seed => Follow(g, q, named, W, s.parent, x)
    /\ s.deep.id \in named \cap DOMAIN s.parent /\ Away(W, s.deep.d, s.deep.id)
    /\ \A x \in Done(s.queue, DOMAIN s.parent) \cap named, d \in Nat : Away(W, d, x) => d <= s.deep.d

\* What the search knows, it knows after one more round.
LEMMA FlowStep ==
    ASSUME NEW g, IsSized(g), NEW q, NEW named, NEW seed, NEW W, NEW s \in Streaked(g, named), s.queue # <<>>,
           maxHops > 1, Expands(Turned(g, q, named), {seed}, W),
           Knows(Turned(g, q, named), maxHops - 1, {seed}, W, s.queue, DOMAIN s.parent), FlowKnows(g, q, named, seed, W, s)
    PROVE  FlowKnows(g, q, named, seed, W, FlowRound(g, q, named, s))
<1> DEFINE h == Turned(g, q, named)
           depth == maxHops - 1
           cur == s.queue[1]
           met == DOMAIN s.parent
           after == FlowRound(g, q, named, s)
           met1 == DOMAIN after.parent
<1>1. s \in Flowing(g) /\ Streaks(s.queue, named)
  BY DEF Streaked
<1>2. /\ after \in Flowing(g)
      /\ Moved(h, Behind(h, depth, s.queue), s.queue, met, after.queue, met1) /\ Leads(named, s, after)
  BY <1>1, FlowMoves
<1> HIDE DEF after
<1>3. depth \in Nat \ {0} /\ maxHops \in Nat
  BY ExploreAssumption
<1>4. Len(s.queue) # 0 /\ cur \in Hop(g) /\ s.deep \in Hop(g)
  <2> DEFINE p == s.queue
  <2>1. p \in Seq(Hop(g)) /\ p # <<>> /\ s.deep \in Hop(g)
    BY <1>1 DEF Flowing
  <2> HIDE DEF p
  <2>2. Len(p) # 0 /\ p[1] \in Hop(g)
    BY <2>1
  <2> QED BY <2>1, <2>2 DEF p
<1> HIDE DEF h, depth
<1>5. Advances(h, depth, s.queue, met, after.queue, met1)
  BY <1>2, <1>4 DEF Advances
<1>6. Expands(h, {seed}, W) /\ Knows(h, depth, {seed}, W, s.queue, met)
  BY DEF h, depth
<1>7. Takes(h, depth, W, s.queue, met, after.queue, met1)
  <2> HIDE DEF met, met1
  <2> QED BY <1>3, <1>4, <1>5, <1>6, RoundKnows
<1>8. /\ Done(after.queue, met1) = Done(s.queue, met) \cup {cur.id} /\ cur.id \in met /\ cur.d \in Nat /\ Away(W, cur.d, cur.id)
      /\ \A x \in met1 \ met : x \in Behind(h, depth, s.queue) /\ cur.d < depth /\ Away(W, cur.d + 1, x)
  BY <1>7 DEF Takes
<1>9. met \subseteq met1 /\ seed \in met /\ s.parent[seed] = seed
  BY <1>2 DEF Moved, FlowKnows
<1>10. /\ \A x \in met : after.parent[x] = s.parent[x]
       /\ \A x \in met1 \ met : after.parent[x] = cur.id
       /\ after.deep = IF cur.id \in named /\ cur.d > s.deep.d THEN cur ELSE s.deep
  BY <1>2 DEF Leads
<1>11. ASSUME NEW x \in met1, x # seed PROVE Follow(g, q, named, W, after.parent, x)
  <2>1. CASE x \in met
    <3>1. PICK k \in Nat : /\ k < maxHops - 1 /\ s.parent[x] \in met
                           /\ Away(W, k, s.parent[x]) /\ Away(W, k + 1, x) /\ CallStep(g, q, named, s.parent[x], x)
      BY <1>11, <2>1 DEF FlowKnows, Follow
    <3>2. after.parent[x] = s.parent[x] /\ s.parent[x] \in met1
      BY <1>9, <1>10, <2>1, <3>1
    <3> QED BY <3>1, <3>2 DEF Follow
  <2>2. CASE x \notin met
    <3>1. after.parent[x] = cur.id /\ cur.id \in met1 /\ cur.d < depth /\ Away(W, cur.d + 1, x) /\ x \in Behind(h, depth, s.queue)
      BY <1>8, <1>9, <1>10, <1>11, <2>2
    <3>2. CallStep(g, q, named, cur.id, x)
      <4>1. x \in Callers(h, {cur.id})
        BY <3>1 DEF Behind
      <4>2. {cur.id} \in SUBSET DOMAIN g.node
        BY <1>4 DEF Hop
      <4> HIDE DEF cur
      <4>3. x \in {b \in DOMAIN g.node : \E a \in {cur.id} : CallStep(g, q, named, a, b)}
        BY <4>1, <4>2, StepsBehind DEF h
      <4> QED BY <4>3
    <3>3. cur.d < maxHops - 1
      BY <3>1 DEF depth
    <3> HIDE DEF cur
    <3> QED BY <1>8, <3>1, <3>2, <3>3 DEF Follow
  <2> QED BY <2>1, <2>2
<1>12. after.deep.id \in named \cap met1 /\ Away(W, after.deep.d, after.deep.id)
  BY <1>8, <1>9, <1>10 DEF FlowKnows
<1>13. ASSUME NEW x \in Done(after.queue, met1) \cap named, NEW d \in Nat, Away(W, d, x)
       PROVE  d <= after.deep.d
  <2>1. s.deep.d <= after.deep.d /\ s.deep.d \in Nat /\ after.deep.d \in Nat
    BY <1>4, <1>10 DEF Hop
  <2>2. CASE x \in Done(s.queue, met)
    <3>1. d <= s.deep.d
      BY <1>13, <2>2 DEF FlowKnows
    <3> QED BY <2>1, <3>1
  <2>3. CASE x = cur.id
    <3>1. d = cur.d
      BY <1>8, <1>13, <2>3, AwayOnce
    <3>2. cur.d <= after.deep.d
      BY <1>4, <1>10, <1>13, <2>3 DEF Hop
    <3> QED BY <3>1, <3>2
  <2> QED BY <1>8, <1>13, <2>2, <2>3
<1>14. seed \in met1 /\ after.parent[seed] = seed
  BY <1>9, <1>10
<1> HIDE DEF met, met1, cur
<1> QED BY <1>11, <1>12, <1>13, <1>14 DEF FlowKnows, after, met1

\* The search ends, and has taken every node within its reach.
LEMMA FlowExact ==
    ASSUME NEW g, IsSized(g), NEW q, NEW named, NEW seed \in DOMAIN g.node, seed \in named, maxHops > 1,
           NEW W, Expands(Turned(g, q, named), {seed}, W)
    PROVE  LET s == FlowSearch(g, q, named, seed)
           IN  /\ s \in Flowing(g) /\ FlowKnows(g, q, named, seed, W, s)
               /\ \A x \in named, d \in 0 .. maxHops - 1 : Away(W, d, x) => d <= s.deep.d
<1> DEFINE h == Turned(g, q, named)
           depth == maxHops - 1
           N == Cardinality(DOMAIN g.node)
<1>0. PICK at \in [Nat -> Streaked(g, named)] : RoundsOf(g, q, named, seed, at)
  BY FlowRounds
<1>1. /\ at[0] = FirstFlow(seed) /\ \A k \in Nat : at[k + 1] = FlowRound(g, q, named, at[k])
      /\ FlowSearch(g, q, named, seed) = at[N]
  BY <1>0 DEF RoundsOf
<1> DEFINE Q == [k \in Nat |-> at[k].queue]
           M == [k \in Nat |-> DOMAIN at[k].parent]
<1>2. depth \in Nat \ {0} /\ h.node = g.node /\ IsFiniteSet(DOMAIN g.node) /\ N \in Nat
  BY ExploreAssumption, FS_CardinalityType DEF Turned, IsSized
<1>3. \A k \in Nat : /\ at[k] \in Flowing(g) /\ Streaks(at[k].queue, named)
                     /\ (at[k].queue = <<>> <=> Len(Q[k]) = 0) /\ (Len(Q[k]) = 0 => at[k + 1] = at[k])
  <2> SUFFICES ASSUME NEW k \in Nat
               PROVE  /\ at[k] \in Flowing(g) /\ Streaks(at[k].queue, named)
                      /\ (at[k].queue = <<>> <=> Len(Q[k]) = 0) /\ (Len(Q[k]) = 0 => at[k + 1] = at[k])
    OBVIOUS
  <2>1. at[k] \in Flowing(g) /\ Streaks(at[k].queue, named)
    BY <1>1 DEF Streaked
  <2>2. at[k].queue \in Seq(Hop(g))
    BY <2>1 DEF Flowing
  <2>3. at[k].queue = <<>> <=> Len(Q[k]) = 0
    BY <2>2, HopQueue
  <2>4. at[k].queue = <<>> => at[k + 1] = at[k]
    BY <1>1 DEF FlowRound
  <2> QED BY <2>1, <2>3, <2>4
<1>4. Expands(h, {seed}, W) /\ W[0] = {seed}
  BY DEF Expands
<1>5. ASSUME NEW k \in Nat PROVE Advances(h, depth, Q[k], M[k], Q[k + 1], M[k + 1])
  <2>1. CASE Len(Q[k]) = 0
    BY <1>3, <2>1 DEF Advances
  <2>2. CASE Len(Q[k]) # 0
    <3> DEFINE s == at[k]
               after == at[k + 1]
    <3>1. s \in Flowing(g) /\ s.queue # <<>> /\ Streaks(s.queue, named) /\ after = FlowRound(g, q, named, s)
      BY <1>1, <1>3, <2>2
    <3>2. Q[k] = s.queue /\ M[k] = DOMAIN s.parent /\ Q[k + 1] = after.queue /\ M[k + 1] = DOMAIN after.parent
      OBVIOUS
    <3> HIDE DEF s, after, Q, M
    <3>3. Moved(h, Behind(h, depth, s.queue), s.queue, DOMAIN s.parent, after.queue, DOMAIN after.parent)
      BY <3>1, FlowMoves
    <3> HIDE DEF h, depth
    <3> QED BY <2>2, <3>2, <3>3 DEF Advances
  <2> QED BY <2>1, <2>2
<1>6. Knows(h, depth, {seed}, W, Q[0], M[0]) /\ Done(Q[0], M[0]) = {}
  <2> DEFINE q0 == <<FirstHop(seed)>>
  <2>1. Q[0] = q0 /\ M[0] = {seed}
    BY <1>1 DEF FirstFlow
  <2>2. DOMAIN q0 = {1} /\ q0[1].id = seed /\ q0[1].d = 0 /\ Len(q0) = 1
    BY DEF FirstHop
  <2> HIDE DEF q0, Q, M, h, depth
  <2>3. Queue(h, q0)
    BY <1>2, <2>2 DEF Queue, h
  <2>4. Ids(q0) = {seed} /\ Ranked(q0) /\ Exact(q0, W)
    BY <1>4, <2>2 DEF Ids, Ranked, Exact
  <2>5. Done(q0, {seed}) = {}
    BY <2>4 DEF Done
  <2>6. Callers(h, Done(q0, {seed}) \cap W[depth - 1]) = {}
    BY <2>5 DEF Callers, Into
  <2>7. {seed} \subseteq DOMAIN h.node
    BY <1>2
  <2> QED BY <2>1, <2>3, <2>4, <2>5, <2>6, <2>7 DEF Knows
<1>7. /\ \A k \in Nat : Knows(h, depth, {seed}, W, Q[k], M[k])
      /\ Done(Q[N], M[N]) = M[N] /\ W[depth] \subseteq M[N]
  <2> HIDE DEF Q, M, h, depth
  <2>1. N = Cardinality(DOMAIN h.node) /\ IsFiniteSet(DOMAIN h.node)
    BY <1>2
  <2> HIDE DEF N
  <2>2. LET n == Cardinality(DOMAIN h.node)
        IN  /\ \A k \in Nat : Knows(h, depth, {seed}, W, Q[k], M[k])
            /\ Len(Q[n]) = 0 /\ Done(Q[n], M[n]) = M[n] /\ W[depth] \subseteq M[n]
    <3>1. /\ depth \in Nat \ {0} /\ Expands(h, {seed}, W) /\ Knows(h, depth, {seed}, W, Q[0], M[0])
          /\ \A k \in Nat : Advances(h, depth, Q[k], M[k], Q[k + 1], M[k + 1])
      BY <1>2, <1>4, <1>5, <1>6
    <3> QED BY <2>1, <3>1, SearchEnds
  <2> QED BY <2>1, <2>2
<1> DEFINE T == {k \in Nat : FlowKnows(g, q, named, seed, W, at[k])}
<1>8. 0 \in T
  <2> DEFINE s == at[0]
  <2>1. /\ DOMAIN s.parent = {seed} /\ s.parent[seed] = seed /\ s.deep.id = seed /\ s.deep.d = 0
        /\ s.queue = Q[0] /\ M[0] = DOMAIN s.parent
    BY <1>1 DEF FirstFlow, FirstHop
  <2>2. Done(s.queue, DOMAIN s.parent) = {}
    BY <1>6, <2>1
  <2>3. Away(W, 0, seed)
    BY <1>4 DEF Away
  <2> HIDE DEF s
  <2>4. FlowKnows(g, q, named, seed, W, s)
    BY <2>1, <2>2, <2>3 DEF FlowKnows
  <2> QED BY <2>4 DEF s
<1>9. ASSUME NEW k \in Nat, k \in T PROVE k + 1 \in T
  <2> DEFINE s == at[k]
             after == at[k + 1]
  <2>1. FlowKnows(g, q, named, seed, W, s) /\ k + 1 \in Nat /\ s \in Streaked(g, named) /\ after = FlowRound(g, q, named, s)
    BY <1>1, <1>9
  <2>2. CASE s.queue = <<>>
    <3>1. after = s
      BY <2>1, <2>2 DEF FlowRound
    <3> QED BY <2>1, <3>1
  <2>3. CASE s.queue # <<>>
    <3>1. Knows(h, depth, {seed}, W, s.queue, DOMAIN s.parent)
      <4>1. Q[k] = s.queue /\ M[k] = DOMAIN s.parent
        OBVIOUS
      <4> HIDE DEF Q, M, s
      <4> QED BY <1>7, <4>1
    <3> HIDE DEF s, after
    <3>2. FlowKnows(g, q, named, seed, W, after)
      BY <2>1, <2>3, <3>1, FlowStep
    <3> QED BY <2>1, <3>2 DEF after
  <2> QED BY <2>2, <2>3
<1>10. N \in T
  <2> HIDE DEF T
  <2> QED BY <1>2, <1>8, <1>9, Induct
<1> DEFINE s == at[N]
<1>11. s \in Flowing(g) /\ FlowKnows(g, q, named, seed, W, s) /\ s = FlowSearch(g, q, named, seed)
  BY <1>1, <1>2, <1>3, <1>10
<1>12. Done(s.queue, DOMAIN s.parent) = DOMAIN s.parent /\ W[depth] \subseteq DOMAIN s.parent
  <2>1. Q[N] = s.queue /\ M[N] = DOMAIN s.parent
    BY <1>2
  <2> HIDE DEF Q, M, s
  <2> QED BY <1>7, <2>1
<1>13. ASSUME NEW x \in named, NEW d \in 0 .. maxHops - 1, Away(W, d, x) PROVE d <= s.deep.d
  <2>1. d \in Nat /\ d <= depth
    BY <1>2
  <2> HIDE DEF s, depth
  <2>2. W[d] \subseteq W[depth]
    BY <1>2, <1>4, <2>1, WithinMore
  <2>3. x \in DOMAIN s.parent
    BY <1>12, <1>13, <2>2 DEF Away
  <2> QED BY <1>11, <1>12, <1>13, <2>1, <2>3 DEF FlowKnows
<1> QED BY <1>11, <1>13

\* The chain of the parents from id back to the seed, turned round.
LEMMA ChainExact ==
    ASSUME NEW D, IsFiniteSet(D), NEW parent \in [D -> D], NEW seed \in D, NEW id \in D, NEW W, W[0] = {seed},
           \A x \in D : x # seed => \E k \in Nat : Away(W, k, parent[x]) /\ Away(W, k + 1, x),
           NEW d \in Nat, Away(W, d, id)
    PROVE  LET c == Chain(parent, seed, id)
           IN  /\ c \in Seq(D) /\ Len(c) = d + 1 /\ c[1] = seed /\ c[d + 1] = id
               /\ \A k \in 1 .. d : c[k] = parent[c[k + 1]] /\ c[k + 1] # seed
               /\ IsInjective(c)
<1> DEFINE R == CHOOSE R : R = [k \in Nat |-> IF k = 0 THEN id ELSE parent[R[k - 1]]]
           step == [k \in Nat |-> parent]
           n == Min({k \in 0 .. Cardinality(D) : R[k] = seed})
<1>1. Chain(parent, seed, id) = [k \in 1 .. n + 1 |-> R[n + 1 - k]]
  BY DEF Chain
<1> HIDE DEF n
<1>2. step \in [Nat -> [D -> D]]
  OBVIOUS
<1>3. PICK f \in [Nat -> D] : Loops(f, id, step)
  <2> HIDE DEF step
  <2> QED BY <1>2, Recursion
<1>4. f = [k \in Nat |-> IF k = 0 THEN id ELSE parent[f[k - 1]]]
  <2>1. f[0] = id /\ \A k \in Nat : k # 0 => f[k] = parent[f[k - 1]]
    BY <1>3 DEF Loops
  <2> QED BY <2>1
<1>5. R = [k \in Nat |-> IF k = 0 THEN id ELSE parent[R[k - 1]]]
  BY <1>4, Zenon
<1>6. R[0] = id /\ \A k \in Nat : R[k + 1] = parent[R[k]]
  <2> HIDE DEF R
  <2>1. R[0] = id
    BY <1>5
  <2>2. ASSUME NEW k \in Nat PROVE R[k + 1] = parent[R[k]]
    <3>1. k + 1 \in Nat /\ k + 1 # 0 /\ (k + 1) - 1 = k
      OBVIOUS
    <3>2. R[k + 1] = parent[R[(k + 1) - 1]]
      BY <3>1, <1>5
    <3> QED BY <3>1, <3>2
  <2> QED BY <2>1, <2>2
<1> HIDE DEF R
<1>7. \A k \in Nat : R[k] \in D
  <2> DEFINE T == {k \in Nat : R[k] \in D}
  <2>1. 0 \in T
    BY <1>6
  <2>2. ASSUME NEW k \in Nat, k \in T PROVE k + 1 \in T
    BY <1>6, <2>2
  <2>3. Nat \subseteq T
    <3> HIDE DEF T
    <3> QED BY <2>1, <2>2, Induct
  <2> QED BY <2>3
<1>8. Away(W, 0, seed) /\ \A m \in Nat \ {0} : ~Away(W, m, seed)
  <2>1. seed \in W[0] /\ ~(\E m \in Nat : m < 0)
    OBVIOUS
  <2>2. ASSUME NEW m \in Nat \ {0} PROVE ~Away(W, m, seed)
    <3>1. m \in Nat /\ 0 \in Nat /\ 0 < m
      OBVIOUS
    <3> QED BY <2>1, <3>1 DEF Away
  <2>3. Away(W, 0, seed)
    BY <2>1 DEF Away
  <2> QED BY <2>2, <2>3
<1>9. \A k \in Nat : k <= d => Away(W, d - k, R[k])
  <2> DEFINE T == {k \in Nat : k <= d => Away(W, d - k, R[k])}
  <2>1. 0 \in T
    BY <1>6
  <2>2. ASSUME NEW k \in Nat, k \in T PROVE k + 1 \in T
    <3> SUFFICES ASSUME k + 1 <= d PROVE Away(W, d - (k + 1), R[k + 1])
      OBVIOUS
    <3> DEFINE m == d - k
    <3>1. m \in Nat \ {0} /\ d - (k + 1) = m - 1 /\ m - 1 \in Nat
      OBVIOUS
    <3>2. Away(W, m, R[k])
      BY <2>2
    <3> HIDE DEF m
    <3>3. R[k] # seed /\ R[k] \in D
      BY <1>7, <1>8, <3>1, <3>2
    <3>4. PICK j \in Nat : Away(W, j, parent[R[k]]) /\ Away(W, j + 1, R[k])
      BY <3>3
    <3>5. j + 1 = m
      BY <3>1, <3>2, <3>4, AwayOnce
    <3>6. j = m - 1
      BY <3>1, <3>5
    <3> QED BY <1>6, <3>1, <3>4, <3>6
  <2>3. Nat \subseteq T
    <3> HIDE DEF T
    <3> QED BY <2>1, <2>2, Induct
  <2> QED BY <2>3
<1>10. \A i, j \in 0 .. d : R[i] = R[j] => i = j
  <2> SUFFICES ASSUME NEW i \in 0 .. d, NEW j \in 0 .. d, R[i] = R[j] PROVE i = j
    OBVIOUS
  <2>1. d - i \in Nat /\ d - j \in Nat /\ Away(W, d - i, R[i]) /\ Away(W, d - j, R[i])
    BY <1>9
  <2>2. d - i = d - j
    BY <2>1, AwayOnce
  <2> QED BY <2>2
<1>11. R[d] = seed
  <2>1. Away(W, 0, R[d])
    BY <1>9
  <2> QED BY <2>1 DEF Away
<1>12. d <= Cardinality(D) /\ Cardinality(D) \in Nat
  <2> DEFINE F == [k \in 0 .. d |-> R[k]]
  <2>1. F \in [0 .. d -> D]
    BY <1>7
  <2>2. IsFiniteSet(0 .. d) /\ Cardinality(0 .. d) = d + 1
    BY FS_Interval
  <2>3. Cardinality(D) \in Nat
    BY FS_CardinalityType
  <2>4. ~(Cardinality(D) < Cardinality(0 .. d))
    <3> SUFFICES ASSUME Cardinality(D) < Cardinality(0 .. d) PROVE FALSE
      OBVIOUS
    <3> DEFINE I == 0 .. d
    <3>1. F \in [I -> D] /\ IsFiniteSet(I) /\ Cardinality(D) < Cardinality(I)
      BY <2>1, <2>2
    <3> HIDE DEF F, I
    <3>2. \E x, y \in I : x # y /\ F[x] = F[y]
      BY <3>1, FS_PigeonHole
    <3> QED BY <1>10, <3>2 DEF F, I
  <2> QED BY <2>2, <2>3, <2>4
<1>13. n = d
  <2> DEFINE Z == {k \in 0 .. Cardinality(D) : R[k] = seed}
  <2>1. Z \in SUBSET Nat /\ d \in Z
    BY <1>11, <1>12
  <2> HIDE DEF Z
  <2>2. Min(Z) \in Z /\ Min(Z) <= d
    BY <2>1, MinIsLeast
  <2>3. n \in Nat /\ R[n] = seed /\ n <= d
    BY <2>1, <2>2 DEF Z, n
  <2>4. Away(W, d - n, seed) /\ d - n \in Nat
    BY <1>9, <2>3
  <2>5. d - n = 0
    BY <1>8, <2>4
  <2> QED BY <2>3, <2>5
<1> DEFINE c == [k \in 1 .. d + 1 |-> R[d + 1 - k]]
<1>14. Chain(parent, seed, id) = c
  BY <1>1, <1>13
<1>15. c \in [1 .. d + 1 -> D] /\ \A k \in 1 .. d + 1 : c[k] = R[d + 1 - k]
  <2>1. \A k \in 1 .. d + 1 : d + 1 - k \in Nat
    OBVIOUS
  <2> QED BY <1>7, <2>1
<1> HIDE DEF c
<1>16. c \in Seq(D) /\ Len(c) = d + 1 /\ DOMAIN c = 1 .. d + 1
  <2> DEFINE m == d + 1
  <2>1. m \in Nat /\ c \in [1 .. m -> D]
    BY <1>15
  <2> HIDE DEF m
  <2>2. c \in Seq(D) /\ Len(c) = m
    BY <2>1, ListOf
  <2> QED BY <1>15, <2>2 DEF m
<1>17. c[1] = seed /\ c[d + 1] = id
  <2>1. 1 \in 1 .. d + 1 /\ d + 1 \in 1 .. d + 1 /\ d + 1 - 1 = d /\ d + 1 - (d + 1) = 0
    OBVIOUS
  <2>2. c[1] = R[d] /\ c[d + 1] = R[0]
    BY <1>15, <2>1
  <2> QED BY <1>6, <1>11, <2>2
<1>18. ASSUME NEW k \in 1 .. d PROVE c[k] = parent[c[k + 1]] /\ c[k + 1] # seed
  <2> DEFINE j == d - k
  <2>1. j \in Nat /\ j < d /\ d + 1 - k = j + 1 /\ d + 1 - (k + 1) = j /\ k \in 1 .. d + 1 /\ k + 1 \in 1 .. d + 1
    OBVIOUS
  <2>2. c[k] = R[d + 1 - k] /\ c[k + 1] = R[d + 1 - (k + 1)]
    BY <1>15, <2>1
  <2>3. c[k] = R[j + 1] /\ c[k + 1] = R[j]
    BY <2>1, <2>2
  <2> HIDE DEF j
  <2>4. R[j] # seed
    BY <1>10, <1>11, <2>1
  <2> QED BY <1>6, <2>1, <2>3, <2>4
<1>19. IsInjective(c)
  <2> SUFFICES ASSUME NEW i \in 1 .. d + 1, NEW j \in 1 .. d + 1, c[i] = c[j] PROVE i = j
    BY <1>16 DEF IsInjective
  <2> DEFINE a == d + 1 - i
             b == d + 1 - j
  <2>1. a \in 0 .. d /\ b \in 0 .. d /\ i = d + 1 - a /\ j = d + 1 - b
    OBVIOUS
  <2>2. c[i] = R[a] /\ c[j] = R[b]
    BY <1>15
  <2>3. R[a] = R[b]
    BY <2>2
  <2> HIDE DEF a, b
  <2>4. a = b
    BY <1>10, <2>1, <2>3
  <2> QED BY <2>1, <2>4
<1> QED BY <1>14, <1>16, <1>17, <1>18, <1>19

\* A flow of one seed or of several, and the distances of the named symbols
\* from them: it is as long as the greatest.
IsFlow(g, q, named, path) ==
    /\ path \in Seq(DOMAIN g.node)
    /\ path # <<>> =>
          /\ \A k \in 1 .. Len(path) - 1 : CallStep(g, q, named, path[k], path[k + 1])
          /\ IsInjective(path) /\ {path[1], path[Len(path)]} \subseteq named
          /\ {g.node[n].file : n \in ToSet(path)} \subseteq q.root
Reaches(g, q, named, s) ==
    {k \in 1 .. maxHops - 1 : \E n \in named : n \in Spread(g, q, named, s, k) \ Spread(g, q, named, s, k - 1)}
LongAs(path, F) == IF F = {} THEN Len(path) = 0 ELSE Len(path) - 1 \in F /\ \A k \in F : k + 1 <= Len(path)

\* The flow of one seed: a call path, as long as its farthest named symbol is away.
LEMMA FlowFromSeed ==
    ASSUME NEW g, IsSized(g), NEW q, NEW named \in SUBSET DOMAIN g.node, \A i \in named : g.node[i].file \in q.root,
           NEW seed \in named, maxHops > 1
    PROVE  LET path == FlowFrom(g, q, named, seed)
           IN  IsFlow(g, q, named, path) /\ LongAs(path, Reaches(g, q, named, seed))
<1> DEFINE W == [k \in Nat |-> Spread(g, q, named, seed, k)]
           s == FlowSearch(g, q, named, seed)
           path == FlowFrom(g, q, named, seed)
           F == Reaches(g, q, named, seed)
           h == Turned(g, q, named)
           D == DOMAIN s.parent
           d == s.deep.d
<1>1. seed \in DOMAIN g.node /\ maxHops - 1 \in Nat /\ maxHops \in Nat
  BY ExploreAssumption
<1>2. Expands(h, {seed}, W)
  BY <1>1, SpreadExpands
<1>3. \A k \in Nat : W[k] = Spread(g, q, named, seed, k)
  OBVIOUS
<1> HIDE DEF W
<1>4. /\ s \in Flowing(g) /\ FlowKnows(g, q, named, seed, W, s)
      /\ \A x \in named, k \in 0 .. maxHops - 1 : Away(W, k, x) => k <= d
  BY <1>1, <1>2, FlowExact
<1> HIDE DEF s
<1>5. /\ seed \in D /\ s.parent[seed] = seed /\ \A x \in D : x # seed => Follow(g, q, named, W, s.parent, x)
      /\ s.deep.id \in named \cap D /\ Away(W, d, s.deep.id)
  BY <1>4 DEF FlowKnows
<1>6. d \in Nat /\ D \in SUBSET DOMAIN g.node /\ s.parent \in [D -> DOMAIN g.node] /\ IsFiniteSet(D)
  <2>1. s.deep \in Hop(g) /\ s.parent \in Parents(g)
    BY <1>4 DEF Flowing
  <2>2. D \in SUBSET DOMAIN g.node /\ s.parent \in [D -> DOMAIN g.node]
    BY <2>1 DEF Parents
  <2>3. IsFiniteSet(D)
    BY <2>2, FS_Subset DEF IsSized
  <2> QED BY <2>1, <2>2, <2>3 DEF Hop
<1>7. W[0] = {seed} /\ \A k \in Nat : W[k] \subseteq W[k + 1]
  BY <1>2 DEF Expands
<1>8. \A x : \A k \in Nat \ {0} : Away(W, k, x) <=> x \in W[k] /\ x \notin W[k - 1]
  <2> SUFFICES ASSUME NEW x, NEW k \in Nat \ {0} PROVE Away(W, k, x) <=> x \in W[k] /\ x \notin W[k - 1]
    OBVIOUS
  <2>1. Away(W, k, x) => x \in W[k] /\ x \notin W[k - 1]
    BY DEF Away
  <2>2. ASSUME x \in W[k], x \notin W[k - 1] PROVE Away(W, k, x)
    <3>1. ASSUME NEW m \in Nat, m < k PROVE x \notin W[m]
      <4> DEFINE j == k - 1
      <4>1. j \in Nat /\ m <= j
        BY <3>1
      <4> HIDE DEF j
      <4>2. W[m] \subseteq W[j]
        BY <1>2, <4>1, WithinMore
      <4> QED BY <2>2, <4>2 DEF j
    <3> QED BY <2>2, <3>1 DEF Away
  <2> QED BY <2>1, <2>2
<1>9. F = {k \in 1 .. maxHops - 1 : \E n \in named : Away(W, k, n)}
  <2>1. \A k \in 1 .. maxHops - 1 : k \in Nat \ {0} /\ k - 1 \in Nat
    OBVIOUS
  <2>2. \A k \in 1 .. maxHops - 1, n \in named :
           Away(W, k, n) <=> n \in Spread(g, q, named, seed, k) \ Spread(g, q, named, seed, k - 1)
    BY <1>3, <1>8, <2>1
  <2> QED BY <2>2 DEF Reaches
<1> HIDE DEF F
<1>10. \A k \in F : k <= d /\ k \in Nat \ {0}
  <2>1. \A k \in F : k \in 0 .. maxHops - 1 /\ k \in Nat \ {0}
    BY <1>1, <1>9
  <2> QED BY <1>4, <1>9, <2>1
<1>11. CASE d = 0
  <2>1. path = <<>>
    BY <1>11 DEF FlowFrom, s
  <2>2. F = {}
    BY <1>10, <1>11
  <2> QED BY <2>1, <2>2 DEF IsFlow, LongAs, F
<1>12. CASE d # 0
  <2> DEFINE c == Chain(s.parent, seed, s.deep.id)
             parent == s.parent
             id == s.deep.id
  <2>1. path = c
    BY <1>12 DEF FlowFrom, s
  <2>2. \A x \in D : x # seed => \E k \in Nat : /\ k < maxHops - 1 /\ parent[x] \in D
                           /\ Away(W, k, parent[x]) /\ Away(W, k + 1, x) /\ CallStep(g, q, named, parent[x], x)
    BY <1>5 DEF Follow
  <2>3. parent \in [D -> D] /\ id \in D /\ id \in named
    <3>1. \A x \in D : parent[x] \in D
      BY <1>5, <2>2
    <3> HIDE DEF D
    <3> QED BY <1>5, <1>6, <3>1
  <2> HIDE DEF parent, id, D, d
  <2>4. /\ c \in Seq(D) /\ Len(c) = d + 1 /\ c[1] = seed /\ c[d + 1] = id
        /\ \A k \in 1 .. d : c[k] = parent[c[k + 1]] /\ c[k + 1] # seed
        /\ IsInjective(c)
    <3>1. \A x \in D : x # seed => \E k \in Nat : Away(W, k, parent[x]) /\ Away(W, k + 1, x)
      BY <2>2
    <3>2. Away(W, d, id) /\ seed \in D /\ IsFiniteSet(D) /\ d \in Nat
      BY <1>5, <1>6 DEF id
    <3> QED BY <1>7, <2>3, <3>1, <3>2, ChainExact DEF parent, id
  <2> HIDE DEF c
  <2>5. DOMAIN c = 1 .. d + 1 /\ \A k \in 1 .. d + 1 : c[k] \in D
    BY <1>6, <2>4
  <2>6. ASSUME NEW k \in 1 .. d PROVE CallStep(g, q, named, c[k], c[k + 1])
    <3>1. k + 1 \in 1 .. d + 1
      BY <1>6
    <3>2. c[k + 1] \in D /\ c[k + 1] # seed /\ c[k] = parent[c[k + 1]]
      BY <2>4, <2>5, <3>1
    <3> QED BY <2>2, <3>2
  <2>7. \A x \in D : g.node[x].file \in q.root
    <3> SUFFICES ASSUME NEW x \in D PROVE g.node[x].file \in q.root
      OBVIOUS
    <3>1. CASE x = seed
      BY <3>1
    <3>2. CASE x # seed
      <4>1. CallStep(g, q, named, parent[x], x)
        BY <2>2, <3>2
      <4> QED BY <4>1, CalleesKnown DEF CallStep
    <3> QED BY <3>1, <3>2
  <2>8. d < maxHops
    <3>1. CASE id = seed
      <4>1. Away(W, 0, seed)
        BY <1>7 DEF Away
      <4>2. Away(W, d, seed)
        BY <1>5, <3>1 DEF id
      <4> QED BY <1>1, <1>6, <4>1, <4>2, AwayOnce
    <3>2. CASE id # seed
      <4>1. PICK k \in Nat : k < maxHops - 1 /\ Away(W, k + 1, id)
        BY <2>2, <2>3, <3>2
      <4>2. Away(W, d, id) /\ k + 1 \in Nat
        BY <1>5 DEF id
      <4>3. d = k + 1
        BY <1>6, <4>1, <4>2, AwayOnce
      <4> QED BY <1>1, <4>1, <4>3
    <3> QED BY <3>1, <3>2
  <2>9. d \in F
    <3>1. d \in 1 .. maxHops - 1
      BY <1>1, <1>6, <1>12, <2>8
    <3>2. Away(W, d, id)
      BY <1>5 DEF id
    <3> QED BY <1>9, <2>3, <3>1, <3>2
  <2>10. LongAs(c, F)
    <3>1. Len(c) - 1 = d /\ \A k \in F : k + 1 <= Len(c)
      BY <1>6, <1>10, <2>4
    <3> QED BY <2>9, <3>1 DEF LongAs
  <2>11. IsFlow(g, q, named, c)
    <3>1. c \in Seq(DOMAIN g.node)
      BY <1>6, <2>4, Wider
    <3>2. \A k \in 1 .. Len(c) - 1 : CallStep(g, q, named, c[k], c[k + 1])
      BY <1>6, <2>4, <2>6
    <3>3. {c[1], c[Len(c)]} \subseteq named
      BY <2>3, <2>4
    <3>4. ToSet(c) \subseteq D
      BY <2>5 DEF ToSet
    <3>5. {g.node[n].file : n \in ToSet(c)} \subseteq q.root
      BY <2>7, <3>4
    <3> QED BY <2>4, <3>1, <3>2, <3>3, <3>5 DEF IsFlow
  <2> QED BY <2>1, <2>10, <2>11 DEF F
<1> QED BY <1>11, <1>12

\* What holds of the first state of a loop and is kept by each step.
LEMMA LoopInduct ==
    ASSUME NEW S, NEW n \in Nat, NEW R, R[0] \in S, \A i \in 1 .. n : R[i - 1] \in S => R[i] \in S
    PROVE  \A i \in 0 .. n : R[i] \in S
<1> DEFINE T == {i \in Nat : i <= n => R[i] \in S}
<1>1. 0 \in T
  OBVIOUS
<1>2. ASSUME NEW i \in Nat, i \in T PROVE i + 1 \in T
  <2> SUFFICES ASSUME i + 1 <= n PROVE R[i + 1] \in S
    OBVIOUS
  <2>1. i + 1 \in 1 .. n /\ (i + 1) - 1 = i /\ R[i] \in S
    BY <1>2
  <2>2. R[(i + 1) - 1] \in S
    BY <2>1
  <2> QED BY <2>1, <2>2
<1>3. Nat \subseteq T
  <2> HIDE DEF T
  <2> QED BY <1>1, <1>2, Induct
<1> QED BY <1>3

\* What a list keeps of another one, and what is put behind one.
LEMMA UptoLists ==
    ASSUME NEW S, NEW s \in Seq(S), NEW n \in Nat
    PROVE  Upto(s, n) \in Seq(S) /\ ToSet(Upto(s, n)) \subseteq ToSet(s)
<1> DEFINE m == Min({n, Len(s)})
<1>1. Len(s) \in Nat /\ DOMAIN s = 1 .. Len(s)
  OBVIOUS
<1>2. m \in Nat /\ m <= Len(s)
  <2> DEFINE Z == {n, Len(s)}
  <2>1. Z \in SUBSET Nat /\ Z # {} /\ Len(s) \in Z
    BY <1>1
  <2> HIDE DEF Z
  <2>2. Min(Z) \in Z /\ Min(Z) <= Len(s)
    BY <2>1, MinIsLeast
  <2> QED BY <2>1, <2>2 DEF Z
<1> HIDE DEF m
<1> DEFINE c == SubSeq(s, 1, m)
<1>3. c \in Seq(S) /\ DOMAIN c = 1 .. m /\ \A i \in 1 .. m : c[i] = s[i]
  BY <1>1, <1>2
<1>4. Upto(s, n) = c
  BY DEF Upto, m
<1> HIDE DEF c
<1>5. ToSet(c) \subseteq ToSet(s)
  BY <1>1, <1>2, <1>3 DEF ToSet
<1> QED BY <1>3, <1>4, <1>5

\* Adding to a list keeps to what is shown and to what is added.
LEMMA AddAllLists ==
    ASSUME NEW S, NEW X, NEW out \in Seq(S \cap X), NEW new \in Seq(X), NEW room
    PROVE  AddAll(out, new, S, room) \in Seq(S \cap X)
<1> DEFINE n == Len(new)
           States == Seq(S \cap X)
           Turn(x, i) == IF Len(x) >= room \/ new[i] \notin S \ ToSet(x) THEN x ELSE Append(x, new[i])
           R == CHOOSE R : R = [i \in 0 .. n |-> IF i = 0 THEN out
                                                 ELSE IF Len(R[i - 1]) >= room \/ new[i] \notin S \ ToSet(R[i - 1]) THEN R[i - 1]
                                                 ELSE Append(R[i - 1], new[i])]
           step == [i \in 1 .. n |-> [x \in States |-> Turn(x, i)]]
<1>1. n \in Nat /\ \A i \in 1 .. n : new[i] \in X
  OBVIOUS
<1>2. AddAll(out, new, S, room) = R[n]
  BY DEF AddAll
<1>3. ASSUME NEW i \in 1 .. n, NEW x \in States PROVE Turn(x, i) \in States
  <2>1. CASE Len(x) >= room \/ new[i] \notin S \ ToSet(x)
    BY <2>1
  <2>2. CASE ~(Len(x) >= room \/ new[i] \notin S \ ToSet(x))
    <3>1. new[i] \in S \cap X
      BY <1>1, <2>2
    <3>2. Turn(x, i) = Append(x, new[i])
      BY <2>2
    <3> QED BY <3>1, <3>2
  <2> QED BY <2>1, <2>2
<1> HIDE DEF n
<1>4. step \in [1 .. n -> [States -> States]] /\ \A i \in 1 .. n : \A x \in States : step[i][x] = Turn(x, i)
  <2> HIDE DEF Turn, States
  <2>1. \A i \in 1 .. n : [x \in States |-> Turn(x, i)] \in [States -> States]
    BY <1>3
  <2> QED BY <2>1
<1> HIDE DEF step
<1>5. PICK f \in [0 .. n -> States] : LoopsTo(f, n, out, step)
  <2>1. out \in States
    OBVIOUS
  <2> HIDE DEF States
  <2> QED BY <1>1, <1>4, <2>1, FiniteRecursion
<1> HIDE DEF States
<1>6. f[0] = out /\ \A i \in 1 .. n : f[i] = Turn(f[i - 1], i)
  <2> HIDE DEF Turn
  <2>1. f[0] = out
    BY <1>5 DEF LoopsTo
  <2>2. ASSUME NEW i \in 1 .. n PROVE f[i] = Turn(f[i - 1], i)
    <3>1. i - 1 \in 0 .. n
      BY <1>1
    <3>2. f[i - 1] \in States /\ f[i] = step[i][f[i - 1]]
      BY <1>5, <3>1 DEF LoopsTo
    <3> QED BY <1>4, <3>2
  <2> QED BY <2>1, <2>2
<1>7. f = [i \in 0 .. n |-> IF i = 0 THEN out ELSE Turn(f[i - 1], i)]
  <2> HIDE DEF Turn
  <2>1. \A i \in 0 .. n : i # 0 => i \in 1 .. n
    BY <1>1
  <2> QED BY <1>6, <2>1
<1>8. R = [i \in 0 .. n |-> IF i = 0 THEN out ELSE Turn(R[i - 1], i)]
  BY <1>7, Zenon
<1> HIDE DEF R, Turn
<1>9. \A i \in 0 .. n : R[i] \in States
  <2>1. R[0] \in States
    BY <1>1, <1>5, <1>6, <1>8
  <2>2. ASSUME NEW i \in 1 .. n, R[i - 1] \in States PROVE R[i] \in States
    <3>1. i \in 0 .. n /\ i # 0
      BY <1>1
    <3>2. R[i] = Turn(R[i - 1], i)
      BY <1>8, <3>1
    <3> QED BY <1>3, <2>2, <3>2
  <2> QED BY <1>1, <2>1, <2>2, LoopInduct
<1> QED BY <1>1, <1>2, <1>9 DEF States

InRoot(g, q) == {i \in DOMAIN g.node : g.node[i].file \in q.root}

\* The symbols that a token picks are inside the root.
LEMMA PickedLists ==
    ASSUME NEW g, IsSized(g), NEW q, NEW t
    PROVE  picked(g, q, t) \in Seq(InRoot(g, q))
<1> DEFINE segPool == UNION {q.tokens[k].segs : k \in DOMAIN q.tokens}
           hits == Hits(g, q, t)
           Z == IF specific(g, q, t) THEN hits ELSE {i \in hits : g.node[i].container \in segPool}
<1>1. hits \subseteq InRoot(g, q)
  BY DEF Hits, findCallableSymbols, NamedBy, InRoot
<1>2. picked(g, q, t) = Upto(Ascending(Z), pickMax)
  BY DEF picked
<1> HIDE DEF hits, segPool
<1>3. Z \subseteq InRoot(g, q)
  BY <1>1
<1> HIDE DEF Z
<1>4. Z \in SUBSET Nat /\ IsFiniteSet(Z)
  <2>1. Z \in SUBSET DOMAIN g.node
    BY <1>3 DEF InRoot
  <2> QED BY <2>1, FS_Subset DEF IsSized
<1>5. Ascending(Z) \in Seq(Z)
  BY <1>4, AscendingLists
<1>6. Ascending(Z) \in Seq(InRoot(g, q))
  BY <1>3, <1>5, Wider
<1> QED BY <1>2, <1>6, UptoLists, ExploreAssumption

\* So are those that the query names.
LEMMA NamedLists ==
    ASSUME NEW g, IsSized(g), NEW q, IsQuery(q)
    PROVE  namedOrder(g, q) \in Seq(InRoot(g, q))
<1> DEFINE n == Len(q.tokens)
           S == DOMAIN g.node
           X == InRoot(g, q)
           States == Seq(X)
           Turn(x, i) == AddEach(x, picked(g, q, q.tokens[i]), S)
           R == CHOOSE R : R = [i \in 0 .. n |-> IF i = 0 THEN <<>> ELSE AddEach(R[i - 1], picked(g, q, q.tokens[i]), S)]
           step == [i \in 1 .. n |-> [x \in States |-> Turn(x, i)]]
<1>1. n \in Nat
  BY DEF IsQuery
<1>2. namedOrder(g, q) = R[n]
  BY DEF namedOrder
<1>3. ASSUME NEW i \in 1 .. n, NEW x \in States PROVE Turn(x, i) \in States
  <2> DEFINE new == picked(g, q, q.tokens[i])
  <2>1. new \in Seq(X) /\ S \cap X = X
    BY PickedLists DEF InRoot
  <2>2. Turn(x, i) = AddAll(x, new, S, Len(x) + Len(new))
    BY DEF AddEach
  <2> HIDE DEF new, S, X, Turn
  <2>3. AddAll(x, new, S, Len(x) + Len(new)) \in Seq(S \cap X)
    BY <2>1, AddAllLists
  <2> QED BY <2>1, <2>2, <2>3
<1> HIDE DEF n, S, X
<1>4. step \in [1 .. n -> [States -> States]] /\ \A i \in 1 .. n : \A x \in States : step[i][x] = Turn(x, i)
  <2> HIDE DEF Turn, States
  <2>1. \A i \in 1 .. n : [x \in States |-> Turn(x, i)] \in [States -> States]
    BY <1>3
  <2> QED BY <2>1
<1> HIDE DEF step
<1>5. <<>> \in States
  OBVIOUS
<1> HIDE DEF States
<1>6. PICK f \in [0 .. n -> States] : LoopsTo(f, n, <<>>, step)
  BY <1>1, <1>4, <1>5, FiniteRecursion
<1>7. f[0] = <<>> /\ \A i \in 1 .. n : f[i] = Turn(f[i - 1], i)
  <2> HIDE DEF Turn
  <2>1. f[0] = <<>>
    BY <1>6 DEF LoopsTo
  <2>2. ASSUME NEW i \in 1 .. n PROVE f[i] = Turn(f[i - 1], i)
    <3>1. i - 1 \in 0 .. n
      BY <1>1
    <3>2. f[i - 1] \in States /\ f[i] = step[i][f[i - 1]]
      BY <1>6, <3>1 DEF LoopsTo
    <3> QED BY <1>4, <3>2
  <2> QED BY <2>1, <2>2
<1>8. f = [i \in 0 .. n |-> IF i = 0 THEN <<>> ELSE Turn(f[i - 1], i)]
  <2> HIDE DEF Turn
  <2>1. \A i \in 0 .. n : i # 0 => i \in 1 .. n
    BY <1>1
  <2> QED BY <1>7, <2>1
<1>9. R = [i \in 0 .. n |-> IF i = 0 THEN <<>> ELSE Turn(R[i - 1], i)]
  BY <1>8, Zenon
<1> HIDE DEF R, Turn
<1>10. \A i \in 0 .. n : R[i] \in States
  <2>1. R[0] \in States
    BY <1>1, <1>5, <1>9
  <2>2. ASSUME NEW i \in 1 .. n, R[i - 1] \in States PROVE R[i] \in States
    <3>1. i \in 0 .. n /\ i # 0
      BY <1>1
    <3>2. R[i] = Turn(R[i - 1], i)
      BY <1>9, <3>1
    <3> QED BY <1>3, <2>2, <3>2
  <2> QED BY <1>1, <2>1, <2>2, LoopInduct
<1> QED BY <1>1, <1>2, <1>10 DEF States, X

\* A flow as long as the longest of two seeds.
LEMMA LongerFlow ==
    ASSUME NEW a, NEW b, NEW F, NEW G, NEW X, a \in Seq(X), b \in Seq(X), F \in SUBSET Nat, G \in SUBSET Nat \ {0},
           LongAs(a, F), LongAs(b, G)
    PROVE  LongAs(IF Len(b) > Len(a) THEN b ELSE a, F \cup G)
<1>1. Len(a) \in Nat /\ Len(b) \in Nat
  OBVIOUS
<1> DEFINE la == Len(a)
           lb == Len(b)
<1>2. F = {} => la = 0
  BY DEF LongAs
<1>3. G = {} => lb = 0
  BY DEF LongAs
<1>4. F # {} => la - 1 \in F /\ \A k \in F : k + 1 <= la
  BY DEF LongAs
<1>5. G # {} => lb - 1 \in G /\ \A k \in G : k + 1 <= lb
  BY DEF LongAs
<1>6. CASE lb > la
  <2>1. G # {} /\ F \cup G # {} /\ lb - 1 \in F \cup G
    BY <1>1, <1>3, <1>5, <1>6
  <2>2. \A k \in F \cup G : k + 1 <= lb
    BY <1>1, <1>4, <1>5, <1>6, <2>1
  <2> QED BY <1>6, <2>1, <2>2 DEF LongAs
<1>7. CASE ~(lb > la)
  <2>1. CASE F = {}
    <3>1. G = {}
      <4> SUFFICES ASSUME G # {} PROVE FALSE
        OBVIOUS
      <4>1. lb = 0 /\ lb - 1 \in Nat
        BY <1>1, <1>2, <1>5, <1>7, <2>1
      <4> QED BY <4>1
    <3> QED BY <1>2, <1>7, <2>1, <3>1 DEF LongAs
  <2>2. CASE F # {}
    <3>1. F \cup G # {} /\ la - 1 \in F \cup G
      BY <1>4, <2>2
    <3>2. \A k \in F \cup G : k + 1 <= la
      BY <1>1, <1>4, <1>5, <1>7, <2>2
    <3> QED BY <1>7, <3>1, <3>2 DEF LongAs
  <2> QED BY <2>1, <2>2
<1> QED BY <1>6, <1>7

\* What the flow of a query has to be.
IsLongest(g, q, flow) ==
    LET named == ToSet(flow.named)
    IN  /\ flow.named \in Seq(InRoot(g, q)) /\ IsFlow(g, q, named, flow.path)
        /\ LongAs(flow.path, UNION {Reaches(g, q, named, s) : s \in ToSet(Upto(flow.named, seedMax))})

\* The loop over the seeds keeps the longest of their flows.
LEMMA LongestIsFlow ==
    ASSUME NEW g, IsSized(g), NEW q, NEW order \in Seq(InRoot(g, q))
    PROVE  IsLongest(g, q, Longest(g, q, order))
<1> DEFINE seeds == Upto(order, seedMax)
           named == ToSet(order)
           n == Len(seeds)
           States == {p \in Seq(DOMAIN g.node) : IsFlow(g, q, named, p)}
           chain(i) == FlowFrom(g, q, named, seeds[i])
           Turn(x, i) == IF Len(chain(i)) > Len(x) THEN chain(i) ELSE x
           R == CHOOSE R : R = [k \in 0 .. n |-> IF k = 0 THEN <<>>
                                 ELSE LET chain1 == FlowFrom(g, q, named, seeds[k])
                                      IN  IF Len(chain1) > Len(R[k - 1]) THEN chain1 ELSE R[k - 1]]
           step == [i \in 1 .. n |-> [x \in States |-> Turn(x, i)]]
           F(i) == Reaches(g, q, named, seeds[i])
           Far(k) == UNION {F(i) : i \in 1 .. k}
<1>1. named \in SUBSET DOMAIN g.node /\ named \subseteq InRoot(g, q) /\ \A i \in named : g.node[i].file \in q.root
  <2>1. \A i \in DOMAIN order : order[i] \in InRoot(g, q)
    OBVIOUS
  <2>2. named \subseteq InRoot(g, q)
    BY <2>1 DEF ToSet
  <2> HIDE DEF named
  <2> QED BY <2>2 DEF InRoot
<1>2. n \in Nat /\ DOMAIN seeds = 1 .. n /\ \A i \in 1 .. n : seeds[i] \in named
  <2>1. seeds \in Seq(InRoot(g, q)) /\ ToSet(seeds) \subseteq named
    BY UptoLists, ExploreAssumption
  <2> HIDE DEF seeds, named
  <2>2. n \in Nat /\ DOMAIN seeds = 1 .. n
    BY <2>1
  <2> QED BY <2>1, <2>2 DEF ToSet
<1>3. Longest(g, q, order) = IF Len(order) < 2 THEN [path |-> <<>>, named |-> <<>>] ELSE [path |-> R[n], named |-> order]
  BY DEF Longest
<1>4. \A i \in 1 .. n : chain(i) \in States /\ LongAs(chain(i), F(i)) /\ F(i) \in SUBSET Nat \ {0}
  <2> SUFFICES ASSUME NEW i \in 1 .. n PROVE chain(i) \in States /\ LongAs(chain(i), F(i)) /\ F(i) \in SUBSET Nat \ {0}
    OBVIOUS
  <2> DEFINE seed == seeds[i]
  <2>1. seed \in named
    BY <1>2
  <2> HIDE DEF named, seed
  <2>2. LET p == FlowFrom(g, q, named, seed) IN IsFlow(g, q, named, p) /\ LongAs(p, Reaches(g, q, named, seed))
    BY <1>1, <2>1, FlowFromSeed, ExploreAssumption
  <2>3. Reaches(g, q, named, seed) \in SUBSET Nat \ {0}
    <3>1. \A k \in 1 .. maxHops - 1 : k \in Nat /\ k # 0
      BY ExploreAssumption
    <3> QED BY <3>1 DEF Reaches
  <2> QED BY <2>2, <2>3 DEF seed, IsFlow
<1> HIDE DEF seeds, named, n, F
<1>5. \A i \in 1 .. n : \A x \in States : Turn(x, i) \in States
  <2> HIDE DEF States, chain
  <2> QED BY <1>4
<1>6. <<>> \in States
  BY DEF IsFlow
<1> HIDE DEF States, chain
<1>7. step \in [1 .. n -> [States -> States]] /\ \A i \in 1 .. n : \A x \in States : step[i][x] = Turn(x, i)
  <2> HIDE DEF Turn
  <2>1. \A i \in 1 .. n : [x \in States |-> Turn(x, i)] \in [States -> States]
    BY <1>5
  <2> QED BY <2>1
<1> HIDE DEF step
<1>8. PICK f \in [0 .. n -> States] : LoopsTo(f, n, <<>>, step)
  <2> HIDE DEF Turn
  <2> QED BY <1>2, <1>6, <1>7, FiniteRecursion
<1>9. f[0] = <<>> /\ \A i \in 1 .. n : f[i] = Turn(f[i - 1], i)
  <2> HIDE DEF Turn
  <2>1. f[0] = <<>>
    BY <1>8 DEF LoopsTo
  <2>2. ASSUME NEW i \in 1 .. n PROVE f[i] = Turn(f[i - 1], i)
    <3>1. i - 1 \in 0 .. n
      BY <1>2
    <3>2. f[i - 1] \in States /\ f[i] = step[i][f[i - 1]]
      BY <1>8, <3>1 DEF LoopsTo
    <3> QED BY <1>7, <3>2
  <2> QED BY <2>1, <2>2
<1>10. f = [i \in 0 .. n |-> IF i = 0 THEN <<>> ELSE Turn(f[i - 1], i)]
  <2> HIDE DEF Turn
  <2>1. \A i \in 0 .. n : i # 0 => i \in 1 .. n
    BY <1>2
  <2> QED BY <1>9, <2>1
<1>11. R = [i \in 0 .. n |-> IF i = 0 THEN <<>> ELSE Turn(R[i - 1], i)]
  BY <1>10, Zenon DEF chain
<1> HIDE DEF R
<1>12. R[0] = <<>> /\ \A i \in 1 .. n : R[i] = Turn(R[i - 1], i)
  <2> HIDE DEF Turn
  <2>1. \A i \in 1 .. n : i \in 0 .. n /\ i # 0
    BY <1>2
  <2>2. 0 \in 0 .. n
    BY <1>2
  <2> QED BY <1>11, <2>1, <2>2
<1> DEFINE T == {k \in 0 .. n : R[k] \in States /\ LongAs(R[k], Far(k))}
<1>13. \A k \in 0 .. n : k \in T
  <2> DEFINE I == [k \in 0 .. n |-> k]
  <2>1. I[0] \in T
    <3>1. Far(0) = {} /\ Len(<<>>) = 0 /\ 0 \in 0 .. n
      BY <1>2
    <3> HIDE DEF Far
    <3> QED BY <1>6, <1>12, <3>1 DEF LongAs
  <2>2. ASSUME NEW k \in 1 .. n, I[k - 1] \in T PROVE I[k] \in T
    <3>1. k \in 0 .. n /\ k - 1 \in 0 .. n /\ I[k] = k /\ I[k - 1] = k - 1
      BY <1>2
    <3>2. R[k - 1] \in States /\ LongAs(R[k - 1], Far(k - 1))
      BY <2>2, <3>1
    <3>3. R[k] = Turn(R[k - 1], k) /\ R[k] \in States
      BY <1>5, <1>12, <3>2
    <3>4. Far(k) = Far(k - 1) \cup F(k)
      <4>1. 1 .. k = (1 .. k - 1) \cup {k}
        BY <1>2
      <4> QED BY <4>1
    <3>5. Far(k - 1) \in SUBSET Nat
      <4>1. \A i \in 1 .. k - 1 : i \in 1 .. n
        BY <1>2
      <4> QED BY <1>4, <4>1
    <3>6. R[k - 1] \in Seq(DOMAIN g.node) /\ chain(k) \in Seq(DOMAIN g.node)
      BY <1>4, <3>2 DEF States
    <3> DEFINE a == R[k - 1]
               b == chain(k)
               G == F(k)
               H == Far(k - 1)
    <3>7. a \in Seq(DOMAIN g.node) /\ b \in Seq(DOMAIN g.node) /\ H \in SUBSET Nat /\ G \in SUBSET Nat \ {0}
          /\ LongAs(a, H) /\ LongAs(b, G)
      BY <1>4, <3>2, <3>5, <3>6
    <3>8. R[k] = IF Len(b) > Len(a) THEN b ELSE a
      BY <3>3
    <3> HIDE DEF Far, a, b, G, H
    <3>9. LongAs(R[k], H \cup G)
      BY <3>7, <3>8, LongerFlow
    <3>10. LongAs(R[k], Far(k))
      BY <3>4, <3>9 DEF G, H
    <3> QED BY <3>1, <3>3, <3>10
  <2>3. \A k \in 0 .. n : I[k] \in T
    <3> HIDE DEF T, I
    <3> QED BY <1>2, <2>1, <2>2, LoopInduct
  <2> QED BY <2>3
<1>14. R[n] \in States /\ LongAs(R[n], Far(n))
  <2>1. n \in 0 .. n
    BY <1>2
  <2> HIDE DEF Far
  <2> QED BY <1>13, <2>1
<1>15. CASE Len(order) < 2
  <2> DEFINE flow == Longest(g, q, order)
  <2>1. flow = [path |-> <<>>, named |-> <<>>]
    BY <1>3, <1>15
  <2> HIDE DEF flow
  <2>2. flow.path = <<>> /\ flow.named = <<>> /\ flow.named \in Seq(InRoot(g, q))
    BY <2>1
  <2>3. ToSet(Upto(<<>>, seedMax)) = {}
    <3>1. <<>> \in Seq({})
      OBVIOUS
    <3>2. Upto(<<>>, seedMax) \in Seq({}) /\ ToSet(Upto(<<>>, seedMax)) \subseteq ToSet(<<>>)
      BY <3>1, UptoLists, ExploreAssumption
    <3> QED BY <3>2 DEF ToSet
  <2>4. LongAs(<<>>, {}) /\ \A N : IsFlow(g, q, N, <<>>)
    BY DEF LongAs, IsFlow
  <2>5. UNION {Reaches(g, q, ToSet(flow.named), s) : s \in {}} = {}
    OBVIOUS
  <2> QED BY <2>2, <2>3, <2>4, <2>5 DEF flow, IsLongest
<1>16. CASE ~(Len(order) < 2)
  <2> DEFINE flow == Longest(g, q, order)
  <2>1. flow = [path |-> R[n], named |-> order]
    BY <1>3, <1>16
  <2> HIDE DEF flow
  <2>2. flow.path = R[n] /\ flow.named = order
    BY <2>1
  <2>3. IsFlow(g, q, named, R[n])
    BY <1>14 DEF States
  <2>4. Far(n) = UNION {Reaches(g, q, named, s) : s \in ToSet(seeds)}
    <3>1. ToSet(seeds) = {seeds[i] : i \in 1 .. n}
      BY <1>2 DEF ToSet
    <3>2. {Reaches(g, q, named, s) : s \in ToSet(seeds)} = {Reaches(g, q, named, seeds[i]) : i \in 1 .. n}
      BY <3>1
    <3> QED BY <3>2 DEF F
  <2> HIDE DEF Far
  <2> QED BY <1>14, <2>2, <2>3, <2>4 DEF flow, named, seeds, IsLongest
<1> QED BY <1>15, <1>16

\* The flow of a query.
LEMMA FlowOfQuery ==
    ASSUME NEW g, IsSized(g), NEW q, IsQuery(q)
    PROVE  IsLongest(g, q, buildFlowFromNamedSymbols(g, q))
<1> DEFINE order == IF Len(q.tokens) < 2 THEN <<>> ELSE namedOrder(g, q)
<1>1. order \in Seq(InRoot(g, q))
  BY NamedLists
<1>2. buildFlowFromNamedSymbols(g, q) = Longest(g, q, order)
  BY DEF buildFlowFromNamedSymbols
<1> HIDE DEF order
<1> QED BY <1>1, <1>2, LongestIsFlow

\* It is the call path that the property asks for.
LEMMA FlowHolds ==
    ASSUME NEW g, IsSized(g), NEW q, IsQuery(q)
    PROVE  FlowIsCallPath(g, q)
<1> DEFINE flow == buildFlowFromNamedSymbols(g, q)
           path == flow.path
           named == ToSet(flow.named)
           seeds == ToSet(Upto(flow.named, seedMax))
           far == {k \in 1 .. maxHops - 1 : \E s \in seeds, n \in named :
                       n \in Spread(g, q, named, s, k) \ Spread(g, q, named, s, k - 1)}
<1>1. IsLongest(g, q, flow)
  BY FlowOfQuery
<1>2. FlowIsCallPath(g, q) <=> IsCallPath(g, q, path, named, seeds)
  BY DEF FlowIsCallPath
<1> HIDE DEF flow
<1>3. IsFlow(g, q, named, path) /\ LongAs(path, UNION {Reaches(g, q, named, s) : s \in seeds})
  BY <1>1 DEF IsLongest
<1> HIDE DEF path, named, seeds
<1>4. far = UNION {Reaches(g, q, named, s) : s \in seeds}
  BY DEF Reaches
<1>5. far \in SUBSET Nat /\ \A k \in far : k <= maxHops
  <2>1. \A k \in 1 .. maxHops - 1 : k \in Nat /\ k <= maxHops
    BY ExploreAssumption
  <2> QED BY <2>1
<1> HIDE DEF far
<1>6. Len(path) \in Nat
  BY <1>3 DEF IsFlow
<1>7. Len(path) = IF far = {} THEN 0 ELSE Max(far) + 1
  <2>1. CASE far = {}
    BY <1>3, <1>4, <2>1 DEF LongAs
  <2>2. CASE far # {}
    <3>1. Len(path) - 1 \in far /\ \A k \in far : k + 1 <= Len(path)
      BY <1>3, <1>4, <2>2 DEF LongAs
    <3>2. Max(far) \in far /\ \A k \in far : k <= Max(far)
      BY <1>5, <2>2, MaxIsGreatest, ExploreAssumption
    <3> DEFINE m == Max(far)
    <3>3. m \in Nat /\ m + 1 <= Len(path) /\ Len(path) - 1 <= m
      <4>1. m \in far /\ \A k \in far : k <= m
        BY <3>2
      <4> HIDE DEF m
      <4> QED BY <1>5, <3>1, <4>1
    <3> HIDE DEF m
    <3>4. Len(path) = m + 1
      BY <1>6, <3>3
    <3> QED BY <2>2, <3>4 DEF m
  <2> QED BY <2>1, <2>2
<1>8. path # <<>> =>
        /\ \A k \in 1 .. Len(path) - 1 : CallStep(g, q, named, path[k], path[k + 1])
        /\ IsInjective(path) /\ {path[1], path[Len(path)]} \subseteq named
        /\ {g.node[n].file : n \in ToSet(path)} \subseteq q.root
  BY <1>3 DEF IsFlow
<1>9. IsCallPath(g, q, path, named, seeds) <=>
        /\ path # <<>> =>
              /\ \A k \in 1 .. Len(path) - 1 : CallStep(g, q, named, path[k], path[k + 1])
              /\ IsInjective(path) /\ {path[1], path[Len(path)]} \subseteq named
              /\ {g.node[n].file : n \in ToSet(path)} \subseteq q.root
        /\ Len(path) = IF far = {} THEN 0 ELSE Max(far) + 1
  BY DEF IsCallPath, far
<1>10. IsCallPath(g, q, path, named, seeds)
  BY <1>7, <1>8, <1>9
<1> QED BY <1>2, <1>10 DEF flow, path, named, seeds

-----------------------------------------------------------------------------
(* The answer of explore: its symbols, their files, and how they are       *)
(* packed.                                                                 *)

\* What is gathered are nodes of the index.
LEMMA GatherLists ==
    ASSUME NEW g, IsSized(g), NEW q, IsQuery(q), NEW flow, NEW capN \in Nat,
           flow.path \in Seq(DOMAIN g.node), flow.named \in Seq(DOMAIN g.node)
    PROVE  gatherExploreNodes(g, q, flow, capN) \in Seq(DOMAIN g.node)
<1> DEFINE n == Len(q.tokens)
           D == DOMAIN g.node
           shown == {i \in DOMAIN g.node : g.node[i].kind \notin {"file", "module"} /\ g.node[i].file \in q.root}
           found(t) == IF findCallableSymbols(g, t) # {} THEN findCallableSymbols(g, t) ELSE NamedBy(g, t)
           first == AddEach(<<>>, flow.path \o flow.named, shown)
           States == Seq(shown)
           Turn(x, i) == AddAll(x, Ascending(found(q.tokens[i])), shown, capN)
           R == CHOOSE R : R = [k \in 0 .. n |-> IF k = 0 THEN AddEach(<<>>, flow.path \o flow.named, shown)
                                                 ELSE AddAll(R[k - 1], Ascending(found(q.tokens[k])), shown, capN)]
           step == [i \in 1 .. n |-> [x \in States |-> Turn(x, i)]]
           texts == Upto(Ascending(q.text), capN)
<1>1. n \in Nat /\ IsFiniteSet(q.text) /\ q.text \in SUBSET Nat
  BY DEF IsQuery
<1>2. gatherExploreNodes(g, q, flow, capN) = IF R[n] = <<>> THEN AddEach(<<>>, texts, shown) ELSE R[n]
  BY DEF gatherExploreNodes
<1>3. shown \in SUBSET D
  OBVIOUS
<1> HIDE DEF shown
<1>4. \A t : found(t) \in SUBSET D
  BY DEF findCallableSymbols, NamedBy
<1> HIDE DEF found, n, texts
<1>5. \A X : \A x, y : x \in Seq(shown \cap X) /\ y \in Seq(X)
                     => AddAll(x, y, shown, capN) \in Seq(shown) /\ AddEach(x, y, shown) \in Seq(shown)
  <2> SUFFICES ASSUME NEW X, NEW x \in Seq(shown \cap X), NEW y \in Seq(X)
               PROVE  AddAll(x, y, shown, capN) \in Seq(shown) /\ AddEach(x, y, shown) \in Seq(shown)
    OBVIOUS
  <2>1. \A room : AddAll(x, y, shown, room) \in Seq(shown \cap X)
    BY AddAllLists
  <2>2. \A z \in Seq(shown \cap X) : z \in Seq(shown)
    BY Wider
  <2> QED BY <2>1, <2>2 DEF AddEach
<1>6. \A X : X \in SUBSET D => Ascending(X) \in Seq(D)
  <2> SUFFICES ASSUME NEW X \in SUBSET D PROVE Ascending(X) \in Seq(D)
    OBVIOUS
  <2>1. X \in SUBSET Nat /\ IsFiniteSet(X) /\ X \subseteq D
    BY FS_Subset DEF IsSized
  <2>2. Ascending(X) \in Seq(X)
    BY <2>1, AscendingLists
  <2> QED BY <2>1, <2>2, Wider
<1> HIDE DEF D
<1>7. \A x \in Seq(shown) : x \in Seq(shown \cap D)
  <2>1. shown \cap D = shown
    BY <1>3
  <2> QED BY <2>1
<1>8. \A i \in 1 .. n : \A x \in States : Turn(x, i) \in States
  BY <1>4, <1>5, <1>6, <1>7
<1>9. first \in States
  <2>1. flow.path \o flow.named \in Seq(D)
    BY Joined DEF D
  <2>2. <<>> \in Seq(shown \cap D)
    OBVIOUS
  <2> QED BY <1>5, <2>1, <2>2
<1>10. AddEach(<<>>, texts, shown) \in States
  <2>1. Ascending(q.text) \in Seq(q.text)
    BY <1>1, AscendingLists
  <2>2. texts \in Seq(q.text)
    BY <2>1, UptoLists DEF texts
  <2>3. <<>> \in Seq(shown \cap q.text)
    OBVIOUS
  <2> QED BY <1>5, <2>2, <2>3
<1> HIDE DEF States, first
<1>11. step \in [1 .. n -> [States -> States]] /\ \A i \in 1 .. n : \A x \in States : step[i][x] = Turn(x, i)
  <2> HIDE DEF Turn
  <2>1. \A i \in 1 .. n : [x \in States |-> Turn(x, i)] \in [States -> States]
    BY <1>8
  <2> QED BY <2>1
<1> HIDE DEF step
<1>12. PICK f \in [0 .. n -> States] : LoopsTo(f, n, first, step)
  <2> HIDE DEF Turn
  <2> QED BY <1>1, <1>9, <1>11, FiniteRecursion
<1>13. f[0] = first /\ \A i \in 1 .. n : f[i] = Turn(f[i - 1], i)
  <2> HIDE DEF Turn
  <2>1. f[0] = first
    BY <1>12 DEF LoopsTo
  <2>2. ASSUME NEW i \in 1 .. n PROVE f[i] = Turn(f[i - 1], i)
    <3>1. i - 1 \in 0 .. n
      BY <1>1
    <3>2. f[i - 1] \in States /\ f[i] = step[i][f[i - 1]]
      BY <1>12, <3>1 DEF LoopsTo
    <3> QED BY <1>11, <3>2
  <2> QED BY <2>1, <2>2
<1>14. f = [i \in 0 .. n |-> IF i = 0 THEN first ELSE Turn(f[i - 1], i)]
  <2> HIDE DEF Turn
  <2>1. \A i \in 0 .. n : i # 0 => i \in 1 .. n
    BY <1>1
  <2> QED BY <1>13, <2>1
<1>15. R = [i \in 0 .. n |-> IF i = 0 THEN first ELSE Turn(R[i - 1], i)]
  BY <1>14, Zenon DEF first
<1> HIDE DEF R, Turn
<1>16. \A i \in 0 .. n : R[i] \in States
  <2>1. R[0] \in States
    BY <1>1, <1>9, <1>15
  <2>2. ASSUME NEW i \in 1 .. n, R[i - 1] \in States PROVE R[i] \in States
    <3>1. i \in 0 .. n /\ i # 0
      BY <1>1
    <3>2. R[i] = Turn(R[i - 1], i)
      BY <1>15, <3>1
    <3> QED BY <1>8, <2>2, <3>2
  <2> QED BY <1>1, <2>1, <2>2, LoopInduct
<1>17. R[n] \in States
  BY <1>1, <1>16
<1>18. \A x \in States : x \in Seq(DOMAIN g.node)
  BY <1>3, Wider DEF States, D
<1> QED BY <1>2, <1>10, <1>17, <1>18

\* The score of a file is a number.
LEMMA ScoreNat ==
    ASSUME NEW g, NEW flow, NEW nodes, Len(nodes) \in Nat, NEW file
    PROVE  Score(g, flow, nodes, file) \in Nat
<1> DEFINE n == Len(nodes)
           worth(i) == (IF i \in ToSet(flow.path) THEN 100 ELSE 0) + (IF i \in ToSet(flow.named) THEN 50 ELSE 0)
                       + (IF isExploreCallable(g.node[i].kind) THEN 1 ELSE 0)
           Turn(x, k) == x + IF g.node[nodes[k]].file = file THEN worth(nodes[k]) ELSE 0
           R == CHOOSE R : R = [k \in 0 .. n |-> IF k = 0 THEN 0
                                ELSE R[k - 1] + IF g.node[nodes[k]].file = file THEN worth(nodes[k]) ELSE 0]
           step == [i \in 1 .. n |-> [x \in Nat |-> Turn(x, i)]]
<1>1. Score(g, flow, nodes, file) = R[n]
  BY DEF Score
<1>2. \A i : worth(i) \in Nat
  OBVIOUS
<1> HIDE DEF worth
<1>3. \A i \in 1 .. n : \A x \in Nat : Turn(x, i) \in Nat
  BY <1>2
<1>4. step \in [1 .. n -> [Nat -> Nat]] /\ \A i \in 1 .. n : \A x \in Nat : step[i][x] = Turn(x, i)
  <2> HIDE DEF Turn, n
  <2>1. \A i \in 1 .. n : [x \in Nat |-> Turn(x, i)] \in [Nat -> Nat]
    BY <1>3
  <2> QED BY <2>1
<1> HIDE DEF step, n
<1>5. PICK f \in [0 .. n -> Nat] : LoopsTo(f, n, 0, step)
  <2> HIDE DEF Turn
  <2>1. n \in Nat /\ 0 \in Nat
    BY DEF n
  <2> QED BY <1>4, <2>1, FiniteRecursion
<1>6. f[0] = 0 /\ \A i \in 1 .. n : f[i] = Turn(f[i - 1], i)
  <2> HIDE DEF Turn
  <2>1. f[0] = 0
    BY <1>5 DEF LoopsTo
  <2>2. ASSUME NEW i \in 1 .. n PROVE f[i] = Turn(f[i - 1], i)
    <3>1. i - 1 \in 0 .. n
      BY DEF n
    <3>2. f[i - 1] \in Nat /\ f[i] = step[i][f[i - 1]]
      BY <1>5, <3>1 DEF LoopsTo
    <3> QED BY <1>4, <3>2
  <2> QED BY <2>1, <2>2
<1>7. f = [i \in 0 .. n |-> IF i = 0 THEN 0 ELSE Turn(f[i - 1], i)]
  <2> HIDE DEF Turn
  <2>1. \A i \in 0 .. n : i # 0 => i \in 1 .. n
    BY DEF n
  <2> QED BY <1>6, <2>1
<1>8. R = [i \in 0 .. n |-> IF i = 0 THEN 0 ELSE Turn(R[i - 1], i)]
  BY <1>7, Zenon DEF worth
<1> HIDE DEF R, Turn
<1>9. \A i \in 0 .. n : R[i] \in Nat
  <2>1. R[0] \in Nat
    BY <1>8 DEF n
  <2>2. ASSUME NEW i \in 1 .. n, R[i - 1] \in Nat PROVE R[i] \in Nat
    <3>1. i \in 0 .. n /\ i # 0
      BY DEF n
    <3>2. R[i] = Turn(R[i - 1], i)
      BY <1>8, <3>1
    <3> QED BY <1>3, <2>2, <3>2
  <2>3. n \in Nat
    BY DEF n
  <2> QED BY <2>1, <2>2, <2>3, LoopInduct
<1> QED BY <1>1, <1>9 DEF n

FilesOf(g, nodes) == {g.node[nodes[k]].file : k \in DOMAIN nodes}

\* The files in the order of their scores: each once.
LEMMA GroupsList ==
    ASSUME NEW g, IsSized(g), NEW flow, NEW nodes \in Seq(DOMAIN g.node)
    PROVE  LET s == Groups(g, flow, nodes)
           IN  /\ s \in Seq(FilesOf(g, nodes)) /\ DOMAIN s = 1 .. Len(s) /\ ToSet(s) = FilesOf(g, nodes) /\ IsInjective(s)
               /\ IsFiniteSet(FilesOf(g, nodes)) /\ FilesOf(g, nodes) \in SUBSET Nat
<1> DEFINE S == FilesOf(g, nodes)
           sc(f) == Score(g, flow, nodes, f)
           B == {p \in S \X S : sc(p[1]) > sc(p[2]) \/ (sc(p[1]) = sc(p[2]) /\ p[1] < p[2])}
<1>1. Groups(g, flow, nodes) = Ordered(S, B)
  BY DEF Groups, FilesOf
<1>2. Len(nodes) \in Nat /\ DOMAIN nodes = 1 .. Len(nodes) /\ \A k \in DOMAIN nodes : nodes[k] \in DOMAIN g.node
  OBVIOUS
<1>3. S \in SUBSET Nat
  BY <1>2 DEF FilesOf, IsSized
<1>4. IsFiniteSet(S)
  <2> DEFINE I == 1 .. Len(nodes)
             F == [k \in I |-> g.node[nodes[k]].file]
  <2>1. DOMAIN F = I /\ S = {F[k] : k \in DOMAIN F}
    BY <1>2 DEF FilesOf
  <2>2. IsFiniteSet(I)
    BY <1>2, FS_Interval
  <2> HIDE DEF I, F, S
  <2> QED BY <2>1, <2>2, FiniteImage
<1>5. \A f : sc(f) \in Nat
  BY <1>2, ScoreNat
<1> HIDE DEF S, sc
<1>6. Precedes(S, B)
  <2>1. \A x \in S : <<x, x>> \notin B
    BY <1>3, <1>5
  <2>2. ASSUME NEW x \in S, NEW y \in S, NEW z \in S, <<x, y>> \in B, <<y, z>> \in B PROVE <<x, z>> \in B
    <3>1. /\ sc(x) > sc(y) \/ (sc(x) = sc(y) /\ x < y)
          /\ sc(y) > sc(z) \/ (sc(y) = sc(z) /\ y < z)
      BY <2>2
    <3>2. sc(x) > sc(z) \/ (sc(x) = sc(z) /\ x < z)
      BY <1>3, <1>5, <3>1
    <3> QED BY <3>2
  <2> QED BY <2>1, <2>2 DEF Precedes
<1> HIDE DEF B
<1> QED BY <1>1, <1>3, <1>4, <1>6, OrderedLists DEF S

SectionState == [size : Nat, used : Nat, done : BOOLEAN]

\* What is left of a number is a number.
LEMMA MinusNat == \A a, b \in Nat : Minus(a, b) \in Nat
BY DEF Minus

\* A symbol keeps the section of its file well formed.
LEMMA SymbolType ==
    ASSUME NEW g, IsSized(g), NEW flow, NEW b, NEW file, NEW room \in Nat, NEW skipCode, NEW necessary, NEW total,
           NEW sec \in SectionState, NEW i \in DOMAIN g.node
    PROVE  AddSymbol(g, flow, b, file, room, skipCode, necessary, total, sec, i) \in SectionState
<1> DEFINE n == g.node[i]
           taken == sec.used + n.meta + 32
           left  == Minus(room, taken)
           body  == IF n.body = 0 THEN 0 ELSE IF skipCode THEN fences
                    ELSE fences + IF left > 0 /\ n.body > left THEN left + trimNote ELSE n.body
           crowded == n.body > 0 /\ ~skipCode /\ left < 80 /\ sec.used > 0 /\ i \notin ToSet(flow.path)
           over == ~necessary /\ total + sec.size + n.meta + body + 200 > b.max
           size == n.meta + body
           after == AddSymbol(g, flow, b, file, room, skipCode, necessary, total, sec, i)
<1>1. after = IF sec.done \/ n.file # file \/ crowded THEN sec
              ELSE IF over THEN [sec EXCEPT !.done = TRUE]
              ELSE [size |-> sec.size + size, used |-> sec.used + size, done |-> sec.used + size >= room]
  BY DEF AddSymbol
<1>2. n.meta \in Nat /\ n.body \in Nat
  BY DEF IsSized
<1>3. sec.size \in Nat /\ sec.used \in Nat /\ sec.done \in BOOLEAN /\ [sec EXCEPT !.done = TRUE] \in SectionState
  BY DEF SectionState
<1> HIDE DEF n, after
<1>4. left \in Nat
  <2>1. taken \in Nat
    BY <1>2, <1>3
  <2> HIDE DEF taken
  <2> QED BY <2>1, MinusNat
<1> HIDE DEF left, crowded, over
<1>5. size \in Nat
  <2>1. body \in Nat
    <3>1. CASE n.body = 0 \/ skipCode
      BY <3>1 DEF fences
    <3>2. CASE ~(n.body = 0 \/ skipCode) /\ left > 0 /\ n.body > left
      <4>1. body = fences + (left + trimNote)
        BY <3>2
      <4> HIDE DEF body
      <4> QED BY <1>4, <4>1 DEF fences, trimNote
    <3>3. CASE ~(n.body = 0 \/ skipCode) /\ ~(left > 0 /\ n.body > left)
      <4>1. body = fences + n.body
        BY <3>3
      <4> HIDE DEF body
      <4> QED BY <1>2, <4>1 DEF fences
    <3> HIDE DEF body
    <3> QED BY <3>1, <3>2, <3>3
  <2> HIDE DEF body
  <2> QED BY <1>2, <2>1
<1> HIDE DEF body, size
<1>6. CASE sec.done \/ n.file # file \/ crowded
  <2>1. after = sec
    BY <1>1, <1>6
  <2> QED BY <2>1 DEF after
<1>7. CASE ~(sec.done \/ n.file # file \/ crowded) /\ over
  <2>1. after = [sec EXCEPT !.done = TRUE]
    BY <1>1, <1>7
  <2> QED BY <1>3, <2>1 DEF after
<1>8. CASE ~(sec.done \/ n.file # file \/ crowded) /\ ~over
  <2>1. after = [size |-> sec.size + size, used |-> sec.used + size, done |-> sec.used + size >= room]
    BY <1>1, <1>8
  <2>2. sec.size + size \in Nat /\ sec.used + size \in Nat /\ (sec.used + size >= room) \in BOOLEAN
    BY <1>3, <1>5
  <2>3. after \in SectionState
    BY <2>1, <2>2 DEF SectionState
  <2> QED BY <2>3 DEF after
<1> QED BY <1>6, <1>7, <1>8

\* The size of a section is a number.
LEMMA SectionNat ==
    ASSUME NEW g, IsSized(g), NEW flow, NEW b, NEW file, NEW room \in Nat, NEW skipCode, NEW necessary, NEW total,
           NEW nodes \in Seq(DOMAIN g.node)
    PROVE  Section(g, flow, b, file, room, skipCode, necessary, total, nodes).size \in Nat
<1> DEFINE n == Len(nodes)
           first == [size |-> 60, used |-> 0, done |-> FALSE]
           Turn(x, k) == AddSymbol(g, flow, b, file, room, skipCode, necessary, total, x, nodes[k])
           R == CHOOSE R : R = [k \in 0 .. n |-> IF k = 0 THEN [size |-> 60, used |-> 0, done |-> FALSE]
                                ELSE AddSymbol(g, flow, b, file, room, skipCode, necessary, total, R[k - 1], nodes[k])]
           step == [i \in 1 .. n |-> [x \in SectionState |-> Turn(x, i)]]
<1>1. Section(g, flow, b, file, room, skipCode, necessary, total, nodes) = R[n]
  BY DEF Section
<1>2. n \in Nat /\ \A i \in 1 .. n : nodes[i] \in DOMAIN g.node
  OBVIOUS
<1> HIDE DEF n
<1>3. \A i \in 1 .. n : \A x \in SectionState : Turn(x, i) \in SectionState
  BY <1>2, SymbolType
<1>4. first \in SectionState
  BY DEF SectionState
<1> HIDE DEF first
<1>5. step \in [1 .. n -> [SectionState -> SectionState]] /\ \A i \in 1 .. n : \A x \in SectionState : step[i][x] = Turn(x, i)
  <2> HIDE DEF Turn
  <2>1. \A i \in 1 .. n : [x \in SectionState |-> Turn(x, i)] \in [SectionState -> SectionState]
    BY <1>3
  <2> QED BY <2>1
<1> HIDE DEF step
<1>6. PICK f \in [0 .. n -> SectionState] : LoopsTo(f, n, first, step)
  <2> HIDE DEF Turn
  <2> QED BY <1>2, <1>4, <1>5, FiniteRecursion
<1>7. f[0] = first /\ \A i \in 1 .. n : f[i] = Turn(f[i - 1], i)
  <2> HIDE DEF Turn
  <2>1. f[0] = first
    BY <1>6 DEF LoopsTo
  <2>2. ASSUME NEW i \in 1 .. n PROVE f[i] = Turn(f[i - 1], i)
    <3>1. i - 1 \in 0 .. n
      BY <1>2
    <3>2. f[i - 1] \in SectionState /\ f[i] = step[i][f[i - 1]]
      BY <1>6, <3>1 DEF LoopsTo
    <3> QED BY <1>5, <3>2
  <2> QED BY <2>1, <2>2
<1>8. f = [i \in 0 .. n |-> IF i = 0 THEN first ELSE Turn(f[i - 1], i)]
  <2> HIDE DEF Turn
  <2>1. \A i \in 0 .. n : i # 0 => i \in 1 .. n
    BY <1>2
  <2> QED BY <1>7, <2>1
<1>9. R = [i \in 0 .. n |-> IF i = 0 THEN first ELSE Turn(R[i - 1], i)]
  BY <1>8, Zenon DEF first
<1> HIDE DEF R, Turn
<1>10. \A i \in 0 .. n : R[i] \in SectionState
  <2>1. R[0] \in SectionState
    BY <1>2, <1>4, <1>9
  <2>2. ASSUME NEW i \in 1 .. n, R[i - 1] \in SectionState PROVE R[i] \in SectionState
    <3>1. i \in 0 .. n /\ i # 0
      BY <1>2
    <3>2. R[i] = Turn(R[i - 1], i)
      BY <1>9, <3>1
    <3> QED BY <1>3, <2>2, <3>2
  <2> QED BY <1>2, <2>1, <2>2, LoopInduct
<1>11. R[n] \in SectionState
  BY <1>2, <1>10
<1> QED BY <1>1, <1>11 DEF SectionState

Budget(b) == b.max \in Nat /\ b.perFile \in Nat /\ b.max >= 160

\* Every tier has room for the header and the flow.
LEMMA BudgetNat == \A n \in Nat : Budget(GetExploreOutputBudget(n)) /\ GetExploreOutputBudget(n).files \in Nat
BY DEF Budget, GetExploreOutputBudget

\* What a file may take is a number.
LEMMA RoomNat ==
    ASSUME NEW b, Budget(b), NEW total \in Nat, NEW necessary \in BOOLEAN
    PROVE  fileRoom(b, total, necessary) \in Nat
<1> DEFINE remaining == Minus(b.max, total + 200)
           half == (b.perFile * 5) \div 2
           spine == IF remaining > 0 THEN Min({half, remaining}) ELSE half
<1>1. remaining \in Nat /\ half \in Nat /\ b.perFile \in Nat
  <2>1. b.max \in Nat /\ b.perFile \in Nat /\ total + 200 \in Nat
    BY DEF Budget
  <2>2. remaining \in Nat
    BY <2>1, MinusNat
  <2>3. half \in Nat
    BY <2>1
  <2> QED BY <2>1, <2>2, <2>3
<1>2. fileRoom(b, total, necessary) = IF necessary THEN Larger(b.perFile, spine) ELSE Min({b.perFile, remaining})
  BY DEF fileRoom
<1> HIDE DEF remaining, half
<1>3. \A x, y \in Nat : Min({x, y}) \in Nat
  <2> SUFFICES ASSUME NEW x \in Nat, NEW y \in Nat PROVE Min({x, y}) \in Nat
    OBVIOUS
  <2>1. {x, y} \in SUBSET Nat /\ {x, y} # {}
    OBVIOUS
  <2>2. Min({x, y}) \in {x, y}
    BY <2>1, MinIsLeast
  <2> QED BY <2>1, <2>2
<1>4. spine \in Nat
  BY <1>1, <1>3
<1> HIDE DEF spine
<1> QED BY <1>1, <1>2, <1>3, <1>4 DEF Larger

\* The answer while it is packed: F are the files there are, M those that
\* must be shown, done those that have had their turn.
Answers(F, nodes, flow) ==
    [shown : Seq(F), skipped : Seq(F), total : Nat, full : BOOLEAN, nodes : {nodes}, flow : {flow}]
Packed(M, limit, max, done, a) ==
    /\ IsInjective(a.shown) /\ IsInjective(a.skipped) /\ ToSet(a.shown) \cap ToSet(a.skipped) = {}
    /\ ToSet(a.shown) \cup ToSet(a.skipped) \subseteq done
    /\ ~a.full => ToSet(a.shown) \cup ToSet(a.skipped) = done
    /\ Len(a.shown) <= limit
    /\ \A f \in ToSet(a.skipped) : f \in M => Len(a.shown) = limit
    /\ (\A f \in ToSet(a.shown) : f \notin M) => a.total <= max

\* A list of different things with one more at its end.
LEMMA AppendNew ==
    ASSUME NEW S, NEW s \in Seq(S), IsInjective(s), NEW x \in S, x \notin ToSet(s)
    PROVE  LET c == Append(s, x)
           IN  c \in Seq(S) /\ Len(c) = Len(s) + 1 /\ IsInjective(c) /\ ToSet(c) = ToSet(s) \cup {x}
<1> DEFINE c == Append(s, x)
           n == Len(s)
<1>1. c \in Seq(S) /\ Len(c) = n + 1 /\ DOMAIN c = 1 .. n + 1 /\ c[n + 1] = x /\ \A i \in 1 .. n : c[i] = s[i]
  OBVIOUS
<1>2. n \in Nat /\ DOMAIN s = 1 .. n
  OBVIOUS
<1> HIDE DEF c, n
<1>3. \A i \in 1 .. n + 1 : i = n + 1 \/ i \in 1 .. n
  BY <1>2
<1>4. \A i \in 1 .. n : i \in 1 .. n + 1 /\ s[i] # x
  <2>1. \A i \in DOMAIN s : s[i] # x
    BY DEF ToSet
  <2> QED BY <1>2, <2>1
<1>5. \A i, j \in 1 .. n : s[i] = s[j] => i = j
  BY <1>2 DEF IsInjective
<1>6. IsInjective(c)
  <2>1. ASSUME NEW i \in DOMAIN c, NEW j \in DOMAIN c, c[i] = c[j] PROVE i = j
    <3>1. (i = n + 1 \/ i \in 1 .. n) /\ (j = n + 1 \/ j \in 1 .. n)
      BY <1>1, <1>3, <2>1
    <3>2. CASE i = n + 1 /\ j = n + 1
      BY <3>2
    <3>3. CASE i = n + 1 /\ j \in 1 .. n
      BY <1>1, <1>4, <2>1, <3>3
    <3>4. CASE i \in 1 .. n /\ j = n + 1
      BY <1>1, <1>4, <2>1, <3>4
    <3>5. CASE i \in 1 .. n /\ j \in 1 .. n
      BY <1>1, <1>5, <2>1, <3>5
    <3> QED BY <3>1, <3>2, <3>3, <3>4, <3>5
  <2> QED BY <2>1 DEF IsInjective
<1>7. ToSet(c) = ToSet(s) \cup {x}
  <2>1. ToSet(c) = {c[i] : i \in 1 .. n + 1} /\ ToSet(s) = {s[i] : i \in 1 .. n}
    BY <1>1, <1>2 DEF ToSet
  <2>2. \A i \in 1 .. n + 1 : c[i] = x \/ \E j \in 1 .. n : c[i] = s[j]
    BY <1>1, <1>3
  <2>3. \A j \in 1 .. n : \E i \in 1 .. n + 1 : c[i] = s[j]
    BY <1>1, <1>4
  <2>4. n + 1 \in 1 .. n + 1
    BY <1>2
  <2> QED BY <1>1, <2>1, <2>2, <2>3, <2>4
<1> QED BY <1>1, <1>6, <1>7 DEF c, n

\* One file more: put off, or shown within the limit on files.
PutOff(M, limit, a, c, f) ==
    c = [a EXCEPT !.skipped = Append(a.skipped, f)] /\ (f \in M => Len(a.shown) >= limit)
Shows(M, limit, max, a, c, f) ==
    \E t \in Nat, e \in BOOLEAN :
        /\ c = [a EXCEPT !.shown = Append(a.shown, f), !.total = t, !.full = e]
        /\ Len(a.shown) < limit /\ (f \notin M => t <= max)

\* One file more keeps the packing, whichever way it is decided.
LEMMA PackStep ==
    ASSUME NEW F, NEW nodes, NEW flow, NEW a \in Answers(F, nodes, flow), NEW c, NEW M, NEW limit \in Nat, NEW max \in Nat,
           NEW f \in F, (a.full /\ c = a) \/ (~a.full /\ PutOff(M, limit, a, c, f)) \/ (~a.full /\ Shows(M, limit, max, a, c, f))
    PROVE  /\ c \in Answers(F, nodes, flow)
           /\ \A done : f \notin done /\ Packed(M, limit, max, done, a) => Packed(M, limit, max, done \cup {f}, c)
<1>1. /\ a.shown \in Seq(F) /\ a.skipped \in Seq(F) /\ a.total \in Nat /\ a.full \in BOOLEAN /\ a.nodes = nodes /\ a.flow = flow
      /\ a = [shown |-> a.shown, skipped |-> a.skipped, total |-> a.total, full |-> a.full, nodes |-> a.nodes, flow |-> a.flow]
  BY DEF Answers
<1>2. Len(a.shown) \in Nat
  BY <1>1
<1>3. CASE a.full /\ c = a
  <2>1. ASSUME NEW done, f \notin done, Packed(M, limit, max, done, a) PROVE Packed(M, limit, max, done \cup {f}, a)
    BY <1>3, <2>1, Zenon DEF Packed
  <2> QED BY <1>3, <2>1
<1>4. CASE ~a.full /\ PutOff(M, limit, a, c, f)
  <2> DEFINE new == Append(a.skipped, f)
  <2>1. c = [a EXCEPT !.skipped = new] /\ (f \in M => Len(a.shown) >= limit) /\ new \in Seq(F)
    BY <1>1, <1>4 DEF PutOff
  <2>2. \A done : f \notin done /\ Packed(M, limit, max, done, a) => IsInjective(new) /\ ToSet(new) = ToSet(a.skipped) \cup {f}
    <3> SUFFICES ASSUME NEW done, f \notin done, Packed(M, limit, max, done, a)
                 PROVE  IsInjective(new) /\ ToSet(new) = ToSet(a.skipped) \cup {f}
      OBVIOUS
    <3>1. f \notin ToSet(a.skipped) /\ IsInjective(a.skipped)
      BY DEF Packed
    <3> QED BY <1>1, <3>1, AppendNew
  <2> HIDE DEF new
  <2>3. c \in Answers(F, nodes, flow) /\ c.shown = a.shown /\ c.skipped = new /\ c.total = a.total /\ c.full = a.full
    <3>1. c = [shown |-> a.shown, skipped |-> new, total |-> a.total, full |-> a.full, nodes |-> a.nodes, flow |-> a.flow]
      BY <1>1, <2>1
    <3> QED BY <1>1, <2>1, <3>1 DEF Answers
  <2>4. ASSUME NEW done, f \notin done, Packed(M, limit, max, done, a) PROVE Packed(M, limit, max, done \cup {f}, c)
    <3>1. IsInjective(new) /\ ToSet(new) = ToSet(a.skipped) \cup {f}
      BY <2>2, <2>4
    <3>2. /\ IsInjective(a.shown) /\ ToSet(a.shown) \cap ToSet(a.skipped) = {}
          /\ ToSet(a.shown) \cup ToSet(a.skipped) = done /\ Len(a.shown) <= limit
          /\ \A x \in ToSet(a.skipped) : x \in M => Len(a.shown) = limit
          /\ (\A x \in ToSet(a.shown) : x \notin M) => a.total <= max
      BY <1>4, <2>4 DEF Packed
    <3>3. f \in M => Len(a.shown) = limit
      BY <1>2, <2>1, <3>2
    <3>4. ToSet(a.shown) \cap ToSet(new) = {} /\ ToSet(a.shown) \cup ToSet(new) = done \cup {f}
      BY <2>4, <3>1, <3>2
    <3>5. \A x \in ToSet(new) : x \in M => Len(a.shown) = limit
      BY <3>1, <3>2, <3>3
    <3> QED BY <2>3, <3>1, <3>2, <3>4, <3>5 DEF Packed
  <2> QED BY <2>3, <2>4
<1>5. CASE ~a.full /\ Shows(M, limit, max, a, c, f)
  <2> DEFINE new == Append(a.shown, f)
  <2>1. PICK t \in Nat, e \in BOOLEAN :
            /\ c = [a EXCEPT !.shown = new, !.total = t, !.full = e]
            /\ Len(a.shown) < limit /\ (f \notin M => t <= max)
    BY <1>5 DEF Shows
  <2>2. new \in Seq(F)
    BY <1>1
  <2>3. \A done : f \notin done /\ Packed(M, limit, max, done, a)
                    => IsInjective(new) /\ ToSet(new) = ToSet(a.shown) \cup {f} /\ Len(new) = Len(a.shown) + 1
    <3> SUFFICES ASSUME NEW done, f \notin done, Packed(M, limit, max, done, a)
                 PROVE  IsInjective(new) /\ ToSet(new) = ToSet(a.shown) \cup {f} /\ Len(new) = Len(a.shown) + 1
      OBVIOUS
    <3>1. f \notin ToSet(a.shown) /\ IsInjective(a.shown)
      BY DEF Packed
    <3> QED BY <1>1, <3>1, AppendNew
  <2> HIDE DEF new
  <2>4. c \in Answers(F, nodes, flow) /\ c.shown = new /\ c.skipped = a.skipped /\ c.total = t /\ c.full = e
    <3>1. c = [shown |-> new, skipped |-> a.skipped, total |-> t, full |-> e, nodes |-> a.nodes, flow |-> a.flow]
      BY <1>1, <2>1
    <3> QED BY <1>1, <2>2, <3>1 DEF Answers
  <2>5. ASSUME NEW done, f \notin done, Packed(M, limit, max, done, a) PROVE Packed(M, limit, max, done \cup {f}, c)
    <3>1. IsInjective(new) /\ ToSet(new) = ToSet(a.shown) \cup {f} /\ Len(new) = Len(a.shown) + 1
      BY <2>3, <2>5
    <3>2. /\ IsInjective(a.skipped) /\ ToSet(a.shown) \cap ToSet(a.skipped) = {}
          /\ ToSet(a.shown) \cup ToSet(a.skipped) = done
          /\ \A x \in ToSet(a.skipped) : x \in M => Len(a.shown) = limit
      BY <1>5, <2>5 DEF Packed
    <3>3. \A x \in ToSet(a.skipped) : x \notin M
      BY <1>2, <2>1, <3>2
    <3>4. ToSet(new) \cap ToSet(a.skipped) = {} /\ ToSet(new) \cup ToSet(a.skipped) = done \cup {f}
      BY <2>5, <3>1, <3>2
    <3>5. Len(new) <= limit
      BY <1>2, <2>1, <3>1
    <3>6. (\A x \in ToSet(new) : x \notin M) => t <= max
      BY <2>1, <3>1
    <3> QED BY <2>4, <3>1, <3>2, <3>3, <3>4, <3>5, <3>6 DEF Packed
  <2> QED BY <2>4, <2>5
<1> QED BY <1>3, <1>4, <1>5

MustShow(g, flow, nodes) == {f \in FilesOf(g, nodes) : Necessary(g, flow, nodes, f)}

\* How the code decides about a file.
LEMMA AddFileDecides ==
    ASSUME NEW g, IsSized(g), NEW q, NEW flow, NEW b, Budget(b), NEW limit \in Nat, NEW nodes \in Seq(DOMAIN g.node),
           NEW a \in Answers(FilesOf(g, nodes), nodes, flow), NEW f \in FilesOf(g, nodes)
    PROVE  LET c == AddFile(g, q, flow, b, limit, nodes, a, f)
               M == MustShow(g, flow, nodes)
           IN  \/ a.full /\ c = a
               \/ ~a.full /\ PutOff(M, limit, a, c, f)
               \/ ~a.full /\ Shows(M, limit, b.max, a, c, f)
<1> DEFINE M == MustShow(g, flow, nodes)
           must == Necessary(g, flow, nodes, f)
           sec == Section(g, flow, b, f, fileRoom(b, a.total, must), q.skipCode, must, a.total, nodes)
           skip == \/ Len(a.shown) >= limit
                   \/ b.excludeLow /\ ~must /\ f \in g.low
                   \/ ~must /\ a.total > (b.max * 9) \div 10
                   \/ ~must /\ a.total + sec.size + 200 > b.max
           total == a.total + sec.size + 1
           e == total >= hardCeiling(b)
           c == AddFile(g, q, flow, b, limit, nodes, a, f)
<1>1. c = IF a.full THEN a
          ELSE IF skip THEN [a EXCEPT !.skipped = Append(a.skipped, f)]
          ELSE [a EXCEPT !.shown = Append(a.shown, f), !.total = total, !.full = e]
  BY DEF AddFile
<1>2. a.total \in Nat /\ b.max \in Nat /\ a.shown \in Seq(FilesOf(g, nodes))
  BY DEF Answers, Budget
<1>3. sec.size \in Nat
  <2>1. must \in BOOLEAN
    BY DEF Necessary
  <2>2. fileRoom(b, a.total, must) \in Nat
    BY <1>2, <2>1, RoomNat
  <2> QED BY <2>2, SectionNat
<1>4. f \in M <=> must
  BY DEF MustShow
<1> HIDE DEF must, sec, c, M
<1>5. Len(a.shown) \in Nat
  BY <1>2
<1>6. total \in Nat /\ (e \in BOOLEAN)
  <2>1. hardCeiling(b) \in Nat
    <3>1. (b.max * 3) \div 2 \in Nat
      BY <1>2
    <3> DEFINE Z == {(b.max * 3) \div 2, 25000}
    <3>2. Z \in SUBSET Nat /\ Z # {}
      BY <3>1
    <3> HIDE DEF Z
    <3>3. Min(Z) \in Nat
      BY <3>2, MinIsLeast
    <3> QED BY <1>2, <3>3 DEF hardCeiling, Larger, Z
  <2> QED BY <1>2, <1>3, <2>1
<1>7. CASE a.full
  BY <1>1, <1>7 DEF c, M
<1>8. CASE ~a.full /\ skip
  <2>1. c = [a EXCEPT !.skipped = Append(a.skipped, f)]
    BY <1>1, <1>8
  <2>2. f \in M => Len(a.shown) >= limit
    BY <1>4, <1>8
  <2>3. PutOff(M, limit, a, c, f)
    BY <2>1, <2>2 DEF PutOff
  <2> QED BY <1>8, <2>3 DEF c, M
<1>9. CASE ~a.full /\ ~skip
  <2>1. c = [a EXCEPT !.shown = Append(a.shown, f), !.total = total, !.full = e]
    BY <1>1, <1>9
  <2>2. ~(Len(a.shown) >= limit) /\ (f \notin M => ~(a.total + sec.size + 200 > b.max))
    BY <1>4, <1>9
  <2>3. Len(a.shown) < limit /\ (f \notin M => total <= b.max)
    BY <1>2, <1>3, <1>5, <2>2
  <2> HIDE DEF total, e
  <2>4. Shows(M, limit, b.max, a, c, f)
    BY <1>6, <2>1, <2>3 DEF Shows
  <2> QED BY <1>9, <2>4 DEF c, M
<1> QED BY <1>7, <1>8, <1>9

\* The whole loop over the files.
LEMMA PackHolds ==
    ASSUME NEW g, IsSized(g), NEW q, NEW b, Budget(b), maxFilesOf(q, b) \in Nat, NEW flow, NEW nodes \in Seq(DOMAIN g.node)
    PROVE  LET a == Pack(g, q, b, flow, nodes)
           IN  /\ a \in Answers(FilesOf(g, nodes), nodes, flow)
               /\ Packed(MustShow(g, flow, nodes), maxFilesOf(q, b), b.max, FilesOf(g, nodes), a)
<1> DEFINE files == Groups(g, flow, nodes)
           n == Len(files)
           limit == maxFilesOf(q, b)
           F == FilesOf(g, nodes)
           M == MustShow(g, flow, nodes)
           States == Answers(F, nodes, flow)
           Taken(i) == {files[j] : j \in 1 .. i}
           first == [shown |-> <<>>, skipped |-> <<>>, total |-> 160, full |-> FALSE, nodes |-> nodes, flow |-> flow]
           Turn(x, i) == AddFile(g, q, flow, b, limit, nodes, x, files[i])
           R == CHOOSE R : R = [k \in 0 .. n |->
                    IF k = 0 THEN [shown |-> <<>>, skipped |-> <<>>, total |-> 160, full |-> FALSE, nodes |-> nodes, flow |-> flow]
                    ELSE AddFile(g, q, flow, b, limit, nodes, R[k - 1], files[k])]
           step == [i \in 1 .. n |-> [x \in States |-> Turn(x, i)]]
<1>1. Pack(g, q, b, flow, nodes) = R[n]
  BY DEF Pack
<1>2. files \in Seq(F) /\ DOMAIN files = 1 .. n /\ ToSet(files) = F /\ IsInjective(files)
  BY GroupsList
<1> HIDE DEF files
<1>3. n \in Nat /\ (\A i \in 1 .. n : files[i] \in F) /\ \A i, j \in 1 .. n : files[i] = files[j] => i = j
  <2>1. n \in Nat /\ \A i \in 1 .. n : files[i] \in F
    BY <1>2
  <2>2. \A i, j \in 1 .. n : files[i] = files[j] => i = j
    BY <1>2 DEF IsInjective
  <2> QED BY <2>1, <2>2
<1>4. Taken(n) = F
  BY <1>2 DEF ToSet
<1> HIDE DEF n
<1>5. limit \in Nat /\ b.max \in Nat /\ 160 <= b.max
  BY DEF Budget
<1> HIDE DEF limit, F, M
<1>6. \A i \in 1 .. n : \A x \in States :
        /\ Turn(x, i) \in States
        /\ \A done : files[i] \notin done /\ Packed(M, limit, b.max, done, x) => Packed(M, limit, b.max, done \cup {files[i]}, Turn(x, i))
  <2> SUFFICES ASSUME NEW i \in 1 .. n, NEW x \in States
               PROVE  /\ Turn(x, i) \in States
                      /\ \A done : files[i] \notin done /\ Packed(M, limit, b.max, done, x)
                                     => Packed(M, limit, b.max, done \cup {files[i]}, Turn(x, i))
    OBVIOUS
  <2> DEFINE c == Turn(x, i)
             f == files[i]
  <2>1. f \in F
    BY <1>3
  <2>2. \/ x.full /\ c = x
        \/ ~x.full /\ PutOff(M, limit, x, c, f)
        \/ ~x.full /\ Shows(M, limit, b.max, x, c, f)
    BY <1>5, <2>1, AddFileDecides DEF F, M
  <2> HIDE DEF c, f
  <2>3. /\ c \in Answers(F, nodes, flow)
        /\ \A done : f \notin done /\ Packed(M, limit, b.max, done, x) => Packed(M, limit, b.max, done \cup {f}, c)
    BY <1>5, <2>1, <2>2, PackStep
  <2> QED BY <2>3 DEF c, f
<1>7. first \in States /\ Packed(M, limit, b.max, {}, first)
  <2>1. first \in States
    BY DEF Answers
  <2>2. ToSet(<<>>) = {} /\ IsInjective(<<>>) /\ Len(<<>>) = 0
    BY DEF ToSet, IsInjective
  <2>3. first.shown = <<>> /\ first.skipped = <<>> /\ first.total = 160 /\ first.full = FALSE
    OBVIOUS
  <2> HIDE DEF first
  <2>4. 0 <= limit
    BY <1>5
  <2> QED BY <1>5, <2>1, <2>2, <2>3, <2>4 DEF Packed
<1> HIDE DEF first, States
<1>8. step \in [1 .. n -> [States -> States]] /\ \A i \in 1 .. n : \A x \in States : step[i][x] = Turn(x, i)
  <2> HIDE DEF Turn
  <2>1. \A i \in 1 .. n : [x \in States |-> Turn(x, i)] \in [States -> States]
    BY <1>6
  <2> QED BY <2>1
<1> HIDE DEF step
<1>9. PICK r \in [0 .. n -> States] : LoopsTo(r, n, first, step)
  <2> HIDE DEF Turn
  <2> QED BY <1>3, <1>7, <1>8, FiniteRecursion
<1>10. r[0] = first /\ \A i \in 1 .. n : r[i] = Turn(r[i - 1], i)
  <2> HIDE DEF Turn
  <2>1. r[0] = first
    BY <1>9 DEF LoopsTo
  <2>2. ASSUME NEW i \in 1 .. n PROVE r[i] = Turn(r[i - 1], i)
    <3>1. i - 1 \in 0 .. n
      BY <1>3
    <3>2. r[i - 1] \in States /\ r[i] = step[i][r[i - 1]]
      BY <1>9, <3>1 DEF LoopsTo
    <3> QED BY <1>8, <3>2
  <2> QED BY <2>1, <2>2
<1>11. r = [i \in 0 .. n |-> IF i = 0 THEN first ELSE Turn(r[i - 1], i)]
  <2> HIDE DEF Turn
  <2>1. \A i \in 0 .. n : i # 0 => i \in 1 .. n
    BY <1>3
  <2> QED BY <1>10, <2>1
<1>12. R = [i \in 0 .. n |-> IF i = 0 THEN first ELSE Turn(R[i - 1], i)]
  BY <1>11, Zenon DEF first
<1> HIDE DEF R, Turn
<1> DEFINE T == {i \in 0 .. n : R[i] \in States /\ Packed(M, limit, b.max, Taken(i), R[i])}
           count == [i \in 0 .. n |-> i]
<1>13. count[0] \in T
  <2>1. 0 \in 0 .. n /\ Taken(0) = {}
    BY <1>3
  <2>2. R[0] = first
    BY <1>12, <2>1
  <2> HIDE DEF Taken
  <2> QED BY <1>7, <2>1, <2>2
<1>14. ASSUME NEW i \in 1 .. n, count[i - 1] \in T PROVE count[i] \in T
  <2>1. i \in 0 .. n /\ i - 1 \in 0 .. n /\ i # 0
    BY <1>3
  <2>2. R[i - 1] \in States /\ Packed(M, limit, b.max, Taken(i - 1), R[i - 1])
    BY <1>14, <2>1
  <2>3. R[i] = Turn(R[i - 1], i)
    BY <1>12, <2>1
  <2>4. files[i] \notin Taken(i - 1) /\ Taken(i) = Taken(i - 1) \cup {files[i]}
    <3>1. \A j \in 1 .. i - 1 : j \in 1 .. n /\ j # i
      BY <1>3
    <3>2. files[i] \notin Taken(i - 1)
      BY <1>3, <3>1
    <3>3. \A j \in 1 .. i : j \in 1 .. i - 1 \/ j = i
      BY <1>3
    <3>4. i \in 1 .. i /\ \A j \in 1 .. i - 1 : j \in 1 .. i
      BY <1>3
    <3> QED BY <3>2, <3>3, <3>4
  <2> HIDE DEF Taken
  <2>5. R[i] \in States /\ Packed(M, limit, b.max, Taken(i), R[i])
    BY <1>6, <2>2, <2>3, <2>4
  <2> QED BY <2>1, <2>5
<1>15. n \in T
  <2> HIDE DEF T
  <2>1. \A i \in 0 .. n : count[i] \in T
    <3> HIDE DEF count
    <3> QED BY <1>3, <1>13, <1>14, LoopInduct
  <2>2. n \in 0 .. n
    BY <1>3
  <2> QED BY <2>1, <2>2
<1> QED BY <1>1, <1>4, <1>15 DEF States, F, M, limit

\* Two lists of different things with nothing in common, joined.
LEMMA JoinOnce ==
    ASSUME NEW S, NEW a \in Seq(S), NEW b \in Seq(S), IsInjective(a), IsInjective(b), ToSet(a) \cap ToSet(b) = {}
    PROVE  IsInjective(a \o b)
<1> DEFINE c == a \o b
<1>1. Joins(S, a, b, c)
  BY JoinedAt
<1>2. /\ c \in Seq(S) /\ Len(c) = Len(a) + Len(b) /\ DOMAIN c = 1 .. Len(a) + Len(b)
      /\ \A i \in 1 .. Len(a) : c[i] = a[i]
      /\ \A i \in 1 .. Len(b) : c[Len(a) + i] = b[i]
  BY <1>1 DEF Joins
<1> HIDE DEF c
<1>3. Len(a) \in Nat /\ Len(b) \in Nat /\ DOMAIN a = 1 .. Len(a) /\ DOMAIN b = 1 .. Len(b)
  OBVIOUS
<1>4. \A i \in 1 .. Len(a), j \in 1 .. Len(b) : a[i] # b[j]
  <2>1. \A i \in 1 .. Len(a) : a[i] \in ToSet(a)
    BY <1>3 DEF ToSet
  <2>2. \A j \in 1 .. Len(b) : b[j] \in ToSet(b)
    BY <1>3 DEF ToSet
  <2> QED BY <2>1, <2>2
<1>5. \A i \in DOMAIN c : (i \in 1 .. Len(a) /\ c[i] = a[i]) \/ (i - Len(a) \in 1 .. Len(b) /\ c[i] = b[i - Len(a)])
  <2> SUFFICES ASSUME NEW i \in DOMAIN c
               PROVE  (i \in 1 .. Len(a) /\ c[i] = a[i]) \/ (i - Len(a) \in 1 .. Len(b) /\ c[i] = b[i - Len(a)])
    OBVIOUS
  <2>1. CASE i <= Len(a)
    BY <1>2, <1>3, <2>1
  <2>2. CASE i > Len(a)
    <3> DEFINE j == i - Len(a)
    <3>1. j \in 1 .. Len(b) /\ Len(a) + j = i
      BY <1>2, <1>3, <2>2
    <3> HIDE DEF j
    <3>2. c[i] = b[j]
      BY <1>2, <3>1
    <3> QED BY <3>1, <3>2 DEF j
  <2>3. i <= Len(a) \/ i > Len(a)
    BY <1>2, <1>3
  <2> QED BY <2>1, <2>2, <2>3
<1>6. ASSUME NEW i \in DOMAIN c, NEW j \in DOMAIN c, c[i] = c[j] PROVE i = j
  <2>1. i \in Nat /\ j \in Nat
    BY <1>2, <1>3
  <2>2. \A x, y \in 1 .. Len(a) : a[x] = a[y] => x = y
    BY <1>3 DEF IsInjective
  <2>3. \A x, y \in 1 .. Len(b) : b[x] = b[y] => x = y
    BY <1>3 DEF IsInjective
  <2>4. CASE i \in 1 .. Len(a) /\ c[i] = a[i] /\ j \in 1 .. Len(a) /\ c[j] = a[j]
    BY <1>6, <2>2, <2>4
  <2>5. CASE i - Len(a) \in 1 .. Len(b) /\ c[i] = b[i - Len(a)] /\ j - Len(a) \in 1 .. Len(b) /\ c[j] = b[j - Len(a)]
    <3>1. i - Len(a) = j - Len(a)
      BY <1>6, <2>3, <2>5
    <3> QED BY <1>3, <2>1, <3>1
  <2> QED BY <1>4, <1>5, <1>6, <2>4, <2>5
<1> QED BY <1>6 DEF IsInjective, c

\* A larger index never has the smaller tier.
LEMMA BudgetGrows ==
    \A n, m \in Nat : n <= m => /\ GetExploreOutputBudget(n).max <= GetExploreOutputBudget(m).max
                                /\ GetExploreOutputBudget(n).perFile <= GetExploreOutputBudget(m).perFile
BY DEF GetExploreOutputBudget

\* The answer of explore to one question.
LEMMA AnswerHolds ==
    ASSUME NEW g, IsSized(g), NEW q, IsQuery(q)
    PROVE  AnswerIsPacked(g, q)
<1> DEFINE b == GetExploreOutputBudget(g.count)
           flow == buildFlowFromNamedSymbols(g, q)
           limit == maxFilesOf(q, b)
           nodes == gatherExploreNodes(g, q, flow, limit * 4)
           a == Pack(g, q, b, flow, nodes)
           M == MustShow(g, flow, nodes)
           F == FilesOf(g, nodes)
           both == a.shown \o a.skipped
<1>1. AnswerIsPacked(g, q) <=> IsPacked(g, q, b, a)
  BY DEF AnswerIsPacked, exploreQuery, PackFor
<1>2. g.count \in Nat
  BY DEF IsSized
<1>3. Budget(b) /\ b.files \in Nat
  BY <1>2, BudgetNat
<1>4. \A n \in {0, 149, 150, 499, 500, 4999, 5000, 15000} : n <= g.count =>
          LET s == GetExploreOutputBudget(n) IN s.max <= b.max /\ s.perFile <= b.perFile
  BY <1>2, BudgetGrows
<1> HIDE DEF b
<1>5. limit \in Nat
  <2>1. CASE q.max < 1
    BY <1>3, <2>1 DEF maxFilesOf
  <2>2. CASE ~(q.max < 1)
    <3> DEFINE Z == {q.max, 100}
    <3>1. q.max \in Nat
      BY <2>2 DEF IsQuery
    <3>2. Z \in SUBSET Nat /\ Z # {}
      BY <3>1
    <3> HIDE DEF Z
    <3>3. Min(Z) \in Nat
      BY <3>2, MinIsLeast
    <3> QED BY <2>2, <3>3 DEF maxFilesOf, Z
  <2> QED BY <2>1, <2>2
<1>6. flow.path \in Seq(DOMAIN g.node) /\ flow.named \in Seq(DOMAIN g.node)
  <2>1. IsLongest(g, q, flow)
    BY FlowOfQuery
  <2> HIDE DEF flow
  <2>2. flow.path \in Seq(DOMAIN g.node) /\ flow.named \in Seq(InRoot(g, q))
    BY <2>1 DEF IsLongest, IsFlow
  <2>3. InRoot(g, q) \subseteq DOMAIN g.node
    BY DEF InRoot
  <2> QED BY <2>2, <2>3, Wider
<1> HIDE DEF flow
<1>7. nodes \in Seq(DOMAIN g.node)
  <2>1. limit * 4 \in Nat
    BY <1>5
  <2> QED BY <1>6, <2>1, GatherLists
<1> HIDE DEF nodes
<1>8. a \in Answers(F, nodes, flow) /\ Packed(M, limit, b.max, F, a)
  BY <1>3, <1>5, <1>7, PackHolds
<1> HIDE DEF a, limit
<1>9. a.shown \in Seq(F) /\ a.skipped \in Seq(F) /\ a.nodes = nodes /\ a.flow = flow
  BY <1>8 DEF Answers
<1>10. \A f : f \in F => (f \in M <=> Necessary(g, a.flow, a.nodes, f))
  BY <1>9 DEF MustShow
<1>11. {g.node[a.nodes[k]].file : k \in DOMAIN a.nodes} = F
  BY <1>9 DEF FilesOf
<1> HIDE DEF F, M
<1>12. /\ IsInjective(a.shown) /\ IsInjective(a.skipped) /\ ToSet(a.shown) \cap ToSet(a.skipped) = {}
       /\ ToSet(a.shown) \cup ToSet(a.skipped) \subseteq F
       /\ ~a.full => ToSet(a.shown) \cup ToSet(a.skipped) = F
       /\ \A f \in ToSet(a.skipped) : f \in M => Len(a.shown) = limit
       /\ (\A f \in ToSet(a.shown) : f \notin M) => a.total <= b.max
  BY <1>8 DEF Packed
<1>13. IsInjective(both) /\ ToSet(both) = ToSet(a.shown) \cup ToSet(a.skipped)
  BY <1>9, <1>12, JoinOnce, Joined
<1> HIDE DEF both
<1>14. \A f \in ToSet(a.skipped) : Necessary(g, a.flow, a.nodes, f) => Len(a.shown) = limit
  BY <1>10, <1>12
<1>15. (\A f \in ToSet(a.shown) : ~Necessary(g, a.flow, a.nodes, f)) => a.total <= b.max
  BY <1>10, <1>12
<1>16. IsPacked(g, q, b, a)
  BY <1>4, <1>11, <1>12, <1>13, <1>14, <1>15 DEF IsPacked, both, limit
<1> QED BY <1>1, <1>16

\* What explore shows of every index with sizes, for every question: the
\* flow is a chain of calls inside the root without repetitions, the longest
\* of the shortest, and every file that belongs in the answer is shown or
\* put off, within the budget (explore_flow.go, gatherExploreNodes and
\* exploreQuery of graph.go, explore_budget.go).
THEOREM ExploreHonestHolds ==
    (input.of \in {"flow", "answer"} => IsSized(input)) => ExploreHonest
<1> SUFFICES ASSUME input.of \in {"flow", "answer"} => IsSized(input) PROVE ExploreHonest
  OBVIOUS
<1>1. ASSUME input.of = "flow", NEW q \in FlowQuery PROVE FlowIsCallPath(input, q)
  BY <1>1, QueryAssumption, FlowHolds
<1>2. ASSUME input.of = "answer", NEW q \in AnswerQuery PROVE AnswerIsPacked(input, q)
  BY <1>2, QueryAssumption, AnswerHolds
<1> QED BY <1>1, <1>2 DEF ExploreHonest
=============================================================================
