--------------------------- MODULE DisplayProofs ---------------------------
(* Theorems about what the two sides show: the list of displays of         *)
(* DisplayService, for any number of connections, lists of displays,       *)
(* changes and privacy modes, and the frames of a display of ClientVideo,  *)
(* for any codecs, size of the queue, key frames and requests.             *)
EXTENDS DisplayService, ClientVideo, FiniteSetTheorems, SequenceTheorems, TLAPS

\* Why InSync holds: as long as the list is marked as synced, the message about to
\* go out is this list, and once it is out the connections that will subscribe
\* know this list too, or have missed a message.
SyncInv ==
    is_synced /\ ignoring = "no" =>
        IF worker = "send" THEN read = displays
        ELSE \A c \in Conns \ missed :
                 c \in subscribes \/ Waiting(c) => shown[c] = displays

\* Every step keeps the types, and that only living connections subscribe.
LEMMA TypeStep ==
  ASSUME TypeOK, [Next]_vars
  PROVE  TypeOK'
<1> USE DisplayAssumption DEF Goto, KeepOthers, CheckChanged, OnSubscribe, OnUnsubscribe, 
           SwapNewSubscribes, innerVars, syncVars, threadVars, connVars, worldVars,
           TypeOK, InnerTypeOK, ListOrNone, Workers, Stages
<1>1. ASSUME Top PROVE TypeOK'
  BY <1>1 DEF Top
<1>2. ASSUME Loop PROVE TypeOK'
  BY <1>2 DEF Loop
<1>3. ASSUME Due PROVE TypeOK'
  BY <1>3 DEF Due
<1>4. ASSUME Flag PROVE TypeOK'
  BY <1>4 DEF Flag
<1>5. ASSUME Has PROVE TypeOK'
  BY <1>5 DEF Has
<1>6. ASSUME Unsync PROVE TypeOK'
  BY <1>6 DEF Unsync
<1>7. ASSUME Swap PROVE TypeOK'
  BY <1>7 DEF Swap
<1>8. ASSUME Read PROVE TypeOK'
  BY <1>8 DEF Read
<1>9. ASSUME ReadFails PROVE TypeOK'
  BY <1>9 DEF ReadFails
<1>10. ASSUME Check PROVE TypeOK'
  BY <1>10 DEF Check
<1>11. ASSUME Sync PROVE TypeOK'
  BY <1>11 DEF Sync
<1>12. ASSUME Send PROVE TypeOK'
  BY <1>12 DEF Send
<1>13. ASSUME ChangeDisplays PROVE TypeOK'
  BY <1>13 DEF ChangeDisplays
<1>14. ASSUME VideoRead PROVE TypeOK'
  BY <1>14 DEF VideoRead
<1>15. ASSUME VideoCheck PROVE TypeOK'
  BY <1>15 DEF VideoCheck
<1>16. ASSUME Ignore PROVE TypeOK'
  BY <1>16 DEF Ignore
<1>17. ASSUME StopIgnoring PROVE TypeOK'
  BY <1>17 DEF StopIgnoring
<1>18. ASSUME Trigger PROVE TypeOK'
  BY <1>18 DEF Trigger
<1>19. ASSUME NEW c \in Conns, LoginRead(c) PROVE TypeOK'
  BY <1>19 DEF LoginRead
<1>20. ASSUME NEW c \in Conns, LoginCheck(c) PROVE TypeOK'
  BY <1>20 DEF LoginCheck
<1>21. ASSUME NEW c \in Conns, LoginClone(c) PROVE TypeOK'
  BY <1>21 DEF LoginClone
<1>22. ASSUME NEW c \in Conns, AddConnection(c) PROVE TypeOK'
  BY <1>22 DEF AddConnection
<1>23. ASSUME NEW c \in Conns, RemoveConnection(c) PROVE TypeOK'
  BY <1>23 DEF RemoveConnection
<1>24. ASSUME UNCHANGED vars PROVE TypeOK'
  BY <1>24 DEF vars
<1>25. QED
  BY <1>1, <1>2, <1>3, <1>4, <1>5, <1>6, <1>7, <1>8, <1>9, <1>10, <1>11, <1>12, <1>13,
     <1>14, <1>15, <1>16, <1>17, <1>18, <1>19, <1>20, <1>21, <1>22, <1>23, <1>24
  DEF Next, Run, Connection, World

\* Every step keeps SyncInv.
LEMMA SyncStep ==
  ASSUME TypeOK, TypeOK', SyncInv, [Next]_vars
  PROVE  SyncInv'
<1> USE DisplayAssumption DEF Goto, KeepOthers, CheckChanged, OnSubscribe, OnUnsubscribe, 
           SwapNewSubscribes, innerVars, syncVars, threadVars, connVars, worldVars,
           TypeOK, InnerTypeOK, SyncInv, Waiting
<1>1. ASSUME Top PROVE SyncInv'
  BY <1>1 DEF Top
<1>2. ASSUME Loop PROVE SyncInv'
  BY <1>2 DEF Loop
<1>3. ASSUME Due PROVE SyncInv'
  BY <1>3 DEF Due
<1>4. ASSUME Flag PROVE SyncInv'
  BY <1>4 DEF Flag
<1>5. ASSUME Has PROVE SyncInv'
  BY <1>5 DEF Has
<1>6. ASSUME Unsync PROVE SyncInv'
  BY <1>6 DEF Unsync
<1>7. ASSUME Swap PROVE SyncInv'
  BY <1>7 DEF Swap
<1>8. ASSUME Read PROVE SyncInv'
  BY <1>8 DEF Read
<1>9. ASSUME ReadFails PROVE SyncInv'
  BY <1>9 DEF ReadFails
<1>10. ASSUME Check PROVE SyncInv'
  BY <1>10 DEF Check
<1>11. ASSUME Sync PROVE SyncInv'
  BY <1>11 DEF Sync
<1>12. ASSUME Send PROVE SyncInv'
  BY <1>12 DEF Send
<1>13. ASSUME ChangeDisplays PROVE SyncInv'
  BY <1>13 DEF ChangeDisplays
<1>14. ASSUME VideoRead PROVE SyncInv'
  BY <1>14 DEF VideoRead
<1>15. ASSUME VideoCheck PROVE SyncInv'
  BY <1>15 DEF VideoCheck
<1>16. ASSUME Ignore PROVE SyncInv'
  BY <1>16 DEF Ignore
<1>17. ASSUME StopIgnoring PROVE SyncInv'
  BY <1>17 DEF StopIgnoring
<1>18. ASSUME Trigger PROVE SyncInv'
  BY <1>18 DEF Trigger
<1>19. ASSUME NEW c \in Conns, LoginRead(c) PROVE SyncInv'
  BY <1>19 DEF LoginRead
<1>20. ASSUME NEW c \in Conns, LoginCheck(c) PROVE SyncInv'
  BY <1>20 DEF LoginCheck
<1>21. ASSUME NEW c \in Conns, LoginClone(c) PROVE SyncInv'
  BY <1>21 DEF LoginClone
<1>22. ASSUME NEW c \in Conns, AddConnection(c) PROVE SyncInv'
  BY <1>22 DEF AddConnection
<1>23. ASSUME NEW c \in Conns, RemoveConnection(c) PROVE SyncInv'
  BY <1>23 DEF RemoveConnection
<1>24. ASSUME UNCHANGED vars PROVE SyncInv'
  BY <1>24 DEF vars
<1>25. QED
  BY <1>1, <1>2, <1>3, <1>4, <1>5, <1>6, <1>7, <1>8, <1>9, <1>10, <1>11, <1>12, <1>13,
     <1>14, <1>15, <1>16, <1>17, <1>18, <1>19, <1>20, <1>21, <1>22, <1>23, <1>24
  DEF Next, Run, Connection, World

\* The types, and that only living connections subscribe.
THEOREM TypeCorrect == Spec => []TypeOK
<1>1. ASSUME Init PROVE TypeOK
  <2>1. InnerTypeOK /\ subscribes \cap new_subscribes = {}
    BY <1>1 DEF Init, InnerInit, InnerTypeOK
  <2>2. 0 \in 0 .. MaxChanges /\ 0 \in 0 .. MaxIgnores
    BY DisplayAssumption
  <2>3. conn \in [Conns -> Stages] /\ shown \in [Conns -> ListOrNone]
    BY <1>1 DEF Init, Stages, ListOrNone
  <2>4. QED
    BY <1>1, <2>1, <2>2, <2>3 DEF Init, InnerInit, TypeOK, ListOrNone, Workers
<1>2. TypeOK /\ [Next]_vars => TypeOK'
  BY TypeStep
<1>3. QED
  BY <1>1, <1>2, PTL DEF Spec

\* get_update_sync_displays marks the list as synced and the message follows: from
\* then on every subscriber knows the list, unless it missed a message.
THEOREM InSyncTheorem == Spec => []InSync
<1>1. Init => SyncInv
  BY DEF Init, SyncInv
<1>2. TypeOK /\ TypeOK' /\ SyncInv /\ [Next]_vars => SyncInv'
  BY SyncStep
<1>3. TypeOK /\ SyncInv => InSync
  BY DEF TypeOK, InnerTypeOK, SyncInv, InSync
<1>4. QED
  BY <1>1, <1>2, <1>3, TypeCorrect, PTL DEF Spec

-----------------------------------------------------------------------------
(* The frames of a display.                                                *)

\* The notes of a channel up to the n-th that are of one of these types.
Count(ch, types, n) == Cardinality({j \in 1 .. n : ch[j].type \in types})
Waits(ch, n) == Count(ch, {"token"}, n)
Frames(ch, n) == Count(ch, {"token", "key"}, n)

NoKeyIn(ch, m, n) == \A k \in m .. n : ch[k].type # "key"

\* After the p-th note a key frame comes before any other frame, at the latest from
\* the peer.
KeyFirst(ch, enc, p) ==
    /\ \A j \in p + 1 .. Len(ch) : ch[j].type = "token" => ~NoKeyIn(ch, p + 1, j - 1)
    /\ NoKeyIn(ch, p + 1, Len(ch)) => enc = Nothing

\* The frames between the p-th note and the next key frame are all the peer sent
\* then, of this codec; the peer goes on with it.
Follow(ch, q, enc, p, f) ==
    /\ \A j \in p + 1 .. Len(ch) :
          ch[j].type = "token" /\ NoKeyIn(ch, p + 1, j - 1) =>
              /\ q[Waits(ch, j)].format = f
              /\ q[Waits(ch, j)].age = Frames(ch, Len(ch)) - Frames(ch, j)
    /\ NoKeyIn(ch, p + 1, Len(ch)) => enc \in {Nothing, f}

\* What came after a frame of the queue is behind it in the queue, or a key frame
\* on the channel; key frames come after the frames queued before them.
Covered(ch, q) ==
    \A i \in 1 .. Len(q) : \A b \in 0 .. q[i].age - 1 :
        \/ \E j \in i + 1 .. Len(q) : q[j].age = b
        \/ \E k \in 1 .. Len(ch) : ch[k].type = "key" /\ ch[k].age = b
Ordered(ch, q) ==
    \A k \in 1 .. Len(ch) : ch[k].type = "key" =>
        \A i \in 1 .. Len(q) : i > Waits(ch, k) => q[i].age < ch[k].age

Resets(ch, enc) ==
    \A p \in 1 .. Len(ch) : ch[p].type = "reset" /\ ~ch[p].byUser => KeyFirst(ch, enc, p)
Unspoilt(ch, q, enc) ==
    \A p \in 1 .. Len(ch) : ch[p].type = "key" /\ ~ch[p].spoilt =>
        /\ ch[p].age = Frames(ch, Len(ch)) - Frames(ch, p)
        /\ Follow(ch, q, enc, p, ch[p].format)
Right ==
    ~spoilt /\ ~discard_queue =>
        /\ popped = <<>> =>
              /\ Follow(channel, video_queue, encoder, 0, decoder)
              /\ \/ last = Frames(channel, Len(channel))
                 \/ last = NoKey /\ (decoder \in Bad \/ KeyFirst(channel, encoder, 0))
        /\ popped # <<>> =>
              /\ Follow(channel, video_queue, encoder, 0, popped[1].format)
              /\ popped[1].age = Frames(channel, Len(channel))
              /\ popped[1].follows \/ popped[1].format \in Bad

QueueInv ==
    /\ Cardinality(Keys) <= MaxKeys
    /\ Covered(channel, video_queue)
    /\ Ordered(channel, video_queue)
ClientInv ==
    /\ QueueInv /\ Resets(channel, encoder) /\ Unspoilt(channel, video_queue, encoder)
    /\ Right

\* How the notes and the queue change when the session adds to them: d is 1 if
\* there is one frame more, which makes the others older.
Grows(a, b, q, r, d) ==
    /\ Len(a) \in Nat /\ Len(b) \in {Len(a), Len(a) + 1}
    /\ Len(q) \in Nat /\ Len(r) \in {Len(q), Len(q) + 1}
    /\ d \in {0, 1} /\ (Len(r) = Len(q) + 1 => d = 1 /\ r[Len(r)].age = 0)
    /\ \A i \in 1 .. Len(q) : q[i].age \in 0 .. Old - 2
    /\ \A i \in 1 .. Len(q) : r[i].format = q[i].format /\ r[i].age = q[i].age + d
    /\ \A j \in 1 .. Len(a) : b[j].type = a[j].type
    /\ \A j \in 1 .. Len(a) : a[j].type = "reset" => b[j].byUser = a[j].byUser
    /\ \A j \in 1 .. Len(a) : a[j].type = "key" =>
          /\ a[j].age \in 0 .. Old /\ b[j].format = a[j].format
          /\ b[j].age = IF d = 1 THEN Older(a[j].age) ELSE a[j].age
          /\ ~b[j].spoilt => ~a[j].spoilt

\* The note added, and what it says of the peer.
Noted(a, b, q, r, d, enc, new) ==
    LET m == b[Len(b)]
    IN  /\ Len(b) = Len(a) + 1 /\ m.type \in {"token", "key", "reset"}
        /\ d = IF m.type = "reset" THEN 0 ELSE 1
        /\ m.type = "token" => /\ Len(r) = Len(q) + 1 /\ enc # Nothing /\ new = enc
                               /\ r[Len(r)].format = enc
        /\ m.type = "key" => Len(r) = Len(q) /\ m.age = 0 /\ new = m.format
        /\ m.type = "reset" => Len(r) = Len(q) /\ new \in {Nothing, enc}

\* How they change when the thread takes the first note, w is 1 if it stands for a
\* frame of the queue.
Shrinks(a, b, q, r, w) ==
    /\ Len(a) \in Nat \ {0} /\ Len(b) = Len(a) - 1
    /\ \A j \in 1 .. Len(b) : b[j] = a[j + 1]
    /\ w = IF a[1].type = "token" THEN 1 ELSE 0
    /\ Len(q) \in Nat /\ Len(r) \in Nat /\ Len(r) = Len(q) - w
    /\ \A i \in 1 .. Len(r) : r[i] = q[i + w]
-----------------------------------------------------------------------------
(* Counting the notes of a channel.                                        *)

LEMMA CountType ==
  ASSUME NEW ch, NEW types, NEW n \in Nat
  PROVE  /\ IsFiniteSet({j \in 1 .. n : ch[j].type \in types})
         /\ Count(ch, types, n) \in Nat
<1>1. IsFiniteSet(1 .. n)
  BY FS_Interval
<1>2. IsFiniteSet({j \in 1 .. n : ch[j].type \in types})
  BY <1>1, FS_Subset
<1> QED
  BY <1>2, FS_CardinalityType DEF Count

LEMMA CountNone ==
  ASSUME NEW ch, NEW types
  PROVE  Count(ch, types, 0) = 0
<1>1. {j \in 1 .. 0 : ch[j].type \in types} = {}
  OBVIOUS
<1> QED
  BY <1>1, FS_EmptySet DEF Count

\* One note more counts if it is of one of the types.
LEMMA CountStep ==
  ASSUME NEW ch, NEW types, NEW n \in Nat
  PROVE  Count(ch, types, n + 1) =
             Count(ch, types, n) + IF ch[n + 1].type \in types THEN 1 ELSE 0
<1> DEFINE S(m) == {j \in 1 .. m : ch[j].type \in types}
<1>1. IsFiniteSet(S(n)) /\ Cardinality(S(n)) \in Nat
  BY CountType DEF Count
<1>0. Count(ch, types, n) = Cardinality(S(n)) /\ Count(ch, types, n + 1) = Cardinality(S(n + 1))
  BY DEF Count
<1>2. CASE ch[n + 1].type \in types
  <2>1. S(n + 1) = S(n) \cup {n + 1} /\ n + 1 \notin S(n)
    BY <1>2
  <2> HIDE DEF S
  <2> QED
    BY <2>1, <1>0, <1>1, <1>2, FS_AddElement
<1>3. CASE ch[n + 1].type \notin types
  <2>1. S(n + 1) = S(n)
    BY <1>3
  <2> HIDE DEF S
  <2> QED
    BY <2>1, <1>0, <1>1, <1>3
<1> QED
  BY <1>2, <1>3

\* Only the types count.
LEMMA CountSame ==
  ASSUME NEW a, NEW b, NEW types, NEW n \in Nat,
         \A j \in 1 .. n : a[j].type = b[j].type
  PROVE  Count(a, types, n) = Count(b, types, n)
<1>1. {j \in 1 .. n : a[j].type \in types} = {j \in 1 .. n : b[j].type \in types}
  OBVIOUS
<1> QED
  BY <1>1 DEF Count

LEMMA CountMono ==
  ASSUME NEW ch, NEW types, NEW m \in Nat, NEW n \in Nat, m <= n
  PROVE  Count(ch, types, m) <= Count(ch, types, n)
<1> DEFINE S(k) == {j \in 1 .. k : ch[j].type \in types}
<1>1. S(m) \in SUBSET S(n)
  OBVIOUS
<1>2. IsFiniteSet(S(n)) /\ Count(ch, types, m) = Cardinality(S(m))
      /\ Count(ch, types, n) = Cardinality(S(n))
  BY CountType DEF Count
<1> HIDE DEF S
<1> QED
  BY <1>1, <1>2, FS_Subset

\* A note of one of the types is counted.
LEMMA CountOne ==
  ASSUME NEW ch, NEW types, NEW n \in Nat, NEW j \in 1 .. n, ch[j].type \in types
  PROVE  Count(ch, types, j) \in 1 .. Count(ch, types, n)
<1>0. j - 1 \in Nat /\ j \in Nat /\ (j - 1) + 1 = j /\ j <= n
  OBVIOUS
<1>1. Count(ch, types, j) = Count(ch, types, j - 1) + 1
  <2>1. Count(ch, types, (j - 1) + 1)
            = Count(ch, types, j - 1) + IF ch[(j - 1) + 1].type \in types THEN 1 ELSE 0
    BY <1>0, CountStep
  <2> QED
    BY <2>1, <1>0
<1>2. Count(ch, types, j - 1) \in Nat /\ Count(ch, types, n) \in Nat
  BY <1>0, CountType
<1>3. Count(ch, types, j) <= Count(ch, types, n)
  BY <1>0, CountMono
<1> QED
  BY <1>1, <1>2, <1>3

\* Without its head every note comes one place earlier.
LEMMA CountTail ==
  ASSUME NEW a, NEW b, NEW types, NEW n \in Nat,
         \A j \in 1 .. n : b[j].type = a[j + 1].type
  PROVE  Count(b, types, n) = Count(a, types, n + 1) - IF a[1].type \in types THEN 1 ELSE 0
<1> DEFINE A == {j \in 1 .. n : b[j].type \in types}
           B == {j \in 2 .. n + 1 : a[j].type \in types}
           C == {j \in 1 .. n + 1 : a[j].type \in types}
           f == [j \in A |-> j + 1]
<1>2. IsFiniteSet(A) /\ IsFiniteSet(C) /\ Cardinality(C) \in Nat
      /\ Cardinality(C) = Count(a, types, n + 1) /\ Cardinality(A) = Count(b, types, n)
  <2>1. n + 1 \in Nat
    OBVIOUS
  <2>2. IsFiniteSet(A) /\ Cardinality(A) = Count(b, types, n)
    BY CountType DEF Count
  <2>3. IsFiniteSet(C) /\ Cardinality(C) = Count(a, types, n + 1) /\ Cardinality(C) \in Nat
    BY <2>1, CountType DEF Count
  <2> QED
    BY <2>2, <2>3
<1>3. Cardinality(A) = Cardinality(B)
  <2>1. f \in [A -> B]
    OBVIOUS
  <2>2. \A i, j \in A : f[i] = f[j] => i = j
    OBVIOUS
  <2>3. \A j \in B : \E i \in A : f[i] = j
    <3> SUFFICES ASSUME NEW j \in B PROVE j - 1 \in A /\ f[j - 1] = j
      OBVIOUS
    <3>1. j - 1 \in 1 .. n /\ (j - 1) + 1 = j
      OBVIOUS
    <3> QED
      BY <3>1
  <2>4. f \in Bijection(A, B)
    BY <2>1, <2>2, <2>3 DEF Bijection, Injection, Surjection, IsInjective
  <2> HIDE DEF f, A, B
  <2> QED
    BY <2>4, <1>2, FS_Bijection DEF ExistsBijection
<1>4. CASE a[1].type \in types
  <2>1. B = C \ {1} /\ 1 \in C
    BY <1>4
  <2> HIDE DEF A, B, C
  <2>2. Cardinality(B) = Cardinality(C) - 1
    BY <2>1, <1>2, FS_RemoveElement
  <2> QED
    BY <2>2, <1>2, <1>3, <1>4
<1>5. CASE a[1].type \notin types
  <2>1. B = C
    BY <1>5
  <2> HIDE DEF A, B, C
  <2> QED
    BY <2>1, <1>2, <1>3, <1>5
<1> QED
  BY <1>4, <1>5

\* A frame is in the queue or a key frame.
LEMMA FramesCount ==
  ASSUME NEW ch, NEW n \in Nat
  PROVE  Frames(ch, n) = Waits(ch, n) + Count(ch, {"key"}, n)
<1> DEFINE W == {j \in 1 .. n : ch[j].type \in {"token"}}
           K == {j \in 1 .. n : ch[j].type \in {"key"}}
           F == {j \in 1 .. n : ch[j].type \in {"token", "key"}}
<1>1. F = W \cup K /\ W \cap K = {}
  OBVIOUS
<1>2. IsFiniteSet(W) /\ IsFiniteSet(K) /\ Cardinality(W) \in Nat /\ Cardinality(K) \in Nat
  BY CountType DEF Count
<1>3. Frames(ch, n) = Cardinality(F) /\ Waits(ch, n) = Cardinality(W)
      /\ Count(ch, {"key"}, n) = Cardinality(K)
  BY DEF Frames, Waits, Count
<1> HIDE DEF W, K, F
<1>4. Cardinality(F) = Cardinality(W) + Cardinality(K) - Cardinality({})
  BY <1>1, <1>2, FS_Union
<1> QED
  BY <1>2, <1>3, <1>4, FS_EmptySet
-----------------------------------------------------------------------------
(* A note is added.                                                        *)

LEMMA OldSize == Old - 2 \in Nat /\ Old \in Nat
BY ClientVideoAssumption DEF Old

LEMMA OlderNext ==
  \A x \in 0 .. Old : Older(x) = IF x = Old THEN Old ELSE x + 1
BY OldSize DEF Older, NoKey

\* The counts do not change where the notes were.
LEMMA GrowCounts ==
  ASSUME NEW a, NEW b, NEW q, NEW r, NEW d, Grows(a, b, q, r, d)
  PROVE  \A types : \A j \in 0 .. Len(a) : Count(b, types, j) = Count(a, types, j)
<1> SUFFICES ASSUME NEW types, NEW j \in 0 .. Len(a)
             PROVE  Count(b, types, j) = Count(a, types, j)
  OBVIOUS
<1>1. j \in Nat /\ \A k \in 1 .. j : b[k].type = a[k].type
  BY DEF Grows
<1> QED
  BY <1>1, CountSame

LEMMA GrowNoKey ==
  ASSUME NEW a, NEW b, NEW q, NEW r, NEW d, Grows(a, b, q, r, d)
  PROVE  \A m \in Nat, n \in 0 .. Len(a) : m >= 1 => (NoKeyIn(b, m, n) <=> NoKeyIn(a, m, n))
<1> SUFFICES ASSUME NEW m \in Nat, NEW n \in 0 .. Len(a), m >= 1
             PROVE  NoKeyIn(b, m, n) <=> NoKeyIn(a, m, n)
  OBVIOUS
<1>1. \A k \in m .. n : b[k].type = a[k].type
  <2>1. Len(a) \in Nat /\ \A j \in 1 .. Len(a) : b[j].type = a[j].type
    BY DEF Grows
  <2>2. \A k \in m .. n : k \in 1 .. Len(a)
    BY <2>1
  <2> QED
    BY <2>1, <2>2
<1> QED
  BY <1>1 DEF NoKeyIn

LEMMA KeyFirstGrows ==
  ASSUME NEW a, NEW b, NEW q, NEW r, NEW d, NEW enc, NEW new, NEW p \in 0 .. Len(a),
         Grows(a, b, q, r, d), Noted(a, b, q, r, d, enc, new), KeyFirst(a, enc, p)
  PROVE  KeyFirst(b, new, p)
<1>1. \A m \in Nat, n \in 0 .. Len(a) : m >= 1 => (NoKeyIn(b, m, n) <=> NoKeyIn(a, m, n))
  BY GrowNoKey
<1>2. Len(a) \in Nat /\ Len(b) = Len(a) + 1 /\ p \in Nat /\ p + 1 \in Nat /\ p + 1 >= 1
  BY DEF Grows, Noted
<1>3. ASSUME NEW j \in p + 1 .. Len(b), b[j].type = "token"
      PROVE  ~NoKeyIn(b, p + 1, j - 1)
  <2>1. CASE j \in p + 1 .. Len(a)
    <3>1. a[j].type = "token"
      BY <2>1, <1>2, <1>3 DEF Grows
    <3>2. ~NoKeyIn(a, p + 1, j - 1)
      BY <2>1, <3>1 DEF KeyFirst
    <3> QED
      BY <3>2, <1>1, <1>2, <2>1
  <2>2. CASE j = Len(b)
    <3>1. enc # Nothing
      BY <2>2, <1>3 DEF Noted
    <3>2. ~NoKeyIn(a, p + 1, Len(a))
      BY <3>1 DEF KeyFirst
    <3> QED
      BY <3>2, <2>2, <1>1, <1>2
  <2> QED
    BY <2>1, <2>2, <1>2
<1>4. ASSUME NoKeyIn(b, p + 1, Len(b))
      PROVE  new = Nothing
  <2>1. NoKeyIn(b, p + 1, Len(a)) /\ b[Len(b)].type # "key"
    BY <1>4, <1>2 DEF NoKeyIn
  <2>2. NoKeyIn(a, p + 1, Len(a))
    BY <2>1, <1>1, <1>2
  <2>3. enc = Nothing
    BY <2>2 DEF KeyFirst
  <2> QED
    BY <2>1, <2>3 DEF Noted
<1> QED
  BY <1>3, <1>4 DEF KeyFirst

LEMMA FollowGrows ==
  ASSUME NEW a, NEW b, NEW q, NEW r, NEW d, NEW enc, NEW new, NEW p \in 0 .. Len(a), NEW f,
         Grows(a, b, q, r, d), Noted(a, b, q, r, d, enc, new), Waits(a, Len(a)) = Len(q),
         Follow(a, q, enc, p, f)
  PROVE  Follow(b, r, new, p, f)
<1>1. \A m \in Nat, n \in 0 .. Len(a) : m >= 1 => (NoKeyIn(b, m, n) <=> NoKeyIn(a, m, n))
  BY GrowNoKey
<1>2. Len(a) \in Nat /\ Len(b) = Len(a) + 1 /\ p \in Nat /\ p + 1 \in Nat /\ p + 1 >= 1
  BY DEF Grows, Noted
<1>3. /\ \A j \in 0 .. Len(a) : Waits(b, j) = Waits(a, j) /\ Frames(b, j) = Frames(a, j)
      /\ Frames(b, Len(b)) = Frames(a, Len(a)) + d
      /\ b[Len(b)].type = "token" => Waits(b, Len(b)) = Len(q) + 1
  <2>1. \A j \in 0 .. Len(a) : Waits(b, j) = Waits(a, j) /\ Frames(b, j) = Frames(a, j)
    BY GrowCounts DEF Waits, Frames
  <2>2. Frames(b, Len(a) + 1) = Frames(b, Len(a))
                            + IF b[Len(a) + 1].type \in {"token", "key"} THEN 1 ELSE 0
    BY <1>2, CountStep DEF Frames
  <2>3. Waits(b, Len(a) + 1) = Waits(b, Len(a)) + IF b[Len(a) + 1].type \in {"token"} THEN 1 ELSE 0
    <3>1. \A types : Count(b, types, Len(a) + 1) = Count(b, types, Len(a))
                                                + IF b[Len(a) + 1].type \in types THEN 1 ELSE 0
      BY <1>2, CountStep
    <3> QED
      BY <3>1 DEF Waits
  <2>4. d = IF b[Len(b)].type \in {"token", "key"} THEN 1 ELSE 0
    BY DEF Noted
  <2> QED
    BY <1>2, <2>1, <2>2, <2>3, <2>4
<1>4. ASSUME NEW j \in p + 1 .. Len(b), b[j].type = "token", NoKeyIn(b, p + 1, j - 1)
      PROVE  /\ r[Waits(b, j)].format = f
             /\ r[Waits(b, j)].age = Frames(b, Len(b)) - Frames(b, j)
  <2>1. CASE j \in p + 1 .. Len(a)
    <3>1. a[j].type = "token" /\ NoKeyIn(a, p + 1, j - 1)
      BY <2>1, <1>4, <1>1, <1>2 DEF Grows
    <3>2. q[Waits(a, j)].format = f /\ q[Waits(a, j)].age = Frames(a, Len(a)) - Frames(a, j)
      BY <2>1, <3>1 DEF Follow
    <3>3. Waits(a, j) \in 1 .. Len(q)
      BY <2>1, <3>1, <1>2, CountOne DEF Waits
    <3>4. /\ r[Waits(a, j)].format = q[Waits(a, j)].format
          /\ r[Waits(a, j)].age = q[Waits(a, j)].age + d
      BY <3>3 DEF Grows
    <3>5. Frames(a, Len(a)) \in Nat /\ Frames(a, j) \in Nat /\ d \in {0, 1} /\ j \in 0 .. Len(a)
      <4>1. j \in Nat /\ j \in 0 .. Len(a) /\ d \in {0, 1}
        BY <2>1, <1>2 DEF Grows
      <4> QED
        BY <4>1, <1>2, CountType DEF Frames
    <3>6. (Frames(a, Len(a)) - Frames(a, j)) + d = Frames(b, Len(b)) - Frames(b, j)
      BY <3>5, <1>3
    <3> QED
      BY <3>2, <3>4, <3>5, <3>6, <1>3
  <2>2. CASE j = Len(b)
    <3>1. NoKeyIn(a, p + 1, Len(a))
      BY <2>2, <1>4, <1>1, <1>2
    <3>2. enc = f /\ r[Len(r)].format = enc /\ r[Len(r)].age = 0 /\ Len(r) = Len(q) + 1
      BY <2>2, <1>4, <3>1 DEF Follow, Noted, Grows
    <3>3. Frames(b, Len(b)) \in Nat
      <4>1. Len(b) \in Nat
        BY <1>2
      <4> QED
        BY <4>1, CountType DEF Frames
    <3>4. Frames(b, Len(b)) - Frames(b, j) = 0
      BY <3>3, <2>2
    <3> QED
      BY <3>2, <3>4, <2>2, <1>3, <1>4
  <2> QED
    BY <2>1, <2>2, <1>2
<1>5. ASSUME NoKeyIn(b, p + 1, Len(b))
      PROVE  new \in {Nothing, f}
  <2>1. NoKeyIn(b, p + 1, Len(a)) /\ b[Len(b)].type # "key"
    BY <1>5, <1>2 DEF NoKeyIn
  <2>2. NoKeyIn(a, p + 1, Len(a))
    BY <2>1, <1>1, <1>2
  <2>3. enc \in {Nothing, f}
    BY <2>2 DEF Follow
  <2> QED
    BY <2>1, <2>3 DEF Noted
<1> QED
  BY <1>4, <1>5 DEF Follow

LEMMA ResetsGrows ==
  ASSUME NEW a, NEW b, NEW q, NEW r, NEW d, NEW enc, NEW new,
         Grows(a, b, q, r, d), Noted(a, b, q, r, d, enc, new), Resets(a, enc),
         b[Len(b)].type = "reset" /\ ~b[Len(b)].byUser => new = Nothing
  PROVE  Resets(b, new)
<1>1. Len(a) \in Nat /\ Len(b) = Len(a) + 1
  BY DEF Grows, Noted
<1> SUFFICES ASSUME NEW p \in 1 .. Len(b), b[p].type = "reset", ~b[p].byUser
             PROVE  KeyFirst(b, new, p)
  BY DEF Resets
<1>2. CASE p \in 1 .. Len(a)
  <2>1. a[p].type = "reset" /\ ~a[p].byUser
    BY <1>2 DEF Grows
  <2>2. KeyFirst(a, enc, p) /\ p \in 0 .. Len(a)
    BY <2>1, <1>2 DEF Resets
  <2> QED
    BY <2>2, KeyFirstGrows
<1>3. CASE p = Len(b)
  BY <1>1, <1>3 DEF KeyFirst
<1> QED
  BY <1>1, <1>2, <1>3

LEMMA UnspoiltGrows ==
  ASSUME NEW a, NEW b, NEW q, NEW r, NEW d, NEW enc, NEW new,
         Grows(a, b, q, r, d), Noted(a, b, q, r, d, enc, new), Waits(a, Len(a)) = Len(q),
         Frames(a, Len(a)) < Old, Unspoilt(a, q, enc)
  PROVE  Unspoilt(b, r, new)
<1>1. Len(a) \in Nat /\ Len(b) = Len(a) + 1 /\ Len(b) \in Nat /\ d \in {0, 1}
  BY DEF Grows, Noted
<1>2. /\ \A j \in 0 .. Len(a) : Frames(b, j) = Frames(a, j) /\ Frames(a, j) \in Nat
      /\ Frames(b, Len(b)) = Frames(a, Len(a)) + d
  <2>1. \A j \in 0 .. Len(a) : Frames(b, j) = Frames(a, j) /\ Frames(a, j) \in Nat
    <3> SUFFICES ASSUME NEW j \in 0 .. Len(a)
                 PROVE  Frames(b, j) = Frames(a, j) /\ Frames(a, j) \in Nat
      OBVIOUS
    <3>1. j \in Nat
      BY <1>1
    <3>2. Frames(a, j) \in Nat
      BY <3>1, CountType DEF Frames
    <3>3. Frames(b, j) = Frames(a, j)
      BY GrowCounts DEF Frames
    <3> QED
      BY <3>2, <3>3
  <2>2. Frames(b, Len(a) + 1) = Frames(b, Len(a))
                            + IF b[Len(a) + 1].type \in {"token", "key"} THEN 1 ELSE 0
    BY <1>1, CountStep DEF Frames
  <2>3. d = IF b[Len(b)].type \in {"token", "key"} THEN 1 ELSE 0
    BY DEF Noted
  <2> QED
    BY <1>1, <2>1, <2>2, <2>3
<1> SUFFICES ASSUME NEW p \in 1 .. Len(b), b[p].type = "key", ~b[p].spoilt
             PROVE  /\ b[p].age = Frames(b, Len(b)) - Frames(b, p)
                    /\ Follow(b, r, new, p, b[p].format)
  BY DEF Unspoilt
<1>3. CASE p \in 1 .. Len(a)
  <2>1. /\ a[p].type = "key" /\ ~a[p].spoilt /\ a[p].age \in 0 .. Old
        /\ b[p].format = a[p].format /\ p \in 0 .. Len(a)
        /\ b[p].age = IF d = 1 THEN Older(a[p].age) ELSE a[p].age
    <3>1. a[p].type = "key" /\ p \in 0 .. Len(a)
      BY <1>1, <1>3 DEF Grows
    <3> QED
      BY <3>1, <1>3 DEF Grows
  <2>2. a[p].age = Frames(a, Len(a)) - Frames(a, p)
    BY <2>1, <1>3 DEF Unspoilt
  <2>3. Follow(a, q, enc, p, a[p].format)
    BY <2>1, <1>3 DEF Unspoilt
  <2>4. Follow(b, r, new, p, b[p].format)
    BY <2>1, <2>3, FollowGrows
  <2>5. b[p].age = a[p].age + d
    <3>1. Frames(a, Len(a)) \in Nat /\ Frames(a, p) \in Nat
      BY <2>1, <1>1, <1>2
    <3>2. a[p].age \in 0 .. Old - 1
      BY <3>1, <2>1, <2>2, OldSize
    <3>3. Older(a[p].age) = a[p].age + 1
      BY <3>2, OldSize, OlderNext
    <3> QED
      BY <3>2, <3>3, <2>1, <1>1
  <2>6. b[p].age = Frames(b, Len(b)) - Frames(b, p)
    BY <2>1, <2>2, <2>5, <1>1, <1>2
  <2> QED
    BY <2>4, <2>6
<1>4. CASE p = Len(b)
  <2>1. b[p].age = 0 /\ new = b[p].format
    BY <1>4 DEF Noted
  <2>2. Frames(b, Len(b)) \in Nat
    BY <1>1, <1>2
  <2>3. Follow(b, r, new, p, b[p].format)
    BY <1>1, <1>4, <2>1 DEF Follow
  <2> QED
    BY <2>1, <2>2, <2>3, <1>4
<1> QED
  BY <1>1, <1>3, <1>4

LEMMA CoveredGrows ==
  ASSUME NEW a, NEW b, NEW q, NEW r, NEW d, Grows(a, b, q, r, d), Covered(a, q),
         d = 1 => \/ Len(r) = Len(q) + 1
                  \/ \E k \in 1 .. Len(b) : b[k].type = "key" /\ b[k].age = 0
  PROVE  Covered(b, r)
<1>1. /\ Len(a) \in Nat /\ Len(b) \in Nat /\ Len(b) >= Len(a)
      /\ Len(q) \in Nat /\ Len(r) \in Nat /\ Len(r) \in {Len(q), Len(q) + 1} /\ d \in {0, 1}
  BY DEF Grows
<1> SUFFICES ASSUME NEW i \in 1 .. Len(r), NEW x \in 0 .. r[i].age - 1
             PROVE  \/ \E j \in i + 1 .. Len(r) : r[j].age = x
                    \/ \E k \in 1 .. Len(b) : b[k].type = "key" /\ b[k].age = x
  BY DEF Covered
<1>2. CASE i \in 1 .. Len(q)
  <2>1. r[i].age = q[i].age + d /\ q[i].age \in 0 .. Old - 2
    BY <1>2 DEF Grows
  <2>2. CASE d = 1 /\ x = 0
    <3>1. CASE Len(r) = Len(q) + 1
      <4>1. r[Len(r)].age = 0 /\ Len(r) \in i + 1 .. Len(r)
        BY <3>1, <1>1, <1>2 DEF Grows
      <4> QED
        BY <4>1, <2>2
    <3> QED
      BY <3>1, <2>2
  <2>3. CASE x - d \in 0 .. q[i].age - 1
    <3>1. CASE \E j \in i + 1 .. Len(q) : q[j].age = x - d
      <4>1. PICK j \in i + 1 .. Len(q) : q[j].age = x - d
        BY <3>1
      <4>2. j \in 1 .. Len(q) /\ j \in i + 1 .. Len(r)
        BY <1>1, <1>2
      <4>3. r[j].age = q[j].age + d
        BY <4>2 DEF Grows
      <4>4. r[j].age = x
        BY <4>1, <4>3, <1>1, <2>1
      <4> QED
        BY <4>2, <4>4
    <3>2. CASE \E k \in 1 .. Len(a) : a[k].type = "key" /\ a[k].age = x - d
      <4>1. PICK k \in 1 .. Len(a) : a[k].type = "key" /\ a[k].age = x - d
        BY <3>2
      <4>2. /\ b[k].type = "key" /\ k \in 1 .. Len(b)
            /\ b[k].age = IF d = 1 THEN Older(a[k].age) ELSE a[k].age
        BY <4>1, <1>1 DEF Grows
      <4>3. a[k].age \in 0 .. Old - 1
        BY <4>1, <2>1, <2>3, OldSize
      <4>4. Older(a[k].age) = a[k].age + 1
        <5>1. a[k].age \in 0 .. Old /\ a[k].age # Old
          BY <4>3, OldSize
        <5> QED
          BY <5>1, OlderNext
      <4>5. b[k].age = x
        <5>1. b[k].age = a[k].age + d
          BY <4>2, <4>3, <4>4, <1>1
        <5> QED
          BY <5>1, <4>1, <1>1, <2>1
      <4> QED
        BY <4>2, <4>5
    <3> QED
      BY <3>1, <3>2, <2>3, <1>2 DEF Covered
  <2> QED
    BY <2>1, <2>2, <2>3, <1>1, OldSize
<1>3. CASE i = Len(q) + 1
  <2>1. r[i].age = 0
    BY <1>1, <1>3 DEF Grows
  <2> QED
    BY <2>1
<1> QED
  BY <1>1, <1>2, <1>3

LEMMA OrderedGrows ==
  ASSUME NEW a, NEW b, NEW q, NEW r, NEW d, Grows(a, b, q, r, d), Ordered(a, q),
         Len(b) = Len(a) + 1 /\ b[Len(b)].type = "key" => Len(r) <= Waits(a, Len(a))
  PROVE  Ordered(b, r)
<1>1. /\ Len(a) \in Nat /\ Len(b) \in {Len(a), Len(a) + 1}
      /\ Len(q) \in Nat /\ Len(r) \in {Len(q), Len(q) + 1} /\ d \in {0, 1}
  BY DEF Grows
<1> SUFFICES ASSUME NEW k \in 1 .. Len(b), b[k].type = "key",
                    NEW i \in 1 .. Len(r), i > Waits(b, k)
             PROVE  r[i].age < b[k].age
  BY DEF Ordered
<1>2. CASE k \in 1 .. Len(a)
  <2>1. /\ a[k].type = "key" /\ a[k].age \in 0 .. Old /\ k \in 0 .. Len(a)
        /\ b[k].age = IF d = 1 THEN Older(a[k].age) ELSE a[k].age
    <3>1. a[k].type = "key" /\ k \in 0 .. Len(a)
      BY <1>1, <1>2 DEF Grows
    <3> QED
      BY <3>1, <1>2 DEF Grows
  <2>2. i > Waits(a, k)
    BY <2>1, GrowCounts DEF Waits
  <2>3. CASE i \in 1 .. Len(q)
    <3>1. q[i].age < a[k].age
      BY <2>1, <2>2, <2>3, <1>2 DEF Ordered
    <3>2. r[i].age = q[i].age + d /\ q[i].age \in 0 .. Old - 2
      BY <2>3 DEF Grows
    <3>3. Older(a[k].age) = IF a[k].age = Old THEN Old ELSE a[k].age + 1
      BY <2>1, OlderNext
    <3>4. a[k].age \in Nat /\ q[i].age \in Nat
      BY <3>2, <2>1, OldSize
    <3>5. q[i].age + 1 < Older(a[k].age)
      <4>1. Older(a[k].age) = Old => q[i].age + 1 < Older(a[k].age)
        BY <3>2, OldSize
      <4>2. Older(a[k].age) = a[k].age + 1 => q[i].age + 1 < Older(a[k].age)
        BY <3>1, <3>4
      <4> QED
        BY <4>1, <4>2, <3>3
    <3>6. CASE d = 1
      BY <3>5, <3>6, <3>2, <2>1
    <3>7. CASE d = 0
      BY <3>1, <3>7, <3>2, <3>4, <2>1
    <3> QED
      BY <3>6, <3>7, <1>1
  <2>4. CASE i = Len(q) + 1
    <3>1. d = 1 /\ r[i].age = 0
      BY <2>4, <1>1 DEF Grows
    <3>2. Older(a[k].age) = IF a[k].age = Old THEN Old ELSE a[k].age + 1
      BY <2>1, OlderNext
    <3> QED
      BY <3>1, <3>2, <2>1, OldSize
  <2> QED
    BY <2>3, <2>4, <1>1
<1>3. CASE k = Len(a) + 1
  <2>1. Waits(b, Len(a) + 1) >= Waits(b, Len(a)) /\ Waits(b, Len(a)) = Waits(a, Len(a))
    <3>1. Len(a) + 1 \in Nat /\ Len(a) <= Len(a) + 1 /\ Len(a) \in 0 .. Len(a)
      BY <1>1
    <3>2. Waits(b, Len(a)) <= Waits(b, Len(a) + 1)
      BY <3>1, <1>1, CountMono DEF Waits
    <3>3. Waits(b, Len(a)) \in Nat /\ Waits(b, Len(a) + 1) \in Nat
      BY <3>1, <1>1, CountType DEF Waits
    <3> QED
      BY <3>1, <3>2, <3>3, GrowCounts DEF Waits
  <2>2. Len(r) <= Waits(a, Len(a))
    BY <1>1, <1>3
  <2>3. Waits(b, k) \in Nat /\ Waits(a, Len(a)) \in Nat
    <3>1. k \in Nat
      BY <1>1, <1>3
    <3> QED
      BY <3>1, <1>1, CountType DEF Waits
  <2> QED
    BY <2>1, <2>2, <2>3, <1>1, <1>3
<1> QED
  BY <1>1, <1>2, <1>3

\* The frames that are not too old to be followed.
LEMMA CoveredBound ==
  ASSUME NEW ch, NEW q, Covered(ch, q), Len(ch) \in Nat, Len(q) \in Nat,
         Len(q) <= VIDEO_QUEUE_SIZE, Count(ch, {"key"}, Len(ch)) <= MaxKeys,
         NEW i \in 1 .. Len(q), q[i].age \in Nat
  PROVE  q[i].age \in 0 .. Old - 2
<1> DEFINE n == q[i].age
           Js == i + 1 .. Len(q)
           Ks == {k \in 1 .. Len(ch) : ch[k].type \in {"key"}}
           A == {q[j].age : j \in Js}
           B == {ch[k].age : k \in Ks}
<1>1. IsFiniteSet(Js) /\ Cardinality(Js) = Len(q) - i
  <2>1. i + 1 \in Int /\ Len(q) \in Int
    OBVIOUS
  <2>2. IsFiniteSet(Js) /\ Cardinality(Js) = IF i + 1 > Len(q) THEN 0 ELSE Len(q) - (i + 1) + 1
    BY <2>1, FS_Interval
  <2> HIDE DEF Js
  <2> QED
    BY <2>2
<1>2. IsFiniteSet(Ks) /\ Cardinality(Ks) \in Nat /\ Cardinality(Ks) <= MaxKeys
  BY CountType DEF Count
<1>3. IsFiniteSet(A) /\ Cardinality(A) <= Cardinality(Js)
  <2>1. [j \in Js |-> q[j].age] \in Surjection(Js, A)
    BY DEF Surjection
  <2> HIDE DEF Js, A
  <2> QED
    BY <2>1, <1>1, FS_Surjection
<1>4. IsFiniteSet(B) /\ Cardinality(B) <= Cardinality(Ks)
  <2>1. [k \in Ks |-> ch[k].age] \in Surjection(Ks, B)
    BY DEF Surjection
  <2> HIDE DEF Ks, B
  <2> QED
    BY <2>1, <1>2, FS_Surjection
<1>5. 0 .. n - 1 \in SUBSET (A \cup B)
  <2> SUFFICES ASSUME NEW x \in 0 .. n - 1 PROVE x \in A \cup B
    OBVIOUS
  <2>1. CASE \E j \in i + 1 .. Len(q) : q[j].age = x
    BY <2>1
  <2>2. CASE \E k \in 1 .. Len(ch) : ch[k].type = "key" /\ ch[k].age = x
    BY <2>2
  <2> QED
    BY <2>1, <2>2 DEF Covered
<1> HIDE DEF A, B, Js, Ks
<1>6. IsFiniteSet(A \cup B) /\ Cardinality(A \cup B) <= Cardinality(A) + Cardinality(B)
      /\ Cardinality(A) \in Nat /\ Cardinality(B) \in Nat /\ Cardinality(A \cup B) \in Nat
  <2>1. A \cap B \in SUBSET A
    OBVIOUS
  <2>2. IsFiniteSet(A \cap B)
    BY <2>1, <1>3, FS_Subset
  <2>3. Cardinality(A \cap B) \in Nat /\ Cardinality(A) \in Nat /\ Cardinality(B) \in Nat
    BY <2>2, <1>3, <1>4, FS_CardinalityType
  <2>4. IsFiniteSet(A \cup B)
        /\ Cardinality(A \cup B) = Cardinality(A) + Cardinality(B) - Cardinality(A \cap B)
    BY <1>3, <1>4, FS_Union
  <2>5. Cardinality(A \cup B) \in Nat
    BY <2>4, FS_CardinalityType
  <2> QED
    BY <2>3, <2>4, <2>5
<1>7. Cardinality(0 .. n - 1) = n
  <2>1. Cardinality(0 .. n - 1) = IF 0 > n - 1 THEN 0 ELSE (n - 1) - 0 + 1
    <3>1. n - 1 \in Int /\ 0 \in Int
      OBVIOUS
    <3> HIDE DEF n
    <3> QED
      BY <3>1, FS_Interval
  <2>2. n \in Nat
    OBVIOUS
  <2> HIDE DEF n
  <2> QED
    BY <2>1, <2>2
<1>8. Cardinality(0 .. n - 1) <= Cardinality(A \cup B)
  BY <1>5, <1>6, FS_Subset
<1>9. n \in Nat /\ n <= (Len(q) - i) + MaxKeys
  BY <1>1, <1>2, <1>3, <1>4, <1>6, <1>7, <1>8, ClientVideoAssumption
<1> HIDE DEF n
<1>10. n \in 0 .. Old - 2
  BY <1>9, ClientVideoAssumption DEF Old
<1> QED
  BY <1>10 DEF n
-----------------------------------------------------------------------------
(* The first note is taken.                                                *)

LEMMA ShrinkCounts ==
  ASSUME NEW a, NEW b, NEW q, NEW r, NEW w, Shrinks(a, b, q, r, w)
  PROVE  \A types : \A j \in 0 .. Len(b) :
             Count(b, types, j) = Count(a, types, j + 1) - IF a[1].type \in types THEN 1 ELSE 0
<1> SUFFICES ASSUME NEW types, NEW j \in 0 .. Len(b)
             PROVE  Count(b, types, j)
                        = Count(a, types, j + 1) - IF a[1].type \in types THEN 1 ELSE 0
  OBVIOUS
<1>1. j \in Nat /\ \A k \in 1 .. j : b[k].type = a[k + 1].type
  BY DEF Shrinks
<1> QED
  BY <1>1, CountTail

LEMMA ShrinkSizes ==
  ASSUME NEW a, NEW b, NEW q, NEW r, NEW w, Shrinks(a, b, q, r, w)
  PROVE  /\ Len(a) \in Nat /\ Len(b) \in Nat /\ Len(b) = Len(a) - 1 /\ w \in {0, 1}
         /\ Len(q) \in Nat /\ Len(r) \in Nat /\ Len(r) = Len(q) - w
BY DEF Shrinks

LEMMA ShrinkWaits ==
  ASSUME NEW a, NEW b, NEW q, NEW r, NEW w, Shrinks(a, b, q, r, w)
  PROVE  \A j \in 0 .. Len(b) : /\ Waits(b, j) = Waits(a, j + 1) - w
                                /\ Waits(b, j) \in Nat /\ Waits(a, j + 1) \in Nat
<1> SUFFICES ASSUME NEW j \in 0 .. Len(b)
             PROVE  /\ Waits(b, j) = Waits(a, j + 1) - w
                    /\ Waits(b, j) \in Nat /\ Waits(a, j + 1) \in Nat
  OBVIOUS
<1>1. j \in Nat /\ j + 1 \in Nat
  BY ShrinkSizes
<1>2. w = IF a[1].type \in {"token"} THEN 1 ELSE 0
  BY DEF Shrinks
<1>3. \A types : Count(b, types, j)
                     = Count(a, types, j + 1) - IF a[1].type \in types THEN 1 ELSE 0
  BY ShrinkCounts
<1>4. \A types : Count(b, types, j) \in Nat /\ Count(a, types, j + 1) \in Nat
  BY <1>1, CountType
<1> QED
  BY <1>2, <1>3, <1>4 DEF Waits

LEMMA ShrinkFrames ==
  ASSUME NEW a, NEW b, NEW q, NEW r, NEW w, Shrinks(a, b, q, r, w)
  PROVE  \A j \in 0 .. Len(b) :
             /\ Frames(b, j) = Frames(a, j + 1) - IF a[1].type \in {"token", "key"} THEN 1 ELSE 0
             /\ Frames(b, j) \in Nat /\ Frames(a, j + 1) \in Nat
<1> SUFFICES ASSUME NEW j \in 0 .. Len(b)
             PROVE  /\ Frames(b, j) = Frames(a, j + 1)
                                          - IF a[1].type \in {"token", "key"} THEN 1 ELSE 0
                    /\ Frames(b, j) \in Nat /\ Frames(a, j + 1) \in Nat
  OBVIOUS
<1>1. j \in Nat /\ j + 1 \in Nat
  BY ShrinkSizes
<1>2. \A types : Count(b, types, j)
                     = Count(a, types, j + 1) - IF a[1].type \in types THEN 1 ELSE 0
  BY ShrinkCounts
<1>3. \A types : Count(b, types, j) \in Nat /\ Count(a, types, j + 1) \in Nat
  BY <1>1, CountType
<1> QED
  BY <1>2, <1>3 DEF Frames

LEMMA ShrinkNoKey ==
  ASSUME NEW a, NEW b, NEW q, NEW r, NEW w, Shrinks(a, b, q, r, w)
  PROVE  \A m \in Nat, n \in Int :
             m >= 1 /\ n <= Len(b) => (NoKeyIn(b, m, n) <=> NoKeyIn(a, m + 1, n + 1))
<1> SUFFICES ASSUME NEW m \in Nat, NEW n \in Int, m >= 1, n <= Len(b)
             PROVE  NoKeyIn(b, m, n) <=> NoKeyIn(a, m + 1, n + 1)
  OBVIOUS
<1>1. Len(b) \in Nat /\ \A j \in 1 .. Len(b) : b[j] = a[j + 1]
  BY ShrinkSizes DEF Shrinks
<1>2. ASSUME NoKeyIn(b, m, n), NEW k \in m + 1 .. n + 1
      PROVE  a[k].type # "key"
  <2>1. k - 1 \in m .. n /\ k - 1 \in 1 .. Len(b) /\ (k - 1) + 1 = k
    BY <1>1
  <2>2. b[k - 1] = a[(k - 1) + 1]
    BY <2>1, <1>1
  <2> QED
    BY <2>1, <2>2, <1>2 DEF NoKeyIn
<1>3. ASSUME NoKeyIn(a, m + 1, n + 1), NEW k \in m .. n
      PROVE  b[k].type # "key"
  <2>1. k + 1 \in m + 1 .. n + 1 /\ k \in 1 .. Len(b)
    BY <1>1
  <2> QED
    BY <2>1, <1>1, <1>3 DEF NoKeyIn
<1> QED
  BY <1>2, <1>3 DEF NoKeyIn

LEMMA ShrinkTotals ==
  ASSUME NEW a, NEW b, NEW q, NEW r, NEW w, Shrinks(a, b, q, r, w)
  PROVE  /\ Waits(b, Len(b)) = Waits(a, Len(a)) - w
         /\ Frames(b, Len(b)) = Frames(a, Len(a))
                                    - IF a[1].type \in {"token", "key"} THEN 1 ELSE 0
         /\ Count(b, {"key"}, Len(b)) \in Nat /\ Count(a, {"key"}, Len(a)) \in Nat
         /\ Count(b, {"key"}, Len(b)) <= Count(a, {"key"}, Len(a))
<1>1. /\ Len(b) \in 0 .. Len(b) /\ Len(b) \in Nat /\ Len(a) \in Nat /\ Len(b) + 1 = Len(a)
      /\ w = IF a[1].type \in {"token"} THEN 1 ELSE 0
  BY DEF Shrinks
<1>2. \A types : Count(b, types, Len(b))
                     = Count(a, types, Len(a)) - IF a[1].type \in types THEN 1 ELSE 0
  <2>1. \A types : \A j \in 0 .. Len(b) :
            Count(b, types, j) = Count(a, types, j + 1) - IF a[1].type \in types THEN 1 ELSE 0
    BY ShrinkCounts
  <2> QED
    BY <2>1, <1>1
<1>3. Count(b, {"key"}, Len(b)) \in Nat /\ Count(a, {"key"}, Len(a)) \in Nat
  BY <1>1, CountType
<1>4. Count(b, {"key"}, Len(b)) <= Count(a, {"key"}, Len(a))
  <2>1. Count(b, {"key"}, Len(b))
            = Count(a, {"key"}, Len(a)) - IF a[1].type \in {"key"} THEN 1 ELSE 0
    BY <1>2
  <2> QED
    BY <2>1, <1>3
<1> QED
  BY <1>1, <1>2, <1>3, <1>4 DEF Waits, Frames

LEMMA KeyFirstShrinks ==
  ASSUME NEW a, NEW b, NEW q, NEW r, NEW w, NEW enc, NEW p \in Nat,
         Shrinks(a, b, q, r, w), KeyFirst(a, enc, p + 1)
  PROVE  KeyFirst(b, enc, p)
<1>1. /\ Len(a) \in Nat /\ Len(b) \in Nat /\ Len(b) = Len(a) - 1 /\ p \in Nat
      /\ \A m \in Nat, n \in Int :
             m >= 1 /\ n <= Len(b) => (NoKeyIn(b, m, n) <=> NoKeyIn(a, m + 1, n + 1))
  BY ShrinkSizes, ShrinkNoKey
<1>2. ASSUME NEW j \in p + 1 .. Len(b), b[j].type = "token"
      PROVE  ~NoKeyIn(b, p + 1, j - 1)
  <2>1. j + 1 \in (p + 1) + 1 .. Len(a) /\ j \in 1 .. Len(b) /\ (j + 1) - 1 = (j - 1) + 1
    BY <1>1
  <2>2. a[j + 1].type = "token"
    BY <2>1, <1>2 DEF Shrinks
  <2>3. ~NoKeyIn(a, (p + 1) + 1, (j - 1) + 1)
    BY <2>1, <2>2 DEF KeyFirst
  <2> QED
    BY <2>3, <1>1
<1>3. ASSUME NoKeyIn(b, p + 1, Len(b))
      PROVE  enc = Nothing
  <2>1. NoKeyIn(a, (p + 1) + 1, Len(b) + 1) /\ Len(b) + 1 = Len(a)
    BY <1>1, <1>3
  <2> QED
    BY <2>1 DEF KeyFirst
<1> QED
  BY <1>2, <1>3 DEF KeyFirst

LEMMA FollowShrinks ==
  ASSUME NEW a, NEW b, NEW q, NEW r, NEW w, NEW enc, NEW p \in Nat, NEW f,
         Shrinks(a, b, q, r, w), Waits(a, Len(a)) = Len(q), Follow(a, q, enc, p + 1, f)
  PROVE  Follow(b, r, enc, p, f)
<1>1. /\ Len(a) \in Nat /\ Len(b) \in Nat /\ Len(b) = Len(a) - 1 /\ p \in Nat /\ w \in {0, 1}
      /\ Len(q) \in Nat /\ Len(r) \in Nat /\ Len(r) = Len(q) - w
      /\ \A m \in Nat, n \in Int :
             m >= 1 /\ n <= Len(b) => (NoKeyIn(b, m, n) <=> NoKeyIn(a, m + 1, n + 1))
  BY ShrinkSizes, ShrinkNoKey
<1>2. ASSUME NEW j \in p + 1 .. Len(b), b[j].type = "token", NoKeyIn(b, p + 1, j - 1)
      PROVE  /\ r[Waits(b, j)].format = f
             /\ r[Waits(b, j)].age = Frames(b, Len(b)) - Frames(b, j)
  <2>1. /\ j + 1 \in (p + 1) + 1 .. Len(a) /\ j \in 1 .. Len(b) /\ (j + 1) - 1 = (j - 1) + 1
        /\ Len(b) + 1 = Len(a) /\ j \in 0 .. Len(b) /\ Len(b) \in 0 .. Len(b)
    BY <1>1
  <2>2. a[j + 1].type = "token"
    BY <2>1, <1>2 DEF Shrinks
  <2>3. NoKeyIn(a, (p + 1) + 1, (j + 1) - 1)
    BY <2>1, <1>1, <1>2
  <2>4. /\ q[Waits(a, j + 1)].format = f
        /\ q[Waits(a, j + 1)].age = Frames(a, Len(a)) - Frames(a, j + 1)
    BY <2>1, <2>2, <2>3 DEF Follow
  <2>5. Waits(b, j) \in 1 .. Len(r) /\ Waits(b, j) + w = Waits(a, j + 1)
    <3>1. Waits(b, j) = Waits(a, j + 1) - w /\ Waits(b, Len(b)) = Len(q) - w
          /\ Waits(a, j + 1) \in Nat
      <4>1. \A k \in 0 .. Len(b) : Waits(b, k) = Waits(a, k + 1) - w /\ Waits(a, k + 1) \in Nat
        BY ShrinkWaits
      <4>2. Waits(b, Len(b)) = Waits(a, Len(b) + 1) - w
        BY <4>1, <2>1
      <4> QED
        BY <4>1, <4>2, <2>1
    <3>2. Waits(b, j) \in 1 .. Waits(b, Len(b))
      BY <2>1, <1>1, <1>2, CountOne DEF Waits
    <3> QED
      BY <3>1, <3>2, <1>1
  <2>6. r[Waits(b, j)] = q[Waits(b, j) + w]
    BY <2>5 DEF Shrinks
  <2>7. Frames(b, Len(b)) - Frames(b, j) = Frames(a, Len(a)) - Frames(a, j + 1)
    <3>1. /\ Frames(b, Len(b)) = Frames(a, Len(b) + 1)
                                     - IF a[1].type \in {"token", "key"} THEN 1 ELSE 0
          /\ Frames(b, j) = Frames(a, j + 1) - IF a[1].type \in {"token", "key"} THEN 1 ELSE 0
          /\ Frames(a, Len(b) + 1) \in Nat /\ Frames(a, j + 1) \in Nat
      <4>1. \A k \in 0 .. Len(b) :
               /\ Frames(b, k) = Frames(a, k + 1)
                                     - IF a[1].type \in {"token", "key"} THEN 1 ELSE 0
               /\ Frames(a, k + 1) \in Nat
        BY ShrinkFrames
      <4> QED
        BY <4>1, <2>1
    <3> QED
      BY <3>1, <2>1
  <2> QED
    BY <2>4, <2>5, <2>6, <2>7
<1>3. ASSUME NoKeyIn(b, p + 1, Len(b))
      PROVE  enc \in {Nothing, f}
  <2>1. NoKeyIn(a, (p + 1) + 1, Len(b) + 1) /\ Len(b) + 1 = Len(a)
    BY <1>1, <1>3
  <2> QED
    BY <2>1 DEF Follow
<1> QED
  BY <1>2, <1>3 DEF Follow

\* What is true before a note that is no key frame is true after it.
LEMMA FollowOn ==
  ASSUME NEW a, NEW q, NEW enc, NEW f, Len(a) \in Nat, a[1].type # "key",
         Follow(a, q, enc, 0, f)
  PROVE  Follow(a, q, enc, 0 + 1, f)
<1>1. \A n \in Int : NoKeyIn(a, 2, n) => NoKeyIn(a, 1, n)
  BY DEF NoKeyIn
<1> QED
  BY <1>1 DEF Follow

LEMMA KeyFirstOn ==
  ASSUME NEW a, NEW enc, Len(a) \in Nat, a[1].type # "key", KeyFirst(a, enc, 0)
  PROVE  KeyFirst(a, enc, 0 + 1)
<1>1. \A n \in Int : NoKeyIn(a, 2, n) => NoKeyIn(a, 1, n)
  BY DEF NoKeyIn
<1> QED
  BY <1>1 DEF KeyFirst

LEMMA ResetsShrinks ==
  ASSUME NEW a, NEW b, NEW q, NEW r, NEW w, NEW enc, Shrinks(a, b, q, r, w), Resets(a, enc)
  PROVE  Resets(b, enc)
<1> SUFFICES ASSUME NEW p \in 1 .. Len(b), b[p].type = "reset", ~b[p].byUser
             PROVE  KeyFirst(b, enc, p)
  BY DEF Resets
<1>1. p \in Nat /\ p + 1 \in 1 .. Len(a)
  BY ShrinkSizes
<1>2. a[p + 1].type = "reset" /\ ~a[p + 1].byUser
  BY DEF Shrinks
<1>3. KeyFirst(a, enc, p + 1)
  BY <1>1, <1>2 DEF Resets
<1> QED
  BY <1>1, <1>3, KeyFirstShrinks

LEMMA UnspoiltShrinks ==
  ASSUME NEW a, NEW b, NEW q, NEW r, NEW w, NEW enc, Shrinks(a, b, q, r, w),
         Waits(a, Len(a)) = Len(q), Unspoilt(a, q, enc)
  PROVE  Unspoilt(b, r, enc)
<1> SUFFICES ASSUME NEW p \in 1 .. Len(b), b[p].type = "key", ~b[p].spoilt
             PROVE  /\ b[p].age = Frames(b, Len(b)) - Frames(b, p)
                    /\ Follow(b, r, enc, p, b[p].format)
  BY DEF Unspoilt
<1>1. /\ p \in Nat /\ p + 1 \in 1 .. Len(a) /\ Len(b) + 1 = Len(a)
      /\ p \in 0 .. Len(b) /\ Len(b) \in 0 .. Len(b)
  BY ShrinkSizes
<1>2. b[p] = a[p + 1]
  BY DEF Shrinks
<1>3. /\ a[p + 1].age = Frames(a, Len(a)) - Frames(a, p + 1)
      /\ Follow(a, q, enc, p + 1, a[p + 1].format)
  BY <1>1, <1>2 DEF Unspoilt
<1>4. Follow(b, r, enc, p, b[p].format)
  BY <1>1, <1>2, <1>3, FollowShrinks
<1>5. /\ Frames(b, Len(b)) = Frames(a, Len(b) + 1)
                                 - IF a[1].type \in {"token", "key"} THEN 1 ELSE 0
      /\ Frames(b, p) = Frames(a, p + 1) - IF a[1].type \in {"token", "key"} THEN 1 ELSE 0
      /\ Frames(a, Len(b) + 1) \in Nat /\ Frames(a, p + 1) \in Nat
  <2>1. \A j \in 0 .. Len(b) :
            /\ Frames(b, j) = Frames(a, j + 1)
                                  - IF a[1].type \in {"token", "key"} THEN 1 ELSE 0
            /\ Frames(a, j + 1) \in Nat
    BY ShrinkFrames
  <2> QED
    BY <1>1, <2>1
<1> QED
  BY <1>1, <1>2, <1>3, <1>4, <1>5

\* A key frame at the head is older than the queue: nothing there rests on it.
LEMMA CoveredShrinks ==
  ASSUME NEW a, NEW b, NEW q, NEW r, NEW w, Shrinks(a, b, q, r, w),
         Covered(a, q), Ordered(a, q), \A i \in 1 .. Len(q) : q[i].age \in Nat
  PROVE  Covered(b, r)
<1>1. /\ Len(a) \in Nat /\ Len(b) \in Nat /\ Len(b) = Len(a) - 1 /\ w \in {0, 1}
      /\ Len(q) \in Nat /\ Len(r) \in Nat /\ Len(r) = Len(q) - w
  BY ShrinkSizes
<1> SUFFICES ASSUME NEW i \in 1 .. Len(r), NEW x \in 0 .. r[i].age - 1
             PROVE  \/ \E j \in i + 1 .. Len(r) : r[j].age = x
                    \/ \E k \in 1 .. Len(b) : b[k].type = "key" /\ b[k].age = x
  BY DEF Covered
<1>2. i + w \in 1 .. Len(q) /\ r[i] = q[i + w] /\ x \in 0 .. q[i + w].age - 1
  BY <1>1 DEF Shrinks
<1>3. \/ \E j \in (i + w) + 1 .. Len(q) : q[j].age = x
      \/ \E k \in 1 .. Len(a) : a[k].type = "key" /\ a[k].age = x
  BY <1>2 DEF Covered
<1>4. CASE \E j \in (i + w) + 1 .. Len(q) : q[j].age = x
  <2>1. PICK j \in (i + w) + 1 .. Len(q) : q[j].age = x
    BY <1>4
  <2>2. j - w \in i + 1 .. Len(r) /\ j - w \in 1 .. Len(r) /\ (j - w) + w = j
    BY <1>1
  <2>3. r[j - w] = q[(j - w) + w]
    BY <2>2 DEF Shrinks
  <2> QED
    BY <2>1, <2>2, <2>3
<1>5. CASE \E k \in 1 .. Len(a) : a[k].type = "key" /\ a[k].age = x
  <2>1. PICK k \in 1 .. Len(a) : a[k].type = "key" /\ a[k].age = x
    BY <1>5
  <2>2. k # 1
    <3> SUFFICES ASSUME k = 1 PROVE FALSE
      OBVIOUS
    <3>1. Waits(a, 1) = 0
      <4>1. Waits(a, 0 + 1) = Waits(a, 0) + IF a[0 + 1].type \in {"token"} THEN 1 ELSE 0
        <5>1. \A types : Count(a, types, 0 + 1)
                             = Count(a, types, 0) + IF a[0 + 1].type \in types THEN 1 ELSE 0
          BY CountStep
        <5> QED
          BY <5>1 DEF Waits
      <4> QED
        BY <4>1, <2>1, CountNone DEF Waits
    <3>2. q[i + w].age < x
      BY <3>1, <2>1, <1>2 DEF Ordered
    <3> QED
      BY <3>2, <1>2
  <2>3. k - 1 \in 1 .. Len(b) /\ (k - 1) + 1 = k
    BY <2>2, <1>1
  <2>4. b[k - 1] = a[(k - 1) + 1]
    BY <2>3 DEF Shrinks
  <2> QED
    BY <2>1, <2>3, <2>4
<1> QED
  BY <1>3, <1>4, <1>5

LEMMA OrderedShrinks ==
  ASSUME NEW a, NEW b, NEW q, NEW r, NEW w, Shrinks(a, b, q, r, w), Ordered(a, q)
  PROVE  Ordered(b, r)
<1>1. /\ Len(a) \in Nat /\ Len(b) \in Nat /\ Len(b) = Len(a) - 1 /\ w \in {0, 1}
      /\ Len(q) \in Nat /\ Len(r) \in Nat /\ Len(r) = Len(q) - w
  BY ShrinkSizes
<1> SUFFICES ASSUME NEW k \in 1 .. Len(b), b[k].type = "key",
                    NEW i \in 1 .. Len(r), i > Waits(b, k)
             PROVE  r[i].age < b[k].age
  BY DEF Ordered
<1>2. b[k] = a[k + 1] /\ r[i] = q[i + w]
  BY DEF Shrinks
<1>3. k + 1 \in 1 .. Len(a) /\ i + w \in 1 .. Len(q) /\ k \in 0 .. Len(b)
  BY <1>1
<1>4. i + w > Waits(a, k + 1)
  <2>1. Waits(b, k) = Waits(a, k + 1) - w /\ Waits(a, k + 1) \in Nat
    <3>1. \A j \in 0 .. Len(b) : Waits(b, j) = Waits(a, j + 1) - w /\ Waits(a, j + 1) \in Nat
      BY ShrinkWaits
    <3> QED
      BY <1>3, <3>1
  <2> QED
    BY <2>1, <1>1
<1> QED
  BY <1>2, <1>3, <1>4 DEF Ordered

\* A queue without its oldest frame, when it is dropped.
LEMMA DropOldest ==
  ASSUME NEW ch, NEW q, NEW r, Covered(ch, q), Ordered(ch, q), Len(ch) \in Nat,
         Len(q) \in Nat, Len(r) \in Nat, Len(r) = Len(q) - 1,
         \A i \in 1 .. Len(r) : r[i] = q[i + 1]
  PROVE  Covered(ch, r) /\ Ordered(ch, r)
<1>1. ASSUME NEW i \in 1 .. Len(r), NEW x \in 0 .. r[i].age - 1
      PROVE  \/ \E j \in i + 1 .. Len(r) : r[j].age = x
             \/ \E k \in 1 .. Len(ch) : ch[k].type = "key" /\ ch[k].age = x
  <2>1. i + 1 \in 1 .. Len(q) /\ r[i] = q[i + 1] /\ x \in 0 .. q[i + 1].age - 1
    BY <1>1
  <2>2. CASE \E j \in (i + 1) + 1 .. Len(q) : q[j].age = x
    <3>1. PICK j \in (i + 1) + 1 .. Len(q) : q[j].age = x
      BY <2>2
    <3>2. j - 1 \in i + 1 .. Len(r) /\ j - 1 \in 1 .. Len(r) /\ (j - 1) + 1 = j
      OBVIOUS
    <3>3. r[j - 1] = q[(j - 1) + 1]
      BY <3>2
    <3> QED
      BY <3>1, <3>2, <3>3
  <2> QED
    BY <2>1, <2>2 DEF Covered
<1>2. ASSUME NEW k \in 1 .. Len(ch), ch[k].type = "key",
             NEW i \in 1 .. Len(r), i > Waits(ch, k)
      PROVE  r[i].age < ch[k].age
  <2>1. i + 1 \in 1 .. Len(q) /\ r[i] = q[i + 1]
    OBVIOUS
  <2>2. Waits(ch, k) \in Nat
    <3>1. k \in Nat
      OBVIOUS
    <3> QED
      BY <3>1, CountType DEF Waits
  <2>3. i + 1 > Waits(ch, k)
    BY <2>2, <1>2
  <2> QED
    BY <2>1, <2>3, <1>2 DEF Ordered
<1> QED
  BY <1>1, <1>2 DEF Covered, Ordered
-----------------------------------------------------------------------------
(* What the types say.                                                     *)

KeyNotes == [type : {"key"}, format : Formats, age : 0 .. Old, spoilt : BOOLEAN]
Notes == {Token, Reset(TRUE), Reset(FALSE)} \cup KeyNotes
QueueFrames == [format : Formats, age : 0 .. Old - 2]

LEMMA NoteTypes ==
  ASSUME NEW m \in Notes
  PROVE  /\ m.type \in {"token", "key", "reset"}
         /\ m = Token <=> m.type = "token"
         /\ IsKey(m) <=> m.type = "key"
         /\ m.type = "key" => m \in KeyNotes
         /\ m.type = "reset" => m.byUser \in BOOLEAN /\ m \in {Reset(TRUE), Reset(FALSE)}
<1>1. Token.type = "token"
  BY DEF Token
<1>2. \A u \in BOOLEAN : Reset(u).type = "reset" /\ Reset(u).byUser = u
  BY DEF Reset
<1>3. \A k \in KeyNotes : k.type = "key"
  BY DEF KeyNotes
<1> QED
  BY <1>1, <1>2, <1>3 DEF Notes, IsKey

LEMMA Shape ==
  ASSUME ClientTypeOK
  PROVE  /\ channel \in Seq(Notes) /\ Len(channel) \in Nat /\ DOMAIN channel = 1 .. Len(channel)
         /\ \A j \in 1 .. Len(channel) : channel[j] \in Notes
         /\ video_queue \in Seq(QueueFrames) /\ Len(video_queue) \in Nat
         /\ DOMAIN video_queue = 1 .. Len(video_queue)
         /\ \A i \in 1 .. Len(video_queue) : video_queue[i] \in QueueFrames
         /\ Cardinality(Tokens) = Waits(channel, Len(channel))
         /\ Cardinality(Keys) = Count(channel, {"key"}, Len(channel))
         /\ Waits(channel, Len(channel)) = Len(video_queue)
<1>1. /\ channel \in Seq(Notes) /\ Len(channel) \in Nat /\ DOMAIN channel = 1 .. Len(channel)
      /\ \A j \in 1 .. Len(channel) : channel[j] \in Notes
  <2>1. channel \in Seq(Notes)
    BY DEF ClientTypeOK, Notes, KeyNotes
  <2> QED
    BY <2>1, LenProperties, ElementOfSeq
<1>2. /\ video_queue \in Seq(QueueFrames) /\ Len(video_queue) \in Nat
      /\ DOMAIN video_queue = 1 .. Len(video_queue)
      /\ \A i \in 1 .. Len(video_queue) : video_queue[i] \in QueueFrames
  <2>1. video_queue \in Seq(QueueFrames)
    BY DEF ClientTypeOK, QueueFrames
  <2> QED
    BY <2>1, LenProperties, ElementOfSeq
<1>3. Tokens = {j \in 1 .. Len(channel) : channel[j].type \in {"token"}}
  BY <1>1, NoteTypes DEF Tokens
<1>4. Keys = {j \in 1 .. Len(channel) : channel[j].type \in {"key"}}
  BY <1>1, NoteTypes DEF Keys
<1>5. Cardinality(Tokens) = Len(video_queue)
  BY DEF ClientTypeOK
<1> QED
  BY <1>1, <1>2, <1>3, <1>4, <1>5 DEF Count, Waits

\* There are fewer frames than Old.
LEMMA FewFrames ==
  ASSUME ClientTypeOK, Cardinality(Keys) <= MaxKeys
  PROVE  Frames(channel, Len(channel)) \in 0 .. Old - 1
<1>1. /\ Len(channel) \in Nat
      /\ Cardinality(Keys) = Count(channel, {"key"}, Len(channel))
      /\ Waits(channel, Len(channel)) = Len(video_queue)
      /\ Len(video_queue) <= VIDEO_QUEUE_SIZE
  BY Shape DEF ClientTypeOK
<1>2. /\ Frames(channel, Len(channel)) = Len(video_queue) + Cardinality(Keys)
      /\ Frames(channel, Len(channel)) \in Nat /\ Len(video_queue) \in Nat
      /\ Cardinality(Keys) \in Nat
  <2>1. Frames(channel, Len(channel)) \in Nat /\ Count(channel, {"key"}, Len(channel)) \in Nat
    BY <1>1, CountType DEF Frames
  <2> QED
    BY <1>1, <2>1, FramesCount, Shape
<1> QED
  BY <1>1, <1>2, ClientVideoAssumption DEF Old

LEMMA AgedNote ==
  ASSUME NEW m \in Notes
  PROVE  LET new == IF IsKey(m) THEN [m EXCEPT !.age = Older(@)] ELSE m
         IN  /\ new \in Notes /\ new.type = m.type
             /\ m.type = "reset" => new.byUser = m.byUser
             /\ m.type = "key" => /\ m.age \in 0 .. Old /\ new.format = m.format
                                  /\ new.age = Older(m.age) /\ new.spoilt = m.spoilt
<1>1. CASE m.type = "key"
  <2>1. m \in KeyNotes /\ IsKey(m)
    BY <1>1, NoteTypes
  <2>2. Older(m.age) \in 0 .. Old
    BY <2>1, OlderNext, OldSize DEF KeyNotes
  <2>3. [m EXCEPT !.age = Older(@)] \in KeyNotes
    BY <2>1, <2>2 DEF KeyNotes
  <2>4. /\ [m EXCEPT !.age = Older(@)].type = m.type
        /\ [m EXCEPT !.age = Older(@)].format = m.format
        /\ [m EXCEPT !.age = Older(@)].spoilt = m.spoilt
        /\ [m EXCEPT !.age = Older(@)].age = Older(m.age)
        /\ m.age \in 0 .. Old
    BY <2>1 DEF KeyNotes
  <2> QED
    BY <1>1, <2>1, <2>3, <2>4 DEF Notes
<1>2. CASE m.type # "key"
  BY <1>2 DEF IsKey
<1> QED
  BY <1>1, <1>2

LEMMA SpoiltNote ==
  ASSUME NEW m \in Notes
  PROVE  LET new == IF IsKey(m) THEN [m EXCEPT !.spoilt = TRUE] ELSE m
         IN  /\ new \in Notes /\ new.type = m.type
             /\ m.type = "reset" => new.byUser = m.byUser
             /\ m.type = "key" => new.format = m.format /\ new.age = m.age /\ new.spoilt
<1>1. CASE m.type = "key"
  <2>1. m \in KeyNotes /\ IsKey(m)
    BY <1>1, NoteTypes
  <2>3. [m EXCEPT !.spoilt = TRUE] \in KeyNotes
    BY <2>1 DEF KeyNotes
  <2>4. /\ [m EXCEPT !.spoilt = TRUE].type = m.type
        /\ [m EXCEPT !.spoilt = TRUE].format = m.format
        /\ [m EXCEPT !.spoilt = TRUE].age = m.age
        /\ [m EXCEPT !.spoilt = TRUE].spoilt
    BY <2>1 DEF KeyNotes
  <2> QED
    BY <1>1, <2>1, <2>3, <2>4 DEF Notes
<1>2. CASE m.type # "key"
  BY <1>2 DEF IsKey
<1> QED
  BY <1>1, <1>2

LEMMA AgedChannelFacts ==
  ASSUME ClientTypeOK
  PROVE  /\ AgedChannel \in Seq(Notes) /\ Len(AgedChannel) = Len(channel)
         /\ \A j \in 1 .. Len(channel) :
               /\ AgedChannel[j] \in Notes /\ AgedChannel[j].type = channel[j].type
               /\ channel[j].type = "reset" => AgedChannel[j].byUser = channel[j].byUser
               /\ channel[j].type = "key" =>
                     /\ channel[j].age \in 0 .. Old
                     /\ AgedChannel[j].format = channel[j].format
                     /\ AgedChannel[j].age = Older(channel[j].age)
                     /\ AgedChannel[j].spoilt = channel[j].spoilt
<1>1. /\ Len(channel) \in Nat /\ DOMAIN channel = 1 .. Len(channel)
      /\ \A j \in 1 .. Len(channel) : channel[j] \in Notes
  BY Shape
<1>2. AgedChannel = [j \in 1 .. Len(channel) |->
                        IF IsKey(channel[j]) THEN [channel[j] EXCEPT !.age = Older(@)]
                        ELSE channel[j]]
  BY <1>1 DEF AgedChannel
<1>3. ASSUME NEW j \in 1 .. Len(channel)
      PROVE  /\ AgedChannel[j] \in Notes /\ AgedChannel[j].type = channel[j].type
             /\ channel[j].type = "reset" => AgedChannel[j].byUser = channel[j].byUser
             /\ channel[j].type = "key" =>
                   /\ channel[j].age \in 0 .. Old
                   /\ AgedChannel[j].format = channel[j].format
                   /\ AgedChannel[j].age = Older(channel[j].age)
                   /\ AgedChannel[j].spoilt = channel[j].spoilt
  <2>1. AgedChannel[j] = IF IsKey(channel[j]) THEN [channel[j] EXCEPT !.age = Older(@)]
                         ELSE channel[j]
    BY <1>2
  <2>2. channel[j] \in Notes
    BY <1>1
  <2> HIDE DEF AgedChannel
  <2> QED
    BY <2>1, <2>2, AgedNote
<1>4. AgedChannel \in [1 .. Len(channel) -> Notes]
  BY <1>2, <1>3
<1> QED
  BY <1>1, <1>3, <1>4

LEMMA SpoiltFacts ==
  ASSUME NEW s \in Seq(Notes)
  PROVE  /\ Spoilt(s) \in Seq(Notes) /\ Len(Spoilt(s)) = Len(s)
         /\ \A j \in 1 .. Len(s) :
               /\ Spoilt(s)[j] \in Notes /\ Spoilt(s)[j].type = s[j].type
               /\ s[j].type = "reset" => Spoilt(s)[j].byUser = s[j].byUser
               /\ s[j].type = "key" => /\ Spoilt(s)[j].format = s[j].format
                                       /\ Spoilt(s)[j].age = s[j].age /\ Spoilt(s)[j].spoilt
<1>1. /\ Len(s) \in Nat /\ DOMAIN s = 1 .. Len(s)
      /\ \A j \in 1 .. Len(s) : s[j] \in Notes
  BY LenProperties, ElementOfSeq
<1>2. Spoilt(s) = [j \in 1 .. Len(s) |->
                      IF IsKey(s[j]) THEN [s[j] EXCEPT !.spoilt = TRUE] ELSE s[j]]
  BY <1>1 DEF Spoilt
<1>3. ASSUME NEW j \in 1 .. Len(s)
      PROVE  /\ Spoilt(s)[j] \in Notes /\ Spoilt(s)[j].type = s[j].type
             /\ s[j].type = "reset" => Spoilt(s)[j].byUser = s[j].byUser
             /\ s[j].type = "key" => /\ Spoilt(s)[j].format = s[j].format
                                     /\ Spoilt(s)[j].age = s[j].age /\ Spoilt(s)[j].spoilt
  <2>1. Spoilt(s)[j] = IF IsKey(s[j]) THEN [s[j] EXCEPT !.spoilt = TRUE] ELSE s[j]
    BY <1>2
  <2>2. s[j] \in Notes
    BY <1>1
  <2> QED
    BY <2>1, <2>2, SpoiltNote
<1>4. Spoilt(s) \in [1 .. Len(s) -> Notes]
  BY <1>2, <1>3
<1> QED
  BY <1>1, <1>3, <1>4

LEMMA AgedFacts ==
  ASSUME NEW q \in Seq(QueueFrames)
  PROVE  /\ Aged(q) \in Seq([format : Formats, age : 0 .. Old - 1]) /\ Len(Aged(q)) = Len(q)
         /\ \A i \in 1 .. Len(q) : /\ q[i].age \in 0 .. Old - 2
                                   /\ Aged(q)[i].format = q[i].format
                                   /\ Aged(q)[i].age = q[i].age + 1
<1>1. /\ Len(q) \in Nat /\ DOMAIN q = 1 .. Len(q)
      /\ \A i \in 1 .. Len(q) : q[i] \in QueueFrames
  BY LenProperties, ElementOfSeq
<1>2. Aged(q) = [i \in 1 .. Len(q) |-> [q[i] EXCEPT !.age = Older(@)]]
  BY <1>1 DEF Aged
<1>3. ASSUME NEW i \in 1 .. Len(q)
      PROVE  /\ q[i].age \in 0 .. Old - 2 /\ Aged(q)[i].format = q[i].format
             /\ Aged(q)[i].age = q[i].age + 1
             /\ Aged(q)[i] \in [format : Formats, age : 0 .. Old - 1]
  <2>1. Aged(q)[i] = [q[i] EXCEPT !.age = Older(@)]
    BY <1>2
  <2>2. q[i] \in QueueFrames
    BY <1>1
  <2>3. q[i].age \in 0 .. Old - 2
    BY <2>2 DEF QueueFrames
  <2>4. Older(q[i].age) = q[i].age + 1
    <3>1. q[i].age \in 0 .. Old /\ q[i].age # Old
      BY <2>3, OldSize
    <3> QED
      BY <3>1, OlderNext
  <2>5. q[i].age + 1 \in 0 .. Old - 1
    BY <2>3, OldSize
  <2> QED
    BY <2>1, <2>2, <2>3, <2>4, <2>5 DEF QueueFrames
<1>4. Aged(q) \in [1 .. Len(q) -> [format : Formats, age : 0 .. Old - 1]]
  BY <1>2, <1>3
<1>5. Aged(q) \in Seq([format : Formats, age : 0 .. Old - 1]) /\ Len(Aged(q)) = Len(q)
  <2>1. \A R : \A g \in [1 .. Len(q) -> R] : g \in Seq(R) /\ Len(g) = Len(q)
    BY <1>1
  <2> QED
    BY <1>4, <2>1
<1> QED
  BY <1>3, <1>5
-----------------------------------------------------------------------------
(* What the steps do to the notes and the queue.                           *)

\* ClientTypeOK in two parts.
QueueOK(ch, q) ==
    /\ ch \in Seq(Notes) /\ q \in Seq(QueueFrames)
    /\ Len(q) <= VIDEO_QUEUE_SIZE /\ Waits(ch, Len(ch)) = Len(q)
RestOK ==
    /\ encoder \in Formats \cup {Nothing} /\ due \in BOOLEAN /\ asked \in BOOLEAN
    /\ unusable \subseteq Formats /\ known \subseteq Formats
    /\ sender \in Seq({Refresh, ResetDecoder} \cup {Marks(F) : F \in SUBSET Formats})
    /\ Len(sender) <= MaxSender + 2
    /\ discard_queue \in BOOLEAN
    /\ popped \in Seq([format : Formats, age : 0 .. Old, follows : BOOLEAN]) /\ Len(popped) <= 1
    /\ decoder \in Formats \cup {Nothing} /\ last \in NoKey .. Old
    /\ last # NoKey => decoder # Nothing
    /\ first_frame \in BOOLEAN /\ fail_counter \in 0 .. MAX_DECODE_FAIL_COUNTER
    /\ mark_unsupported \subseteq Formats
    /\ overflows \in 0 .. MaxOverflows /\ touches \in 0 .. MaxTouches /\ spoilt \in BOOLEAN

LEMMA NoteSets ==
  ASSUME NEW ch \in Seq(Notes)
  PROVE  /\ Len(ch) \in Nat
         /\ Cardinality({i \in DOMAIN ch : ch[i] = Token}) = Waits(ch, Len(ch))
         /\ Cardinality({i \in DOMAIN ch : IsKey(ch[i])}) = Count(ch, {"key"}, Len(ch))
<1>1. /\ Len(ch) \in Nat /\ DOMAIN ch = 1 .. Len(ch)
      /\ \A j \in 1 .. Len(ch) : ch[j] \in Notes
  BY LenProperties, ElementOfSeq
<1>2. {i \in DOMAIN ch : ch[i] = Token} = {j \in 1 .. Len(ch) : ch[j].type \in {"token"}}
  BY <1>1, NoteTypes
<1>3. {i \in DOMAIN ch : IsKey(ch[i])} = {j \in 1 .. Len(ch) : ch[j].type \in {"key"}}
  BY <1>1, NoteTypes
<1> QED
  BY <1>1, <1>2, <1>3 DEF Count, Waits

LEMMA TypeParts ==
  ASSUME ClientTypeOK
  PROVE  QueueOK(channel, video_queue) /\ RestOK
<1>1. QueueOK(channel, video_queue)
  BY Shape DEF QueueOK, ClientTypeOK
<1>2. RestOK
  BY DEF RestOK, ClientTypeOK
<1> QED
  BY <1>1, <1>2

LEMMA TypeWhole ==
  ASSUME QueueOK(channel', video_queue'), RestOK'
  PROVE  ClientTypeOK'
<1>1. Cardinality(Tokens)' = Len(video_queue')
  BY NoteSets DEF QueueOK, Tokens
<1>2. channel' \in Seq({Token, Reset(TRUE), Reset(FALSE)} \cup
                      [type : {"key"}, format : Formats, age : 0 .. Old, spoilt : BOOLEAN])
  BY DEF QueueOK, Notes, KeyNotes
<1>3. video_queue' \in Seq([format : Formats, age : 0 .. Old - 2])
      /\ Len(video_queue') <= VIDEO_QUEUE_SIZE
  BY DEF QueueOK, QueueFrames
<1> QED
  BY <1>1, <1>2, <1>3, Zenon DEF RestOK, ClientTypeOK

LEMMA TakenAges ==
  ASSUME NEW ch \in Seq(Notes), NEW q \in Seq([format : Formats, age : 0 .. Old - 1]),
         Covered(ch, q), Len(q) <= VIDEO_QUEUE_SIZE, Count(ch, {"key"}, Len(ch)) <= MaxKeys
  PROVE  q \in Seq(QueueFrames)
<1>1. /\ Len(ch) \in Nat /\ Len(q) \in Nat /\ DOMAIN q = 1 .. Len(q)
      /\ q \in [1 .. Len(q) -> [format : Formats, age : 0 .. Old - 1]]
  BY LenProperties
<1>2. ASSUME NEW i \in 1 .. Len(q)
      PROVE  q[i] \in QueueFrames
  <2>1. q[i] \in [format : Formats, age : 0 .. Old - 1]
    BY <1>1
  <2>2. q[i].age \in Nat
    BY <2>1, OldSize
  <2>3. q[i].age \in 0 .. Old - 2
    BY <2>2, <1>1, CoveredBound
  <2> QED
    BY <2>1, <2>3 DEF QueueFrames
<1>3. q \in [1 .. Len(q) -> QueueFrames]
  BY <1>1, <1>2
<1> QED
  BY <1>1, <1>3

\* A note is added.
LEMMA AddStep ==
  ASSUME ClientTypeOK, QueueInv, Resets(channel, encoder),
         Unspoilt(channel, video_queue, encoder), NEW d,
         Grows(channel, channel', video_queue, video_queue', d),
         Noted(channel, channel', video_queue, video_queue', d, encoder, encoder'),
         channel' \in Seq(Notes), Len(video_queue') <= VIDEO_QUEUE_SIZE,
         video_queue' \in Seq([format : Formats, age : 0 .. Old - 1]),
         channel'[Len(channel')].type = "key" => Cardinality(Keys) < MaxKeys,
         channel'[Len(channel')].type = "reset" /\ ~channel'[Len(channel')].byUser
             => encoder' = Nothing
  PROVE  /\ QueueOK(channel', video_queue') /\ QueueInv'
         /\ Resets(channel', encoder') /\ Unspoilt(channel', video_queue', encoder')
         /\ Frames(channel', Len(channel')) = Frames(channel, Len(channel)) + d
<1> DEFINE n == Len(channel)
           m == channel'[Len(channel')]
<1>1. /\ n \in Nat /\ Len(channel') = n + 1 /\ n \in 0 .. n /\ Len(video_queue) \in Nat
      /\ Waits(channel, n) = Len(video_queue) /\ Cardinality(Keys) = Count(channel, {"key"}, n)
      /\ m.type \in {"token", "key", "reset"} /\ d = IF m.type = "reset" THEN 0 ELSE 1
      /\ m.type = "token" => Len(video_queue') = Len(video_queue) + 1
      /\ m.type # "token" => Len(video_queue') = Len(video_queue)
      /\ m.type = "key" => m.age = 0
  BY Shape DEF Noted
<1>2. \A types : Count(channel', types, n + 1)
                     = Count(channel, types, n) + IF m.type \in types THEN 1 ELSE 0
  <2> SUFFICES ASSUME NEW types
               PROVE  Count(channel', types, n + 1)
                          = Count(channel, types, n) + IF m.type \in types THEN 1 ELSE 0
    OBVIOUS
  <2>1. Count(channel', types, n) = Count(channel, types, n)
    BY <1>1, GrowCounts
  <2>2. Count(channel', types, n + 1)
            = Count(channel', types, n) + IF channel'[n + 1].type \in types THEN 1 ELSE 0
    BY <1>1, CountStep
  <2> QED
    BY <2>1, <2>2, <1>1
<1>3. Frames(channel', Len(channel')) = Frames(channel, n) + d
  BY <1>1, <1>2 DEF Frames
<1>4. Waits(channel', Len(channel')) = Len(video_queue')
  <2>1. Waits(channel', n + 1) = Waits(channel, n) + IF m.type \in {"token"} THEN 1 ELSE 0
    BY <1>2 DEF Waits
  <2> QED
    BY <2>1, <1>1
<1>5. Count(channel', {"key"}, Len(channel')) <= MaxKeys
  <2>1. Count(channel', {"key"}, n + 1)
            = Count(channel, {"key"}, n) + IF m.type \in {"key"} THEN 1 ELSE 0
    BY <1>2
  <2>2. Count(channel, {"key"}, n) \in Nat /\ Count(channel, {"key"}, n) <= MaxKeys
        /\ (m.type = "key" => Count(channel, {"key"}, n) < MaxKeys)
    BY <1>1, CountType DEF QueueInv
  <2> QED
    BY <2>1, <2>2, <1>1, ClientVideoAssumption
<1>6. Covered(channel', video_queue')
  <2>1. d = 1 => \/ Len(video_queue') = Len(video_queue) + 1
                 \/ \E k \in 1 .. Len(channel') : channel'[k].type = "key" /\ channel'[k].age = 0
    <3>1. Len(channel') \in 1 .. Len(channel')
      BY <1>1
    <3> QED
      BY <3>1, <1>1
  <2> QED
    BY <2>1, CoveredGrows DEF QueueInv
<1>7. Ordered(channel', video_queue')
  BY <1>1, OrderedGrows DEF QueueInv
<1>8. video_queue' \in Seq(QueueFrames)
  BY <1>5, <1>6, TakenAges
<1>9. Resets(channel', encoder')
  BY ResetsGrows
<1>10. Unspoilt(channel', video_queue', encoder')
  <2>1. Frames(channel, n) < Old
    BY FewFrames, OldSize DEF QueueInv
  <2> QED
    BY <2>1, <1>1, UnspoiltGrows
<1>11. Cardinality(Keys)' <= MaxKeys
  BY <1>5, NoteSets DEF Keys
<1> QED
  BY <1>3, <1>4, <1>6, <1>7, <1>8, <1>9, <1>10, <1>11 DEF QueueOK, QueueInv

\* A frame is dropped: what is left of the queue grows, and every key frame is
\* spoilt.
LEMMA DropStep ==
  ASSUME ClientTypeOK, QueueInv, Resets(channel, encoder), encoder' = encoder,
         NEW q, Len(q) = Len(video_queue) - 1, video_queue # <<>>,
         \A i \in 1 .. Len(q) : q[i] = video_queue[i + 1],
         Grows(channel, channel', q, video_queue', 1),
         Len(channel') = Len(channel), Len(video_queue') = Len(video_queue),
         channel' \in Seq(Notes), video_queue' \in Seq([format : Formats, age : 0 .. Old - 1]),
         \A j \in 1 .. Len(channel') : channel'[j].type = "key" => channel'[j].spoilt
  PROVE  /\ QueueOK(channel', video_queue') /\ QueueInv'
         /\ Resets(channel', encoder') /\ Unspoilt(channel', video_queue', encoder')
<1> DEFINE n == Len(channel)
<1>1. /\ n \in Nat /\ Len(channel') = n /\ n \in 0 .. n /\ Len(video_queue) \in Nat
      /\ Waits(channel, n) = Len(video_queue) /\ Cardinality(Keys) = Count(channel, {"key"}, n)
      /\ Len(q) \in Nat /\ Len(video_queue) <= VIDEO_QUEUE_SIZE
  BY Shape, TypeParts DEF QueueOK, Grows
<1>2. \A types : Count(channel', types, n) = Count(channel, types, n)
  BY <1>1, GrowCounts
<1>3. Waits(channel', Len(channel')) = Len(video_queue')
  BY <1>1, <1>2 DEF Waits
<1>4. Count(channel', {"key"}, Len(channel')) <= MaxKeys
  BY <1>1, <1>2 DEF QueueInv
<1>5. Covered(channel, q) /\ Ordered(channel, q)
  BY <1>1, DropOldest DEF QueueInv
<1>6. Covered(channel', video_queue')
  <2>1. Len(video_queue') = Len(q) + 1
    BY <1>1
  <2> QED
    BY <2>1, <1>5, CoveredGrows
<1>7. Ordered(channel', video_queue')
  BY <1>1, <1>5, OrderedGrows
<1>8. video_queue' \in Seq(QueueFrames)
  BY <1>1, <1>4, <1>6, TakenAges
<1>9. Resets(channel', encoder')
  <2> SUFFICES ASSUME NEW p \in 1 .. Len(channel'), channel'[p].type = "reset",
                      ~channel'[p].byUser
               PROVE  KeyFirst(channel', encoder', p)
    BY DEF Resets
  <2>1. channel[p].type = "reset" /\ ~channel[p].byUser
    BY <1>1 DEF Grows
  <2>2. KeyFirst(channel, encoder, p)
    BY <2>1, <1>1 DEF Resets
  <2>3. \A k \in Nat, l \in 0 .. n :
            k >= 1 => (NoKeyIn(channel', k, l) <=> NoKeyIn(channel, k, l))
    BY GrowNoKey
  <2>4. \A j \in p + 1 .. Len(channel') :
            channel'[j].type = "token" => ~NoKeyIn(channel', p + 1, j - 1)
    <3> SUFFICES ASSUME NEW j \in p + 1 .. Len(channel'), channel'[j].type = "token"
                 PROVE  ~NoKeyIn(channel', p + 1, j - 1)
      OBVIOUS
    <3>1. channel[j].type = "token" /\ j \in p + 1 .. n /\ j - 1 \in 0 .. n /\ p + 1 \in Nat
          /\ p + 1 >= 1
      BY <1>1 DEF Grows
    <3>2. ~NoKeyIn(channel, p + 1, j - 1)
      BY <3>1, <2>2 DEF KeyFirst
    <3> QED
      BY <3>1, <3>2, <2>3
  <2>5. NoKeyIn(channel', p + 1, Len(channel')) => encoder' = Nothing
    <3>1. p + 1 \in Nat /\ p + 1 >= 1
      BY <1>1
    <3> QED
      BY <3>1, <1>1, <2>2, <2>3 DEF KeyFirst
  <2> QED
    BY <2>4, <2>5 DEF KeyFirst
<1>10. Unspoilt(channel', video_queue', encoder')
  BY DEF Unspoilt
<1>11. Cardinality(Keys)' <= MaxKeys
  BY <1>4, NoteSets DEF Keys
<1> QED
  BY <1>1, <1>3, <1>6, <1>7, <1>8, <1>9, <1>10, <1>11 DEF QueueOK, QueueInv

\* The thread takes the first note.
LEMMA TakeStep ==
  ASSUME ClientTypeOK, QueueInv, Resets(channel, encoder), encoder' = encoder,
         Unspoilt(channel, video_queue, encoder), channel # <<>>, channel' = Tail(channel),
         NEW w, w = IF channel[1].type = "token" THEN 1 ELSE 0,
         video_queue' = IF channel[1].type = "token" THEN Tail(video_queue) ELSE video_queue
  PROVE  /\ Shrinks(channel, channel', video_queue, video_queue', w)
         /\ QueueOK(channel', video_queue') /\ QueueInv'
         /\ Resets(channel', encoder') /\ Unspoilt(channel', video_queue', encoder')
         /\ Frames(channel', Len(channel'))
                = Frames(channel, Len(channel))
                      - IF channel[1].type \in {"token", "key"} THEN 1 ELSE 0
         /\ w = 1 => video_queue # <<>>
<1> DEFINE n == Len(channel)
<1>1. /\ channel \in Seq(Notes) /\ n \in Nat \ {0} /\ Len(video_queue) \in Nat
      /\ Waits(channel, n) = Len(video_queue) /\ Cardinality(Keys) = Count(channel, {"key"}, n)
      /\ Len(video_queue) <= VIDEO_QUEUE_SIZE /\ video_queue \in Seq(QueueFrames)
  <2>1. channel \in Seq(Notes) /\ n \in Nat
    BY Shape
  <2>2. n # 0
    BY <2>1
  <2> QED
    BY <2>1, <2>2, Shape, TypeParts DEF QueueOK
<1>2. /\ channel' \in Seq(Notes) /\ Len(channel') = n - 1
      /\ \A j \in 1 .. Len(channel') : channel'[j] = channel[j + 1]
  BY <1>1, HeadTailProperties
<1>3. w = 1 => video_queue # <<>>
  <2> SUFFICES ASSUME channel[1].type = "token" PROVE video_queue # <<>>
    OBVIOUS
  <2>1. 1 \in 1 .. n
    BY <1>1
  <2>2. Waits(channel, 1) \in 1 .. Waits(channel, n)
    BY <2>1, <1>1, CountOne DEF Waits
  <2> QED
    BY <2>2, <1>1
<1>4. /\ video_queue' \in Seq(QueueFrames) /\ Len(video_queue') = Len(video_queue) - w
      /\ Len(video_queue') \in Nat
      /\ \A i \in 1 .. Len(video_queue') : video_queue'[i] = video_queue[i + w]
  <2>1. CASE channel[1].type = "token"
    BY <2>1, <1>1, <1>3, HeadTailProperties
  <2>2. CASE channel[1].type # "token"
    BY <2>2, <1>1
  <2> QED
    BY <2>1, <2>2
<1>5. Shrinks(channel, channel', video_queue, video_queue', w)
  BY <1>1, <1>2, <1>4 DEF Shrinks
<1>6. Len(channel') \in Nat /\ Len(channel') \in 0 .. Len(channel') /\ Len(channel') + 1 = n
  BY <1>1, <1>2
<1>7. /\ Waits(channel', Len(channel')) = Waits(channel, n) - w
      /\ Frames(channel', Len(channel'))
             = Frames(channel, n) - IF channel[1].type \in {"token", "key"} THEN 1 ELSE 0
      /\ Count(channel', {"key"}, Len(channel')) \in Nat
      /\ Count(channel, {"key"}, n) \in Nat
      /\ Count(channel', {"key"}, Len(channel')) <= Count(channel, {"key"}, n)
  <2>1. \A ch, q, r : Shrinks(channel, ch, q, r, w) =>
            /\ Waits(ch, Len(ch)) = Waits(channel, n) - w
            /\ Frames(ch, Len(ch))
                   = Frames(channel, n) - IF channel[1].type \in {"token", "key"} THEN 1 ELSE 0
            /\ Count(ch, {"key"}, Len(ch)) \in Nat
            /\ Count(channel, {"key"}, n) \in Nat
            /\ Count(ch, {"key"}, Len(ch)) <= Count(channel, {"key"}, n)
    BY ShrinkTotals
  <2> QED
    BY <1>5, <2>1
<1>8. Waits(channel', Len(channel')) = Len(video_queue')
  BY <1>1, <1>4, <1>7
<1>9. Count(channel', {"key"}, Len(channel')) <= MaxKeys
  BY <1>1, <1>7, ClientVideoAssumption DEF QueueInv
<1>10. \A i \in 1 .. Len(video_queue) : video_queue[i].age \in Nat
  BY Shape, OldSize DEF QueueFrames
<1>11. Covered(channel', video_queue') /\ Ordered(channel', video_queue')
  BY <1>5, <1>10, CoveredShrinks, OrderedShrinks DEF QueueInv
<1>12. Resets(channel', encoder') /\ Unspoilt(channel', video_queue', encoder')
  BY <1>1, <1>5, ResetsShrinks, UnspoiltShrinks
<1>13. Cardinality(Keys)' <= MaxKeys
  BY <1>2, <1>9, NoteSets DEF Keys
<1>14. Frames(channel', Len(channel'))
           = Frames(channel, n) - IF channel[1].type \in {"token", "key"} THEN 1 ELSE 0
  BY <1>7
<1>15. Len(video_queue') <= VIDEO_QUEUE_SIZE
  BY <1>1, <1>4, ClientVideoAssumption
<1> QED
  BY <1>2, <1>3, <1>4, <1>5, <1>8, <1>11, <1>12, <1>13, <1>14, <1>15 DEF QueueOK, QueueInv
-----------------------------------------------------------------------------
(* The steps that add to the notes and the queue.                          *)

Poppeds == [format : Formats, age : 0 .. Old, follows : BOOLEAN]

LEMMA AgedPopped ==
  ASSUME RestOK
  PROVE  /\ Aged(popped) \in Seq(Poppeds) /\ Len(Aged(popped)) = Len(popped)
         /\ Aged(popped) = <<>> <=> popped = <<>>
         /\ popped # <<>> => /\ Aged(popped)[1].format = popped[1].format
                             /\ Aged(popped)[1].follows = popped[1].follows
                             /\ Aged(popped)[1].age = Older(popped[1].age)
                             /\ popped[1] \in Poppeds
<1>1. /\ popped \in Seq(Poppeds) /\ Len(popped) \in Nat /\ Len(popped) <= 1
      /\ DOMAIN popped = 1 .. Len(popped)
  BY LenProperties DEF RestOK, Poppeds
<1>2. \A i \in 1 .. Len(popped) : popped[i] \in Poppeds
  BY <1>1, ElementOfSeq
<1>3. Aged(popped) = [i \in 1 .. Len(popped) |-> [popped[i] EXCEPT !.age = Older(@)]]
  BY <1>1 DEF Aged
<1>4. ASSUME NEW i \in 1 .. Len(popped)
      PROVE  /\ Aged(popped)[i] \in Poppeds
             /\ Aged(popped)[i].format = popped[i].format
             /\ Aged(popped)[i].follows = popped[i].follows
             /\ Aged(popped)[i].age = Older(popped[i].age)
  <2>1. Aged(popped)[i] = [popped[i] EXCEPT !.age = Older(@)] /\ popped[i] \in Poppeds
    BY <1>2, <1>3
  <2>2. popped[i].age \in 0 .. Old
    BY <2>1 DEF Poppeds
  <2>3. Older(popped[i].age) \in 0 .. Old
    BY <2>2, OlderNext, OldSize
  <2> QED
    BY <2>1, <2>3 DEF Poppeds
<1>5. Aged(popped) \in [1 .. Len(popped) -> Poppeds]
  BY <1>3, <1>4
<1>6. Aged(popped) \in Seq(Poppeds) /\ Len(Aged(popped)) = Len(popped)
  BY <1>1, <1>5
<1>7. Aged(popped) = <<>> <=> popped = <<>>
  BY <1>1, <1>6, EmptySeq
<1>8. popped # <<>> => 1 \in 1 .. Len(popped)
  BY <1>1, EmptySeq
<1> QED
  BY <1>2, <1>4, <1>6, <1>7, <1>8

LEMMA OlderLast ==
  ASSUME RestOK
  PROVE  Older(last) \in NoKey .. Old /\ (Older(last) # NoKey => last # NoKey)
<1>1. last = NoKey \/ last \in 0 .. Old
  BY OldSize DEF RestOK, NoKey
<1>2. CASE last = NoKey
  BY <1>2 DEF Older, RestOK
<1>3. CASE last \in 0 .. Old
  <2>1. Older(last) = IF last = Old THEN Old ELSE last + 1
    BY <1>3, OlderNext
  <2> QED
    BY <2>1, <1>3, OldSize DEF NoKey
<1> QED
  BY <1>1, <1>2, <1>3

LEMMA RightGrows ==
  ASSUME ClientTypeOK, QueueInv, Right, NEW d,
         Grows(channel, channel', video_queue, video_queue', d),
         Noted(channel, channel', video_queue, video_queue', d, encoder, encoder'),
         Frames(channel', Len(channel')) = Frames(channel, Len(channel)) + d,
         UNCHANGED <<spoilt, discard_queue, decoder>>,
         d = 0 => UNCHANGED <<popped, last>>,
         d = 1 => popped' = Aged(popped) /\ last' = Older(last)
  PROVE  Right'
<1> SUFFICES ASSUME ~spoilt, ~discard_queue PROVE Right'
  BY DEF Right
<1>1. /\ 0 \in 0 .. Len(channel) /\ Waits(channel, Len(channel)) = Len(video_queue)
      /\ Frames(channel, Len(channel)) \in 0 .. Old - 1 /\ d \in {0, 1}
  <2>1. Len(channel) \in Nat
    BY Shape
  <2> QED
    BY <2>1, Shape, FewFrames DEF QueueInv, Grows
<1>2. Frames(channel, Len(channel)) \in 0 .. Old /\ Frames(channel, Len(channel)) # Old
  BY <1>1, OldSize
<1>3. Older(Frames(channel, Len(channel))) = Frames(channel, Len(channel)) + 1
  BY <1>2, OlderNext
<1>4. RestOK
  BY TypeParts
<1>5. ASSUME popped' = <<>>
      PROVE  /\ Follow(channel', video_queue', encoder', 0, decoder')
             /\ \/ last' = Frames(channel', Len(channel'))
                \/ last' = NoKey /\ (decoder' \in Bad \/ KeyFirst(channel', encoder', 0))
  <2>1. popped = <<>>
    BY <1>1, <1>4, <1>5, AgedPopped
  <2>2. /\ Follow(channel, video_queue, encoder, 0, decoder)
        /\ \/ last = Frames(channel, Len(channel))
           \/ last = NoKey /\ (decoder \in Bad \/ KeyFirst(channel, encoder, 0))
    BY <2>1 DEF Right
  <2>3. Follow(channel', video_queue', encoder', 0, decoder')
    BY <1>1, <2>2, FollowGrows
  <2>4. CASE last = Frames(channel, Len(channel))
    <3>1. last' = Frames(channel', Len(channel'))
      BY <2>4, <1>1, <1>3
    <3> QED
      BY <3>1, <2>3
  <2>5. CASE last = NoKey /\ (decoder \in Bad \/ KeyFirst(channel, encoder, 0))
    <3>1. last' = NoKey
      BY <2>5, <1>1 DEF Older
    <3>2. KeyFirst(channel, encoder, 0) => KeyFirst(channel', encoder', 0)
      BY <1>1, KeyFirstGrows
    <3> QED
      BY <3>1, <3>2, <2>3, <2>5
  <2> QED
    BY <2>2, <2>4, <2>5
<1>6. ASSUME popped' # <<>>
      PROVE  /\ Follow(channel', video_queue', encoder', 0, popped'[1].format)
             /\ popped'[1].age = Frames(channel', Len(channel'))
             /\ popped'[1].follows \/ popped'[1].format \in Bad
  <2>1. /\ popped # <<>> /\ popped'[1].format = popped[1].format
        /\ popped'[1].follows = popped[1].follows
        /\ popped'[1].age = IF d = 1 THEN Older(popped[1].age) ELSE popped[1].age
    BY <1>1, <1>4, <1>6, AgedPopped
  <2>2. /\ Follow(channel, video_queue, encoder, 0, popped[1].format)
        /\ popped[1].age = Frames(channel, Len(channel))
        /\ popped[1].follows \/ popped[1].format \in Bad
    BY <2>1 DEF Right
  <2>3. Follow(channel', video_queue', encoder', 0, popped'[1].format)
    BY <1>1, <2>1, <2>2, FollowGrows
  <2>4. popped'[1].age = Frames(channel', Len(channel'))
    BY <2>1, <2>2, <1>1, <1>3
  <2> QED
    BY <2>1, <2>2, <2>3, <2>4
<1> QED
  BY <1>5, <1>6 DEF Right

LEMMA PushStep ==
  ASSUME ClientTypeOK, ClientInv, encoder # Nothing, Push, DecoderAges, UNCHANGED peerVars
  PROVE  ClientTypeOK' /\ ClientInv'
<1> USE DEF ClientInv
<1> DEFINE q == video_queue
           r == video_queue'
<1>1. /\ channel \in Seq(Notes) /\ Len(channel) \in Nat /\ q \in Seq(QueueFrames)
      /\ Len(q) \in Nat /\ RestOK /\ encoder \in Formats /\ encoder' = encoder
  BY Shape, TypeParts DEF RestOK, peerVars
<1>2. /\ Token \in Notes /\ Token.type = "token"
      /\ [format |-> encoder, age |-> 0] \in [format : Formats, age : 0 .. Old - 1]
  BY <1>1, OldSize DEF Notes, Token
<1>3. /\ channel' \in Seq(Notes) /\ Len(channel') = Len(channel) + 1
      /\ channel'[Len(channel')].type = "token"
      /\ \A j \in 1 .. Len(channel) : channel'[j] = AgedChannel[j]
  <2>1. AgedChannel \in Seq(Notes) /\ Len(AgedChannel) = Len(channel)
    BY AgedChannelFacts
  <2>2. channel' = Append(AgedChannel, Token)
    BY DEF Push
  <2> QED
    BY <2>1, <2>2, <1>1, <1>2
<1>4. /\ r \in Seq([format : Formats, age : 0 .. Old - 1]) /\ Len(r) = Len(q) + 1
      /\ r[Len(r)].format = encoder /\ r[Len(r)].age = 0
      /\ \A i \in 1 .. Len(q) : r[i] = Aged(q)[i]
  <2>1. Aged(q) \in Seq([format : Formats, age : 0 .. Old - 1]) /\ Len(Aged(q)) = Len(q)
    BY <1>1, AgedFacts
  <2>2. r = Append(Aged(q), [format |-> encoder, age |-> 0])
    BY DEF Push
  <2>3. r \in Seq([format : Formats, age : 0 .. Old - 1])
    BY <2>1, <2>2, <1>2
  <2>4. Len(r) = Len(q) + 1 /\ r[Len(r)] = [format |-> encoder, age |-> 0]
        /\ \A i \in 1 .. Len(q) : r[i] = Aged(q)[i]
    BY <2>1, <2>2, <1>1
  <2> HIDE DEF q, r
  <2>5. r[Len(r)].format = encoder /\ r[Len(r)].age = 0
    BY <2>4
  <2> QED
    BY <2>3, <2>4, <2>5, PTL
<1>5. Grows(channel, channel', q, r, 1)
  <2>1. \A i \in 1 .. Len(q) : /\ q[i].age \in 0 .. Old - 2
                               /\ r[i].format = q[i].format /\ r[i].age = q[i].age + 1
    <3>1. q \in Seq(QueueFrames)
      BY <1>1
    <3>2. \A i \in 1 .. Len(q) : /\ q[i].age \in 0 .. Old - 2
                                 /\ Aged(q)[i].format = q[i].format
                                 /\ Aged(q)[i].age = q[i].age + 1
      BY <3>1, AgedFacts
    <3> HIDE DEF q, r
    <3>3. \A i \in 1 .. Len(q) : r[i] = Aged(q)[i]
      BY <1>4
    <3> QED
      BY <3>2, <3>3
  <2>2. \A j \in 1 .. Len(channel) :
            /\ channel'[j].type = channel[j].type
            /\ channel[j].type = "reset" => channel'[j].byUser = channel[j].byUser
            /\ channel[j].type = "key" =>
                  /\ channel[j].age \in 0 .. Old /\ channel'[j].format = channel[j].format
                  /\ channel'[j].age = Older(channel[j].age)
                  /\ channel'[j].spoilt = channel[j].spoilt
    BY <1>3, AgedChannelFacts
  <2> HIDE DEF q, r
  <2> QED
    BY <2>1, <2>2, <1>1, <1>3, <1>4 DEF Grows
<1>6. Noted(channel, channel', q, r, 1, encoder, encoder')
  BY <1>1, <1>3, <1>4 DEF Noted
<1>7. Len(r) <= VIDEO_QUEUE_SIZE
  BY <1>1, <1>4, ClientVideoAssumption DEF Push
<1>8. /\ QueueOK(channel', video_queue') /\ QueueInv'
      /\ Resets(channel', encoder') /\ Unspoilt(channel', video_queue', encoder')
      /\ Frames(channel', Len(channel')) = Frames(channel, Len(channel)) + 1
  BY <1>3, <1>4, <1>5, <1>6, <1>7, AddStep
<1>9. Right'
  BY <1>5, <1>6, <1>8, RightGrows DEF DecoderAges, Push
<1>10. RestOK'
  <2>1. /\ popped' \in Seq([format : Formats, age : 0 .. Old, follows : BOOLEAN])
        /\ Len(popped') <= 1
    BY <1>1, AgedPopped DEF DecoderAges, RestOK, Poppeds
  <2>2. last' \in NoKey .. Old /\ (last' # NoKey => last # NoKey)
    BY <1>1, OlderLast DEF DecoderAges
  <2> QED
    BY <1>1, <2>1, <2>2 DEF RestOK, Push, DecoderAges, peerVars
<1> QED
  BY <1>8, <1>9, <1>10, TypeWhole

LEMMA KeyStep ==
  ASSUME ClientTypeOK, ClientInv, NEW f \in Formats, KeyFrame(f)
  PROVE  ClientTypeOK' /\ ClientInv'
<1> USE DEF ClientInv
<1> DEFINE q == video_queue
           r == video_queue'
<1>1. /\ channel \in Seq(Notes) /\ Len(channel) \in Nat /\ q \in Seq(QueueFrames)
      /\ Len(q) \in Nat /\ RestOK /\ Len(q) <= VIDEO_QUEUE_SIZE
  BY Shape, TypeParts DEF QueueOK
<1>2. /\ Key(f) \in Notes /\ Key(f).type = "key" /\ Key(f).age = 0 /\ Key(f).format = f
  <2>1. Key(f) \in KeyNotes
    BY OldSize DEF KeyNotes, Key
  <2> QED
    BY <2>1 DEF Notes, Key
<1>3. /\ channel' \in Seq(Notes) /\ Len(channel') = Len(channel) + 1
      /\ channel'[Len(channel')] = Key(f)
      /\ \A j \in 1 .. Len(channel) : channel'[j] = AgedChannel[j]
  <2>1. AgedChannel \in Seq(Notes) /\ Len(AgedChannel) = Len(channel)
    BY AgedChannelFacts
  <2>2. channel' = Append(AgedChannel, Key(f))
    BY DEF KeyFrame
  <2> QED
    BY <2>1, <2>2, <1>1, <1>2
<1>4. /\ r \in Seq([format : Formats, age : 0 .. Old - 1]) /\ Len(r) = Len(q) /\ r = Aged(q)
  BY <1>1, AgedFacts DEF KeyFrame
<1>5. Grows(channel, channel', q, r, 1)
  <2>1. \A i \in 1 .. Len(q) : /\ q[i].age \in 0 .. Old - 2
                               /\ r[i].format = q[i].format /\ r[i].age = q[i].age + 1
    <3>1. q \in Seq(QueueFrames)
      BY <1>1
    <3>2. \A i \in 1 .. Len(q) : /\ q[i].age \in 0 .. Old - 2
                                 /\ Aged(q)[i].format = q[i].format
                                 /\ Aged(q)[i].age = q[i].age + 1
      BY <3>1, AgedFacts
    <3> HIDE DEF q, r
    <3>3. \A i \in 1 .. Len(q) : r[i] = Aged(q)[i]
      BY <1>4
    <3> QED
      BY <3>2, <3>3
  <2>2. \A j \in 1 .. Len(channel) :
            /\ channel'[j].type = channel[j].type
            /\ channel[j].type = "reset" => channel'[j].byUser = channel[j].byUser
            /\ channel[j].type = "key" =>
                  /\ channel[j].age \in 0 .. Old /\ channel'[j].format = channel[j].format
                  /\ channel'[j].age = Older(channel[j].age)
                  /\ channel'[j].spoilt = channel[j].spoilt
    BY <1>3, AgedChannelFacts
  <2> HIDE DEF q, r
  <2> QED
    BY <2>1, <2>2, <1>1, <1>3, <1>4 DEF Grows
<1>6. Noted(channel, channel', q, r, 1, encoder, encoder')
  BY <1>1, <1>2, <1>3, <1>4 DEF Noted, KeyFrame
<1>8. /\ QueueOK(channel', video_queue') /\ QueueInv'
      /\ Resets(channel', encoder') /\ Unspoilt(channel', video_queue', encoder')
      /\ Frames(channel', Len(channel')) = Frames(channel, Len(channel)) + 1
  BY <1>1, <1>2, <1>3, <1>4, <1>5, <1>6, AddStep DEF KeyFrame
<1>9. Right'
  BY <1>5, <1>6, <1>8, RightGrows DEF DecoderAges, KeyFrame
<1>10. RestOK'
  <2>1. /\ popped' \in Seq([format : Formats, age : 0 .. Old, follows : BOOLEAN])
        /\ Len(popped') <= 1
    BY <1>1, AgedPopped DEF DecoderAges, RestOK, Poppeds, KeyFrame
  <2>2. last' \in NoKey .. Old /\ (last' # NoKey => last # NoKey)
    BY <1>1, OlderLast DEF KeyFrame, DecoderAges
  <2> QED
    BY <1>1, <2>1, <2>2 DEF RestOK, KeyFrame, DecoderAges
<1> QED
  BY <1>8, <1>9, <1>10, TypeWhole

LEMMA DroppedStep ==
  ASSUME ClientTypeOK, ClientInv, encoder # Nothing, Drop(<<Refresh>>), DecoderAges,
         UNCHANGED peerVars
  PROVE  ClientTypeOK' /\ ClientInv'
<1> USE DEF ClientInv
<1> DEFINE q == Tail(video_queue)
           r == video_queue'
<1>1. /\ channel \in Seq(Notes) /\ Len(channel) \in Nat /\ video_queue \in Seq(QueueFrames)
      /\ Len(video_queue) \in Nat \ {0} /\ Len(video_queue) = VIDEO_QUEUE_SIZE /\ RestOK
      /\ encoder \in Formats /\ encoder' = encoder /\ video_queue # <<>>
  <2>1. /\ Len(video_queue) = VIDEO_QUEUE_SIZE /\ RestOK
        /\ encoder \in Formats /\ encoder' = encoder
    BY TypeParts DEF RestOK, peerVars, Drop
  <2>2. video_queue # <<>>
    BY <2>1, ClientVideoAssumption, EmptySeq
  <2> QED
    BY <2>1, <2>2, Shape, ClientVideoAssumption
<1>2. [format |-> encoder, age |-> 0] \in [format : Formats, age : 0 .. Old - 1]
  BY <1>1, OldSize
<1>3. /\ channel' \in Seq(Notes) /\ Len(channel') = Len(channel)
      /\ \A j \in 1 .. Len(channel) :
            /\ channel'[j].type = channel[j].type
            /\ channel[j].type = "reset" => channel'[j].byUser = channel[j].byUser
            /\ channel[j].type = "key" =>
                  /\ channel[j].age \in 0 .. Old /\ channel'[j].format = channel[j].format
                  /\ channel'[j].age = Older(channel[j].age) /\ channel'[j].spoilt
  <2>1. AgedChannel \in Seq(Notes) /\ Len(AgedChannel) = Len(channel)
    BY AgedChannelFacts
  <2>2. channel' = Spoilt(AgedChannel)
    BY DEF Drop
  <2>3. channel' \in Seq(Notes) /\ Len(channel') = Len(channel)
    BY <2>1, <2>2, SpoiltFacts
  <2>4. ASSUME NEW j \in 1 .. Len(channel)
        PROVE  /\ channel'[j].type = channel[j].type
               /\ channel[j].type = "reset" => channel'[j].byUser = channel[j].byUser
               /\ channel[j].type = "key" =>
                     /\ channel[j].age \in 0 .. Old /\ channel'[j].format = channel[j].format
                     /\ channel'[j].age = Older(channel[j].age) /\ channel'[j].spoilt
    <3>1. /\ channel'[j].type = AgedChannel[j].type
          /\ AgedChannel[j].type = "reset" => channel'[j].byUser = AgedChannel[j].byUser
          /\ AgedChannel[j].type = "key" => /\ channel'[j].format = AgedChannel[j].format
                                            /\ channel'[j].age = AgedChannel[j].age
                                            /\ channel'[j].spoilt
      BY <2>1, <2>2, SpoiltFacts
    <3> QED
      BY <3>1, AgedChannelFacts
  <2> QED
    BY <2>3, <2>4
<1>4. /\ q \in Seq(QueueFrames) /\ Len(q) \in Nat /\ Len(q) = Len(video_queue) - 1
      /\ \A i \in 1 .. Len(q) : q[i] = video_queue[i + 1]
  BY <1>1, HeadTailProperties
<1>5. /\ r \in Seq([format : Formats, age : 0 .. Old - 1]) /\ Len(r) = Len(q) + 1
      /\ r[Len(r)].age = 0
      /\ \A i \in 1 .. Len(q) : r[i] = Aged(video_queue)[i + 1]
  <2> DEFINE R == [format : Formats, age : 0 .. Old - 1]
             new == [format |-> encoder, age |-> 0]
             s == Tail(Aged(video_queue))
  <2>1. Aged(video_queue) \in Seq(R) /\ Len(Aged(video_queue)) = Len(video_queue)
    BY <1>1, AgedFacts
  <2>2. r = Append(s, new)
    BY DEF Drop
  <2>3. new \in R /\ new.age = 0
    BY <1>2
  <2>4. Aged(video_queue) # <<>>
    BY <2>1, <1>1, EmptySeq
  <2> HIDE DEF R, new
  <2>5. /\ s \in Seq(R) /\ Len(s) = Len(q)
        /\ \A i \in 1 .. Len(q) : s[i] = Aged(video_queue)[i + 1]
    BY <2>1, <2>4, <1>1, <1>4, HeadTailProperties
  <2> HIDE DEF s, q, r
  <2>6. r \in Seq(R) /\ Len(r) = Len(q) + 1 /\ r[Len(r)] = new
        /\ \A i \in 1 .. Len(q) : r[i] = Aged(video_queue)[i + 1]
    BY <2>2, <2>3, <2>5, <1>4
  <2> QED
    BY <2>3, <2>6 DEF R
<1>6. Grows(channel, channel', q, r, 1)
  <2>1. \A i \in 1 .. Len(q) : /\ q[i].age \in 0 .. Old - 2
                               /\ r[i].format = q[i].format /\ r[i].age = q[i].age + 1
    <3> SUFFICES ASSUME NEW i \in 1 .. Len(q)
                 PROVE  /\ q[i].age \in 0 .. Old - 2
                        /\ r[i].format = q[i].format /\ r[i].age = q[i].age + 1
      OBVIOUS
    <3>1. i + 1 \in 1 .. Len(video_queue) /\ q[i] = video_queue[i + 1]
          /\ r[i] = Aged(video_queue)[i + 1]
      BY <1>1, <1>4, <1>5
    <3> HIDE DEF q, r
    <3> QED
      BY <3>1, <1>1, AgedFacts
  <2> HIDE DEF q, r
  <2> QED
    BY <2>1, <1>1, <1>3, <1>4, <1>5 DEF Grows
<1>7. /\ QueueOK(channel', video_queue') /\ QueueInv'
      /\ Resets(channel', encoder') /\ Unspoilt(channel', video_queue', encoder')
  <2>1. \A j \in 1 .. Len(channel') : channel'[j].type = "key" => channel'[j].spoilt
    BY <1>3
  <2>2. Len(video_queue') = Len(video_queue)
    BY <1>1, <1>4, <1>5
  <2>3. /\ video_queue' \in Seq([format : Formats, age : 0 .. Old - 1])
        /\ Grows(channel, channel', q, video_queue', 1)
    BY <1>5, <1>6
  <2> HIDE DEF q
  <2> QED
    BY <2>1, <2>2, <2>3, <1>1, <1>3, <1>4, DropStep
<1>8. Right'
  BY DEF Right, Drop
<1>9. RestOK'
  <2>1. /\ popped' \in Seq([format : Formats, age : 0 .. Old, follows : BOOLEAN])
        /\ Len(popped') <= 1
    BY <1>1, AgedPopped DEF DecoderAges, RestOK, Poppeds
  <2>2. last' \in NoKey .. Old /\ (last' # NoKey => last # NoKey)
    BY <1>1, OlderLast DEF DecoderAges
  <2>3. /\ sender' \in Seq({Refresh, ResetDecoder} \cup {Marks(F) : F \in SUBSET Formats})
        /\ Len(sender') <= MaxSender + 2
    <3> DEFINE Q == {Refresh, ResetDecoder} \cup {Marks(F) : F \in SUBSET Formats}
    <3>1. sender \in Seq(Q) /\ Refresh \in Q /\ sender' = sender \o <<Refresh>>
          /\ Len(sender) < MaxSender /\ Len(sender) \in Nat
      BY <1>1 DEF RestOK, Drop
    <3> HIDE DEF Q
    <3>2. sender' \in Seq(Q) /\ Len(sender') = Len(sender) + 1
      BY <3>1
    <3> QED
      BY <3>1, <3>2, ClientVideoAssumption DEF Q
  <2>4. overflows' \in 0 .. MaxOverflows
    BY <1>1, ClientVideoAssumption DEF RestOK, Drop
  <2> QED
    BY <1>1, <2>1, <2>2, <2>3, <2>4 DEF RestOK, Drop, DecoderAges, peerVars
<1> QED
  BY <1>7, <1>8, <1>9, TypeWhole

\* The notes about the display's data and about the user.
LEMMA ResetStep ==
  ASSUME ClientTypeOK, ClientInv, NEW u \in BOOLEAN, channel' = Append(channel, Reset(u)),
         encoder' = (IF u THEN encoder ELSE Nothing),
         UNCHANGED <<video_queue, spoilt, discard_queue, decoder, popped, last>>
  PROVE  QueueOK(channel', video_queue') /\ ClientInv'
<1> USE DEF ClientInv
<1> DEFINE q == video_queue
           r == video_queue'
<1>1. /\ channel \in Seq(Notes) /\ Len(channel) \in Nat /\ q \in Seq(QueueFrames)
      /\ Len(q) \in Nat /\ Len(q) <= VIDEO_QUEUE_SIZE /\ r = q
      /\ \A j \in 1 .. Len(channel) : channel[j] \in Notes
      /\ \A i \in 1 .. Len(q) : q[i] \in QueueFrames
  BY Shape, TypeParts DEF QueueOK
<1>2. Reset(u) \in Notes /\ Reset(u).type = "reset" /\ Reset(u).byUser = u
  BY DEF Notes, Reset
<1>3. /\ channel' \in Seq(Notes) /\ Len(channel') = Len(channel) + 1
      /\ channel'[Len(channel')] = Reset(u)
      /\ \A j \in 1 .. Len(channel) : channel'[j] = channel[j]
  BY <1>1, <1>2
<1>4. r \in Seq([format : Formats, age : 0 .. Old - 1])
  <2>1. QueueFrames \subseteq [format : Formats, age : 0 .. Old - 1]
    BY OldSize DEF QueueFrames
  <2> HIDE DEF q, r
  <2> QED
    BY <1>1, <2>1, SeqMonotonic
<1>5. Grows(channel, channel', q, r, 0)
  <2>1. \A i \in 1 .. Len(q) : /\ q[i].age \in 0 .. Old - 2
                               /\ r[i].format = q[i].format /\ r[i].age = q[i].age + 0
    BY <1>1 DEF QueueFrames
  <2>2. \A j \in 1 .. Len(channel) : channel[j].type = "key" => channel[j].age \in 0 .. Old
    BY <1>1, NoteTypes DEF KeyNotes
  <2> HIDE DEF q, r
  <2> QED
    BY <2>1, <2>2, <1>1, <1>3 DEF Grows
<1>6. Noted(channel, channel', q, r, 0, encoder, encoder')
  BY <1>1, <1>2, <1>3 DEF Noted
<1>7. /\ QueueOK(channel', video_queue') /\ QueueInv'
      /\ Resets(channel', encoder') /\ Unspoilt(channel', video_queue', encoder')
      /\ Frames(channel', Len(channel')) = Frames(channel, Len(channel)) + 0
  BY <1>1, <1>2, <1>3, <1>4, <1>5, <1>6, AddStep
<1>8. Right'
  BY <1>5, <1>6, <1>7, RightGrows
<1> QED
  BY <1>7, <1>8
-----------------------------------------------------------------------------
(* The steps of the thread.                                                *)

Requests == {Refresh, ResetDecoder} \cup {Marks(F) : F \in SUBSET Formats}

LEMMA DecodeTypes ==
  ASSUME RestOK, NEW format \in Formats, NEW age \in 0 .. Old, NEW starts \in BOOLEAN,
         NEW result \in Results, Decode(format, age, starts, result)
  PROVE  /\ sender' \in Seq(Requests) /\ Len(sender') <= MaxSender + 2
         /\ decoder' \in Formats /\ first_frame' \in BOOLEAN
         /\ fail_counter' \in 0 .. MAX_DECODE_FAIL_COUNTER
         /\ mark_unsupported' \subseteq Formats
         /\ last' \in NoKey .. Old
<1> DEFINE new == decoder # format
           had == IF new THEN NoKey ELSE last
           fails == IF new THEN 0 ELSE fail_counter
           failed == IF result = "shown" THEN 0
                     ELSE IF new \/ first_frame \/ fails = MAX_DECODE_FAIL_COUNTER
                     THEN MAX_DECODE_FAIL_COUNTER ELSE fails + 1
           marks == failed = MAX_DECODE_FAIL_COUNTER /\ format \notin mark_unsupported
           marked == mark_unsupported \cup {format}
           asks == (IF result = "error" THEN <<Refresh>> ELSE <<>>)
                   \o (IF marks THEN <<Marks(marked)>> ELSE <<>>)
<1>1. /\ \/ last' = age \/ last' = had \/ last' = NoKey
      /\ asks # <<>> => Len(sender) < MaxSender
      /\ sender' = sender \o asks
      /\ decoder' = format
      /\ first_frame' = FALSE
      /\ fail_counter' = failed
      /\ mark_unsupported' = IF marks THEN marked ELSE mark_unsupported
  BY DEF Decode
<1>2. fails \in 0 .. MAX_DECODE_FAIL_COUNTER
  BY DEF RestOK, MAX_DECODE_FAIL_COUNTER
<1>3. failed \in 0 .. MAX_DECODE_FAIL_COUNTER
  BY <1>2 DEF MAX_DECODE_FAIL_COUNTER
<1>4. marked \subseteq Formats /\ mark_unsupported \subseteq Formats
  BY DEF RestOK
<1>5. had \in NoKey .. Old /\ NoKey \in NoKey .. Old /\ age \in NoKey .. Old
  BY OldSize DEF RestOK, NoKey
<1>6. asks \in Seq(Requests) /\ Len(asks) <= 2
  <2>1. Refresh \in Requests /\ Marks(marked) \in Requests
    BY <1>4 DEF Requests
  <2> HIDE DEF marks, marked
  <2> QED
    BY <2>1
<1>7. sender \in Seq(Requests) /\ Len(sender) \in Nat /\ Len(sender) <= MaxSender + 2
  BY DEF RestOK, Requests
<1> HIDE DEF asks, marks, marked, failed, fails, had, new
<1>8. /\ sender' \in Seq(Requests) /\ Len(sender') = Len(sender) + Len(asks)
      /\ Len(asks) \in Nat /\ (asks = <<>> => Len(asks) = 0)
  BY <1>1, <1>6, <1>7
<1>9. Len(sender') <= MaxSender + 2
  BY <1>1, <1>6, <1>7, <1>8, ClientVideoAssumption
<1> QED
  BY <1>1, <1>3, <1>4, <1>5, <1>8, <1>9

\* What is decoded without fault is the newest frame but those still to come.
LEMMA DecodeRight ==
  ASSUME NEW format, NEW age, NEW starts, NEW result, Decode(format, age, starts, result),
         starts \/ format \in Bad
  PROVE  /\ decoder' = format
         /\ last' = age \/ (last' = NoKey /\ decoder' \in Bad)
         /\ mark_unsupported' # mark_unsupported => format \in Bad
<1>1. decoder' = format
  BY DEF Decode
<1>2. CASE format \in Bad
  BY <1>1, <1>2, Zenon DEF Decode
<1>3. CASE format \notin Bad
  <2>1. starts /\ format \notin Bad
    BY <1>3
  <2>2. result = "shown" /\ last' = age
    BY <2>1, Zenon DEF Decode
  <2>3. mark_unsupported' = mark_unsupported
    BY <2>2 DEF Decode, MAX_DECODE_FAIL_COUNTER
  <2> QED
    BY <1>1, <2>2, <2>3
<1> QED
  BY <1>2, <1>3

LEMMA FirstCounts ==
  ASSUME NEW ch, Len(ch) \in Nat
  PROVE  /\ ch[1].type = "token" => Waits(ch, 1) = 1 /\ Frames(ch, 1) = 1
         /\ ch[1].type = "key" => Frames(ch, 1) = 1
<1>1. \A types : Count(ch, types, 0 + 1)
                     = Count(ch, types, 0) + IF ch[0 + 1].type \in types THEN 1 ELSE 0
  BY CountStep
<1>2. \A types : Count(ch, types, 0) = 0
  BY CountNone
<1>3. \A types : ch[1].type \in types => Count(ch, types, 1) = 1
  BY <1>1, <1>2
<1> QED
  BY <1>3 DEF Waits, Frames

LEMMA PopStep ==
  ASSUME ClientTypeOK, ClientInv, Pop
  PROVE  ClientTypeOK' /\ ClientInv'
<1> USE DEF ClientInv
<1> DEFINE vf == Head(video_queue)
           n == Len(channel)
<1>1. /\ channel \in Seq(Notes) /\ n \in Nat /\ channel # <<>> /\ 1 \in 1 .. n
      /\ channel[1] = Token /\ channel[1].type = "token"
      /\ video_queue \in Seq(QueueFrames) /\ RestOK
  <2>1. channel \in Seq(Notes) /\ n \in Nat /\ video_queue \in Seq(QueueFrames) /\ RestOK
    BY Shape, TypeParts
  <2>2. channel # <<>> /\ Head(channel) = Token
    BY DEF Pop
  <2>3. channel[1] = Token /\ 1 \in 1 .. n
    BY <2>1, <2>2
  <2> QED
    BY <2>1, <2>2, <2>3 DEF Token
<1>2. /\ Shrinks(channel, channel', video_queue, video_queue', 1)
      /\ QueueOK(channel', video_queue') /\ QueueInv'
      /\ Resets(channel', encoder') /\ Unspoilt(channel', video_queue', encoder')
      /\ Frames(channel', Len(channel')) = Frames(channel, n) - 1
      /\ video_queue # <<>>
  BY <1>1, TakeStep DEF Pop, peerVars
<1>3. vf = video_queue[1] /\ vf \in QueueFrames
  BY <1>1, <1>2, HeadTailProperties
<1>4. /\ popped' = <<[format |-> vf.format, age |-> vf.age,
                     follows |-> vf.format = decoder /\ last = vf.age + 1]>>
      /\ popped = <<>> /\ popped' # <<>>
      /\ popped'[1].format = vf.format /\ popped'[1].age = vf.age
      /\ popped'[1].follows = (vf.format = decoder /\ last = vf.age + 1)
  BY DEF Pop
<1>5. Right'
  <2> SUFFICES ASSUME ~spoilt, ~discard_queue
               PROVE  /\ Follow(channel', video_queue', encoder', 0, popped'[1].format)
                      /\ popped'[1].age = Frames(channel', Len(channel'))
                      /\ popped'[1].follows \/ popped'[1].format \in Bad
    BY <1>4 DEF Right, Pop
  <2>1. /\ Follow(channel, video_queue, encoder, 0, decoder)
        /\ \/ last = Frames(channel, n)
           \/ last = NoKey /\ (decoder \in Bad \/ KeyFirst(channel, encoder, 0))
    BY <1>4 DEF Right
  <2>2. NoKeyIn(channel, 0 + 1, 1 - 1)
    BY DEF NoKeyIn
  <2>3. 1 \in 0 + 1 .. n
    BY <1>1
  <2>4. /\ video_queue[Waits(channel, 1)].format = decoder
        /\ video_queue[Waits(channel, 1)].age = Frames(channel, n) - Frames(channel, 1)
    BY <2>1, <2>2, <2>3, <1>1 DEF Follow
  <2>5. vf.format = decoder /\ vf.age = Frames(channel, n) - 1 /\ Frames(channel, n) \in Nat
    <3>1. Waits(channel, 1) = 1 /\ Frames(channel, 1) = 1
      BY <1>1, FirstCounts
    <3>2. Frames(channel, n) \in Nat
      BY <1>1, CountType DEF Frames
    <3> QED
      BY <3>1, <3>2, <2>4, <1>3
  <2>6. ~KeyFirst(channel, encoder, 0)
    BY <2>2, <2>3, <1>1 DEF KeyFirst
  <2>7. Follow(channel, video_queue, encoder, 0 + 1, decoder)
    BY <2>1, <1>1, FollowOn
  <2>8. Follow(channel', video_queue', encoder', 0, decoder)
    <3>1. Waits(channel, Len(channel)) = Len(video_queue) /\ encoder' = encoder
      BY Shape DEF Pop, peerVars
    <3> QED
      BY <3>1, <2>7, <1>2, FollowShrinks
  <2>9. Follow(channel', video_queue', encoder', 0, popped'[1].format)
    BY <2>5, <2>8, <1>4
  <2>10. popped'[1].age = Frames(channel', Len(channel'))
    BY <2>5, <1>2, <1>4
  <2>11. last = Frames(channel, n) => last = vf.age + 1
    BY <2>5
  <2>12. popped'[1].follows \/ popped'[1].format \in Bad
    BY <2>1, <2>5, <2>6, <2>11, <1>4
  <2> QED
    BY <2>9, <2>10, <2>12
<1>6. RestOK'
  <2>1. /\ popped' \in Seq([format : Formats, age : 0 .. Old, follows : BOOLEAN])
        /\ Len(popped') <= 1
    <3>1. /\ vf.format \in Formats /\ vf.age \in 0 .. Old
          /\ (vf.format = decoder /\ last = vf.age + 1) \in BOOLEAN
      BY <1>3, OldSize DEF QueueFrames
    <3> HIDE DEF vf
    <3> QED
      BY <3>1, <1>4
  <2> QED
    BY <2>1, <1>1 DEF RestOK, Pop, peerVars, decoderVars, boundVars
<1> QED
  BY <1>2, <1>5, <1>6, TypeWhole

LEMMA TakeKeyStep ==
  ASSUME ClientTypeOK, ClientInv, NEW result \in Results, TakeKey(result)
  PROVE  /\ ClientTypeOK' /\ ClientInv'
         /\ mark_unsupported' # mark_unsupported => decoder' \in Bad
<1> USE DEF ClientInv
<1> DEFINE m == Head(channel)
           n == Len(channel)
<1>1. /\ channel \in Seq(Notes) /\ n \in Nat /\ channel # <<>> /\ 1 \in 1 .. n
      /\ channel[1] = m /\ m \in KeyNotes /\ m.type = "key" /\ RestOK
  <2>1. channel \in Seq(Notes) /\ n \in Nat /\ RestOK
    BY Shape, TypeParts
  <2>2. channel # <<>> /\ IsKey(m)
    BY DEF TakeKey
  <2>3. channel[1] = m /\ 1 \in 1 .. n /\ m \in Notes
    BY <2>1, <2>2
  <2> QED
    BY <2>1, <2>2, <2>3, NoteTypes
<1>2. /\ Shrinks(channel, channel', video_queue, video_queue', 0)
      /\ QueueOK(channel', video_queue') /\ QueueInv'
      /\ Resets(channel', encoder') /\ Unspoilt(channel', video_queue', encoder')
      /\ Frames(channel', Len(channel')) = Frames(channel, n) - 1
  BY <1>1, TakeStep DEF TakeKey, peerVars
<1>3. /\ Decode(m.format, m.age, TRUE, result) /\ spoilt' = m.spoilt /\ popped = <<>>
      /\ popped' = <<>> /\ encoder' = encoder
  BY DEF TakeKey, peerVars
<1>4. /\ m.format \in Formats /\ m.age \in 0 .. Old /\ m.spoilt \in BOOLEAN
  BY <1>1 DEF KeyNotes
<1>5. /\ decoder' = m.format
      /\ last' = m.age \/ (last' = NoKey /\ decoder' \in Bad)
      /\ mark_unsupported' # mark_unsupported => decoder' \in Bad
  BY <1>3, DecodeRight
<1>6. Right'
  <2> SUFFICES ASSUME ~m.spoilt
               PROVE  /\ Follow(channel', video_queue', encoder', 0, decoder')
                      /\ \/ last' = Frames(channel', Len(channel'))
                         \/ last' = NoKey /\ decoder' \in Bad
    BY <1>3 DEF Right
  <2>1. /\ m.age = Frames(channel, n) - Frames(channel, 1)
        /\ Follow(channel, video_queue, encoder, 1, m.format)
    BY <1>1 DEF Unspoilt
  <2>2. Frames(channel, 1) = 1
    BY <1>1, FirstCounts
  <2>3. Follow(channel', video_queue', encoder', 0, m.format)
    <3>1. Waits(channel, Len(channel)) = Len(video_queue)
      BY Shape
    <3>2. Follow(channel, video_queue, encoder, 0 + 1, m.format)
      BY <2>1
    <3> QED
      BY <3>1, <3>2, <1>2, <1>3, FollowShrinks
  <2> QED
    BY <2>1, <2>2, <2>3, <1>2, <1>5
<1>7. RestOK'
  <2>1. /\ sender' \in Seq(Requests) /\ Len(sender') <= MaxSender + 2
        /\ decoder' \in Formats /\ first_frame' \in BOOLEAN
        /\ fail_counter' \in 0 .. MAX_DECODE_FAIL_COUNTER
        /\ mark_unsupported' \subseteq Formats
        /\ last' \in NoKey .. Old
    BY <1>1, <1>3, <1>4, DecodeTypes
  <2>2. decoder' # Nothing
    BY <2>1, ClientVideoAssumption DEF Nothing
  <2> QED
    BY <2>1, <2>2, <1>1, <1>3, <1>4 DEF RestOK, Requests, TakeKey, peerVars, boundVars
<1> QED
  BY <1>2, <1>5, <1>6, <1>7, TypeWhole

LEMMA TakeResetStep ==
  ASSUME ClientTypeOK, ClientInv, TakeReset
  PROVE  ClientTypeOK' /\ ClientInv'
<1> USE DEF ClientInv
<1> DEFINE m == Head(channel)
           n == Len(channel)
<1>1. /\ channel \in Seq(Notes) /\ n \in Nat /\ channel # <<>> /\ 1 \in 1 .. n
      /\ channel[1] = m /\ m.type = "reset" /\ m.byUser \in BOOLEAN /\ RestOK
  <2>1. channel \in Seq(Notes) /\ n \in Nat /\ RestOK
    BY Shape, TypeParts
  <2>2. channel # <<>> /\ m.type = "reset"
    BY DEF TakeReset
  <2>3. channel[1] = m /\ 1 \in 1 .. n /\ m \in Notes
    BY <2>1, <2>2
  <2> QED
    BY <2>1, <2>2, <2>3, NoteTypes
<1>2. /\ Shrinks(channel, channel', video_queue, video_queue', 0)
      /\ QueueOK(channel', video_queue') /\ QueueInv'
      /\ Resets(channel', encoder') /\ Unspoilt(channel', video_queue', encoder')
  BY <1>1, TakeStep DEF TakeReset, peerVars
<1>3. /\ spoilt' = (spoilt \/ m.byUser) /\ popped = <<>> /\ popped' = <<>> /\ last' = NoKey
      /\ encoder' = encoder /\ decoder' = decoder /\ discard_queue' = discard_queue
  BY DEF TakeReset, peerVars
<1>4. Right'
  <2> SUFFICES ASSUME ~spoilt, ~m.byUser, ~discard_queue
               PROVE  /\ Follow(channel', video_queue', encoder', 0, decoder')
                      /\ last' = NoKey /\ KeyFirst(channel', encoder', 0)
    BY <1>3 DEF Right
  <2>1. Follow(channel, video_queue, encoder, 0, decoder)
    BY <1>3 DEF Right
  <2>2. Follow(channel, video_queue, encoder, 0 + 1, decoder)
    BY <2>1, <1>1, FollowOn
  <2>3. Follow(channel', video_queue', encoder', 0, decoder')
    <3>1. Waits(channel, Len(channel)) = Len(video_queue)
      BY Shape
    <3> QED
      BY <3>1, <2>2, <1>2, <1>3, FollowShrinks
  <2>4. KeyFirst(channel, encoder, 0 + 1)
    BY <1>1 DEF Resets
  <2>5. KeyFirst(channel', encoder', 0)
    BY <2>4, <1>2, <1>3, KeyFirstShrinks
  <2> QED
    BY <2>3, <2>5, <1>3
<1>5. RestOK'
  <2>1. first_frame' \in BOOLEAN /\ fail_counter' \in 0 .. MAX_DECODE_FAIL_COUNTER
    <3>1. CASE decoder = Nothing
      BY <1>1, <3>1 DEF RestOK, TakeReset
    <3>2. CASE decoder # Nothing
      BY <3>2 DEF TakeReset, MAX_DECODE_FAIL_COUNTER
    <3> QED
      BY <3>1, <3>2
  <2>2. last' \in NoKey .. Old /\ spoilt' \in BOOLEAN
    BY <1>1, <1>3, OldSize DEF RestOK, NoKey
  <2>3. UNCHANGED <<peerVars, sender, discard_queue, popped, decoder, mark_unsupported, boundVars>>
    BY DEF TakeReset
  <2> QED
    BY <2>1, <2>2, <2>3, <1>1, <1>3 DEF RestOK, peerVars, boundVars
<1> QED
  BY <1>2, <1>4, <1>5, TypeWhole

LEMMA LookStep ==
  ASSUME ClientTypeOK, ClientInv, NEW result \in Results, Look(result)
  PROVE  /\ ClientTypeOK' /\ ClientInv'
         /\ mark_unsupported' # mark_unsupported => decoder' \in Bad \/ spoilt'
<1> USE DEF ClientInv
<1> DEFINE vf == Head(popped)
<1>1. /\ popped # <<>> /\ popped' = <<>> /\ spoilt' = spoilt /\ encoder' = encoder
      /\ channel' = channel /\ video_queue' = video_queue
  BY DEF Look, queueVars, peerVars
<1>2. RestOK /\ vf = popped[1] /\ vf \in Poppeds
  <2>1. RestOK
    BY TypeParts
  <2>2. popped \in Seq(Poppeds)
    BY <2>1 DEF RestOK, Poppeds
  <2> QED
    BY <2>1, <2>2, <1>1
<1>3. QueueOK(channel', video_queue')
  BY <1>1, TypeParts
<1>4. QueueInv' /\ Resets(channel', encoder') /\ Unspoilt(channel', video_queue', encoder')
  BY <1>1 DEF QueueInv, Keys
<1>5. CASE Discard(TRUE)
  <2>1. discard_queue' = TRUE /\ UNCHANGED <<sender, decoderVars, mark_unsupported>>
    BY <1>5 DEF Discard
  <2>2. Right'
    BY <2>1 DEF Right
  <2>3. RestOK'
    BY <2>1, <1>1, <1>2 DEF RestOK, Look, peerVars, decoderVars, boundVars
  <2> QED
    BY <2>1, <2>2, <2>3, <1>3, <1>4, TypeWhole
<1>6. CASE DecodePopped(result)
  <2>1. /\ ~discard_queue /\ discard_queue' = discard_queue
        /\ Decode(vf.format, vf.age, vf.follows, result)
    BY <1>6 DEF DecodePopped
  <2>2. vf.format \in Formats /\ vf.age \in 0 .. Old /\ vf.follows \in BOOLEAN
    BY <1>2 DEF Poppeds
  <2>3. ~spoilt => /\ Follow(channel, video_queue, encoder, 0, vf.format)
                   /\ vf.age = Frames(channel, Len(channel))
                   /\ vf.follows \/ vf.format \in Bad
    BY <2>1, <1>1, <1>2 DEF Right
  <2>4. ~spoilt => /\ decoder' = vf.format
                   /\ last' = vf.age \/ (last' = NoKey /\ decoder' \in Bad)
                   /\ mark_unsupported' # mark_unsupported => vf.format \in Bad
    BY <2>1, <2>3, DecodeRight
  <2>5. Right'
    BY <2>3, <2>4, <1>1 DEF Right
  <2>6. /\ sender' \in Seq(Requests) /\ Len(sender') <= MaxSender + 2
        /\ decoder' \in Formats /\ first_frame' \in BOOLEAN
        /\ fail_counter' \in 0 .. MAX_DECODE_FAIL_COUNTER
        /\ mark_unsupported' \subseteq Formats
        /\ last' \in NoKey .. Old
    BY <2>1, <2>2, <1>2, DecodeTypes
  <2>7. decoder' # Nothing
    BY <2>6, ClientVideoAssumption DEF Nothing
  <2>8. RestOK'
    BY <2>1, <2>6, <2>7, <1>1, <1>2, EmptySeq DEF RestOK, Requests, Look, peerVars, boundVars
  <2> QED
    BY <2>4, <2>5, <2>8, <1>1, <1>3, <1>4, TypeWhole
<1> QED
  BY <1>5, <1>6 DEF Look
-----------------------------------------------------------------------------
(* The other steps, and the theorems.                                      *)

\* What the invariant is about stays as it is, but for a discarding that starts.
LEMMA SameInv ==
  ASSUME ClientTypeOK, ClientInv, UNCHANGED <<queueVars, encoder, popped, decoder, last, spoilt>>,
         discard_queue' \in {discard_queue, TRUE}
  PROVE  QueueOK(channel', video_queue') /\ ClientInv'
<1>1. QueueOK(channel', video_queue')
  BY TypeParts DEF queueVars
<1>2. QueueInv' /\ Resets(channel', encoder') /\ Unspoilt(channel', video_queue', encoder')
  BY DEF ClientInv, QueueInv, Keys, queueVars
<1>3. Right'
  BY DEF ClientInv, Right, queueVars
<1> QED
  BY <1>1, <1>2, <1>3 DEF ClientInv

LEMMA RequestTypes ==
  ASSUME RestOK
  PROVE  /\ sender \in Seq(Requests) /\ Len(sender) \in Nat
         /\ sender # <<>> => /\ Tail(sender) \in Seq(Requests)
                             /\ Len(Tail(sender)) <= MaxSender + 2
                             /\ Head(sender).type = "marks"
                                    => Head(sender).formats \subseteq Formats
<1>1. sender \in Seq(Requests) /\ Len(sender) <= MaxSender + 2
  BY DEF RestOK, Requests
<1>2. \A m \in Requests : m.type = "marks" => m.formats \subseteq Formats
  BY DEF Requests, Refresh, ResetDecoder, Marks
<1> HIDE DEF Requests
<1> QED
  BY <1>1, <1>2, HeadTailProperties, ClientVideoAssumption

\* A request of the user.
LEMMA SenderStep ==
  ASSUME ClientTypeOK, ClientInv, refresh_video \/ use_texture_render_changed
  PROVE  ClientTypeOK' /\ ClientInv'
<1>1. RestOK /\ sender \in Seq(Requests) /\ Len(sender) \in Nat
  BY TypeParts, RequestTypes
<1>2. /\ touches < MaxTouches /\ touches' = touches + 1 /\ Len(sender) < MaxSender
      /\ UNCHANGED <<peerVars, queueVars, discard_queue, popped, decoderVars, mark_unsupported,
                     overflows, spoilt>>
  BY DEF refresh_video, use_texture_render_changed
<1>3. sender' \in Seq(Requests) /\ Len(sender') <= MaxSender + 2
  <2>1. Refresh \in Requests /\ ResetDecoder \in Requests /\ Marks(mark_unsupported) \in Requests
    BY <1>1 DEF RestOK, Requests
  <2>2. CASE refresh_video
    <3>1. sender' = Append(sender, Refresh)
      BY <2>2 DEF refresh_video
    <3>2. sender' \in Seq(Requests) /\ Len(sender') = Len(sender) + 1
      BY <3>1, <2>1, <1>1
    <3> QED
      BY <3>2, <1>1, <1>2, ClientVideoAssumption
  <2>3. CASE use_texture_render_changed
    <3>1. sender' = sender \o <<ResetDecoder, Marks(mark_unsupported), Refresh>>
      BY <2>3 DEF use_texture_render_changed
    <3>2. sender' \in Seq(Requests) /\ Len(sender') = Len(sender) + 3
      BY <3>1, <2>1, <1>1
    <3> QED
      BY <3>2, <1>1, <1>2, ClientVideoAssumption
  <2> QED
    BY <2>2, <2>3
<1>4. touches' \in 0 .. MaxTouches
  BY <1>1, <1>2, ClientVideoAssumption DEF RestOK
<1>5. RestOK'
  BY <1>1, <1>2, <1>3, <1>4 DEF RestOK, Requests, peerVars, decoderVars
<1>6. QueueOK(channel', video_queue') /\ ClientInv'
  BY <1>2, SameInv DEF peerVars, decoderVars
<1> QED
  BY <1>5, <1>6, TypeWhole

LEMMA SwitchStep ==
  ASSUME ClientTypeOK, ClientInv, SwitchDisplay
  PROVE  ClientTypeOK' /\ ClientInv'
<1>1. /\ channel' = Append(channel, Reset(FALSE)) /\ encoder' = Nothing
      /\ UNCHANGED <<due, unusable, asked, known, sender, video_queue, discard_queue, popped,
                     decoderVars, mark_unsupported, boundVars, spoilt>>
  BY DEF SwitchDisplay, Switched
<1>2. QueueOK(channel', video_queue') /\ ClientInv'
  <2>1. encoder' = (IF FALSE THEN encoder ELSE Nothing) /\ FALSE \in BOOLEAN
    BY <1>1
  <2> QED
    BY <2>1, <1>1, ResetStep DEF decoderVars
<1>3. RestOK'
  BY <1>1, TypeParts DEF RestOK, decoderVars, boundVars
<1> QED
  BY <1>2, <1>3, TypeWhole

LEMMA PeerReadsStep ==
  ASSUME ClientTypeOK, ClientInv, PeerReads
  PROVE  ClientTypeOK' /\ ClientInv'
<1>1. RestOK'
  BY TypeParts DEF RestOK, PeerReads, decoderVars, boundVars
<1>2. QueueOK(channel', video_queue') /\ ClientInv'
  BY SameInv DEF PeerReads, decoderVars
<1> QED
  BY <1>1, <1>2, TypeWhole

LEMMA LoopStep ==
  ASSUME ClientTypeOK, ClientInv, SessionLoop
  PROVE  ClientTypeOK' /\ ClientInv'
<1>1. /\ RestOK /\ sender' = Tail(sender) /\ sender # <<>>
      /\ sender' \in Seq(Requests) /\ Len(sender') <= MaxSender + 2
      /\ Head(sender).type = "marks" => Head(sender).formats \subseteq Formats
  BY TypeParts, RequestTypes DEF SessionLoop, HandleRefresh, HandleReset, HandleMarks
<1>2. CASE HandleRefresh
  <2>1. RestOK'
    BY <1>1, <1>2 DEF RestOK, Requests, HandleRefresh, decoderVars, boundVars
  <2>2. QueueOK(channel', video_queue') /\ ClientInv'
    BY <1>2, SameInv DEF HandleRefresh, decoderVars
  <2> QED
    BY <2>1, <2>2, TypeWhole
<1>3. CASE HandleReset
  <2>1. RestOK'
    BY <1>1, <1>3 DEF RestOK, Requests, HandleReset, peerVars, decoderVars, boundVars
  <2>2. QueueOK(channel', video_queue') /\ ClientInv'
    <3>1. encoder' = (IF TRUE THEN encoder ELSE Nothing) /\ TRUE \in BOOLEAN
      BY <1>3 DEF HandleReset, peerVars
    <3> QED
      BY <3>1, <1>3, ResetStep DEF HandleReset, decoderVars
  <2> QED
    BY <2>1, <2>2, TypeWhole
<1>4. CASE HandleMarks
  <2>1. known' \subseteq Formats
    BY <1>1, <1>4 DEF HandleMarks
  <2>2. RestOK'
    BY <1>1, <1>4, <2>1 DEF RestOK, Requests, HandleMarks, decoderVars, boundVars
  <2>3. QueueOK(channel', video_queue') /\ ClientInv'
    BY <1>4, SameInv DEF HandleMarks, decoderVars
  <2> QED
    BY <2>2, <2>3, TypeWhole
<1> QED
  BY <1>2, <1>3, <1>4 DEF SessionLoop

LEMMA ClientStep ==
  ASSUME ClientTypeOK, ClientInv, [ClientNext]_clientVars
  PROVE  /\ ClientTypeOK' /\ ClientInv'
         /\ mark_unsupported' # mark_unsupported => decoder' \in Bad \/ spoilt'
<1>1. CASE VideoFrame
  <2>1. encoder # Nothing /\ DecoderAges /\ UNCHANGED peerVars /\ (Push \/ Drop(<<Refresh>>))
    BY <1>1 DEF VideoFrame
  <2>2. mark_unsupported' = mark_unsupported
    BY <2>1 DEF DecoderAges
  <2> QED
    BY <2>1, <2>2, PushStep, DroppedStep
<1>2. CASE SwitchDisplay
  <2>1. mark_unsupported' = mark_unsupported
    BY <1>2 DEF SwitchDisplay, Switched
  <2> QED
    BY <2>1, <1>2, SwitchStep
<1>3. CASE PeerReads
  <2>1. mark_unsupported' = mark_unsupported
    BY <1>3 DEF PeerReads
  <2> QED
    BY <2>1, <1>3, PeerReadsStep
<1>4. ASSUME NEW f \in Formats, KeyFrame(f)
      PROVE  /\ ClientTypeOK' /\ ClientInv'
             /\ mark_unsupported' # mark_unsupported => decoder' \in Bad \/ spoilt'
  <2>1. mark_unsupported' = mark_unsupported
    BY <1>4 DEF KeyFrame, DecoderAges
  <2> QED
    BY <2>1, <1>4, KeyStep
<1>5. CASE SessionLoop
  <2>1. mark_unsupported' = mark_unsupported
    BY <1>5 DEF SessionLoop, HandleRefresh, HandleReset, HandleMarks
  <2> QED
    BY <2>1, <1>5, LoopStep
<1>6. CASE refresh_video \/ use_texture_render_changed
  <2>1. mark_unsupported' = mark_unsupported
    BY <1>6 DEF refresh_video, use_texture_render_changed
  <2> QED
    BY <2>1, <1>6, SenderStep
<1>7. CASE Pop
  <2>1. mark_unsupported' = mark_unsupported
    BY <1>7 DEF Pop
  <2> QED
    BY <2>1, <1>7, PopStep
<1>8. CASE TakeReset
  <2>1. mark_unsupported' = mark_unsupported
    BY <1>8 DEF TakeReset
  <2> QED
    BY <2>1, <1>8, TakeResetStep
<1>9. ASSUME NEW result \in Results, TakeKey(result) \/ Look(result)
      PROVE  /\ ClientTypeOK' /\ ClientInv'
             /\ mark_unsupported' # mark_unsupported => decoder' \in Bad \/ spoilt'
  BY <1>9, TakeKeyStep, LookStep
<1>10. CASE UNCHANGED clientVars
  <2>1. UNCHANGED <<peerVars, sender, queueVars, discard_queue, popped, decoderVars,
                    mark_unsupported, boundVars, spoilt>>
    BY <1>10 DEF clientVars
  <2>2. RestOK'
    BY <2>1, TypeParts DEF RestOK, peerVars, decoderVars, boundVars
  <2>3. QueueOK(channel', video_queue') /\ ClientInv'
    BY <2>1, SameInv DEF peerVars, decoderVars
  <2> QED
    BY <2>1, <2>2, <2>3, TypeWhole
<1> QED
  BY <1>1, <1>2, <1>3, <1>4, <1>5, <1>6, <1>7, <1>8, <1>9, <1>10 DEF ClientNext, Thread

LEMMA ClientStart == ClientInit => ClientTypeOK /\ ClientInv
<1> SUFFICES ASSUME ClientInit PROVE ClientTypeOK /\ ClientInv
  OBVIOUS
<1>1. channel = <<>> /\ video_queue = <<>> /\ popped = <<>> /\ Len(channel) = 0
      /\ encoder = Nothing /\ decoder = Nothing /\ last = NoKey
  BY EmptySeq DEF ClientInit
<1>2. Tokens = {} /\ Keys = {}
  BY <1>1 DEF Tokens, Keys
<1>3. Cardinality(Tokens) = 0 /\ Cardinality(Keys) = 0
  BY <1>2, FS_EmptySet
<1>4. ClientTypeOK
  <2>1. \A S : <<>> \in Seq(S)
    BY EmptySeq
  <2>2. /\ sender = <<>> /\ channel = <<>> /\ video_queue = <<>> /\ popped = <<>>
        /\ Len(<<>>) = 0 /\ last \in NoKey .. Old /\ MaxSender + 2 \in Nat
        /\ fail_counter \in 0 .. MAX_DECODE_FAIL_COUNTER
        /\ overflows \in 0 .. MaxOverflows /\ touches \in 0 .. MaxTouches
        /\ 0 <= MaxSender + 2 /\ 0 <= VIDEO_QUEUE_SIZE
    BY <1>1, ClientVideoAssumption, OldSize DEF ClientInit, NoKey, MAX_DECODE_FAIL_COUNTER
  <2>3. Cardinality(Tokens) = Len(video_queue) /\ Len(popped) <= 1
    BY <1>1, <1>3, <2>2
  <2> QED
    BY <2>1, <2>2, <2>3, <1>1 DEF ClientInit, ClientTypeOK
<1>5. QueueInv
  BY <1>1, <1>3, ClientVideoAssumption DEF QueueInv, Covered, Ordered
<1>6. Resets(channel, encoder) /\ Unspoilt(channel, video_queue, encoder)
  BY <1>1 DEF Resets, Unspoilt
<1>7. Right
  BY <1>1 DEF Right, Follow, KeyFirst
<1> QED
  BY <1>4, <1>5, <1>6, <1>7 DEF ClientInv

\* The types, for any queue: there is a note on the channel for every frame of the
\* queue, however many were dropped, and no frame waits in it longer than the
\* queue and the key frames on the channel allow.
THEOREM ClientTypeCorrect == ClientSpec => []ClientTypeOK
<1>1. ClientTypeOK /\ ClientInv /\ [ClientNext]_clientVars => ClientTypeOK' /\ ClientInv'
  BY ClientStep
<1> QED
  BY <1>1, ClientStart, PTL DEF ClientSpec

\* start_video_thread decodes a frame of the queue only after the one it follows,
\* or one was dropped or the user had the decoder reset since its key frame: what
\* discards frames ends with a key frame and not before.
THEOREM CleanTheorem == ClientSpec => []Clean
<1>1. ClientTypeOK /\ ClientInv /\ [ClientNext]_clientVars => ClientTypeOK' /\ ClientInv'
  BY ClientStep
<1>2. ClientTypeOK /\ ClientInv => Clean
  <2> SUFFICES ASSUME ClientTypeOK, ClientInv, popped # <<>>, ~discard_queue, ~spoilt
               PROVE  Head(popped).follows \/ Head(popped).format \in Bad
    BY DEF Clean
  <2>1. popped[1].follows \/ popped[1].format \in Bad
    BY DEF ClientInv, Right
  <2>2. Head(popped) = popped[1]
    BY DEF ClientTypeOK
  <2> QED
    BY <2>1, <2>2
<1> QED
  BY <1>1, <1>2, ClientStart, PTL DEF ClientSpec

\* A codec is given up only where this computer cannot decode it, or a frame was
\* dropped or the decoder reset by the user: the display's data comes before the
\* key frame it is about.
THEOREM MarkedRightlyTheorem == ClientSpec => MarkedRightly
<1>1. ClientTypeOK /\ ClientInv /\ [ClientNext]_clientVars => ClientTypeOK' /\ ClientInv'
  BY ClientStep
<1>2. ClientTypeOK /\ ClientInv /\ [ClientNext]_clientVars
          => [mark_unsupported' # mark_unsupported => decoder' \in Bad \/ spoilt']_clientVars
  BY ClientStep
<1> QED
  BY <1>1, <1>2, ClientStart, PTL DEF ClientSpec, MarkedRightly
=============================================================================
