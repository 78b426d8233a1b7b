--------------------------- MODULE SlaveLink_proofs ---------------------------
(***************************************************************************)
(* Proofs about the two sides of the link between the master and its        *)
(* slaves: SlaveLink, for any items, results, connections, capacities and   *)
(* numbers of faults, and SlaveRegistry, for any slaves, watchers,          *)
(* capacities and timeouts.  Items and results have an inductive invariant  *)
(* each, since no step reads the one to change the other.                   *)
(***************************************************************************)
EXTENDS SlaveLink, SlaveRegistry, TLAPS

-----------------------------------------------------------------------------
(* Sequences, as the queues and buffers use them.                            *)

\* An element added at the end.
LEMMA AppendFacts ==
    ASSUME NEW S, NEW s \in Seq(S), NEW e \in S
    PROVE  /\ Append(s, e) \in Seq(S)
           /\ Len(Append(s, e)) = Len(s) + 1
           /\ ToSet(Append(s, e)) = ToSet(s) \cup {e}
           /\ IsInjective(s) /\ e \notin ToSet(s) => IsInjective(Append(s, e))
<1>1. Append(s, e) \in Seq(S) /\ Len(Append(s, e)) = Len(s) + 1
  OBVIOUS
<1>2. \A n \in 1 .. Len(s) : Append(s, e)[n] = s[n]
  OBVIOUS
<1>3. Append(s, e)[Len(s) + 1] = e
  OBVIOUS
<1>4. DOMAIN s = 1 .. Len(s) /\ DOMAIN Append(s, e) = 1 .. (Len(s) + 1)
  OBVIOUS
<1>5. Len(s) \in Nat
  OBVIOUS
<1>6. ToSet(Append(s, e)) = ToSet(s) \cup {e}
  BY <1>2, <1>3, <1>4, <1>5 DEF ToSet
<1>7. IsInjective(s) /\ e \notin ToSet(s) => IsInjective(Append(s, e))
  BY <1>2, <1>3, <1>4, <1>5 DEF ToSet, IsInjective
<1> QED BY <1>1, <1>6, <1>7

\* The first element taken out.
LEMMA TailFacts ==
    ASSUME NEW S, NEW s \in Seq(S), s # <<>>
    PROVE  /\ Head(s) \in S /\ Head(s) \in ToSet(s)
           /\ Tail(s) \in Seq(S)
           /\ Len(Tail(s)) = Len(s) - 1 /\ Len(s) > 0
           /\ ToSet(s) = ToSet(Tail(s)) \cup {Head(s)}
           /\ IsInjective(s) => IsInjective(Tail(s)) /\ Head(s) \notin ToSet(Tail(s))
<1>1. Len(s) \in Nat \ {0} /\ DOMAIN s = 1 .. Len(s) /\ Head(s) = s[1] /\ Head(s) \in S
  OBVIOUS
<1>2. Tail(s) \in Seq(S) /\ Len(Tail(s)) = Len(s) - 1 /\ DOMAIN Tail(s) = 1 .. (Len(s) - 1)
  OBVIOUS
<1>3. \A n \in 1 .. (Len(s) - 1) : Tail(s)[n] = s[n + 1]
  OBVIOUS
<1>4. ToSet(s) = ToSet(Tail(s)) \cup {Head(s)}
  <2>1. ASSUME NEW x \in ToSet(s) PROVE x \in ToSet(Tail(s)) \cup {Head(s)}
    <3>1. PICK n \in 1 .. Len(s) : x = s[n] BY <1>1 DEF ToSet
    <3>2. CASE n = 1 BY <1>1, <3>1, <3>2
    <3>3. CASE n # 1
      <4>1. n - 1 \in 1 .. (Len(s) - 1) /\ (n - 1) + 1 = n BY <1>1, <3>3
      <4>2. Tail(s)[n - 1] = x BY <1>3, <3>1, <4>1
      <4> QED BY <1>2, <4>1, <4>2 DEF ToSet
    <3> QED BY <3>2, <3>3
  <2>2. ToSet(Tail(s)) \subseteq ToSet(s)
    BY <1>1, <1>2, <1>3 DEF ToSet
  <2>3. Head(s) \in ToSet(s) BY <1>1 DEF ToSet
  <2> QED BY <2>1, <2>2, <2>3
<1>5. ASSUME IsInjective(s) PROVE IsInjective(Tail(s)) /\ Head(s) \notin ToSet(Tail(s))
  BY <1>1, <1>2, <1>3, <1>5 DEF IsInjective, ToSet
<1> QED BY <1>1, <1>2, <1>4, <1>5

\* One sequence after another.
LEMMA ConcatFacts ==
    ASSUME NEW S, NEW s \in Seq(S), NEW t \in Seq(S)
    PROVE  /\ s \o t \in Seq(S)
           /\ Len(s \o t) = Len(s) + Len(t)
           /\ ToSet(s \o t) = ToSet(s) \cup ToSet(t)
           /\ IsInjective(s) /\ IsInjective(t) /\ ToSet(s) \cap ToSet(t) = {} => IsInjective(s \o t)
<1> DEFINE u == s \o t
<1>1. u \in Seq(S) /\ Len(u) = Len(s) + Len(t) /\ Len(s) \in Nat /\ Len(t) \in Nat
  OBVIOUS
<1>2. DOMAIN s = 1 .. Len(s) /\ DOMAIN t = 1 .. Len(t) /\ DOMAIN u = 1 .. (Len(s) + Len(t))
  BY <1>1
<1>3. \A n \in 1 .. Len(s) : u[n] = s[n]
  OBVIOUS
<1>4. \A n \in 1 .. Len(t) : u[Len(s) + n] = t[n]
  OBVIOUS
<1>5. \A n \in DOMAIN u : n \in 1 .. Len(s) \/ (n - Len(s) \in 1 .. Len(t) /\ u[n] = t[n - Len(s)])
  BY <1>1, <1>2, <1>4
<1> HIDE DEF u
<1>6. ToSet(u) \subseteq ToSet(s) \cup ToSet(t)
  BY <1>1, <1>2, <1>3, <1>5 DEF ToSet
<1>7. ToSet(s) \subseteq ToSet(u)
  BY <1>1, <1>2, <1>3 DEF ToSet
<1>8. ToSet(t) \subseteq ToSet(u)
  BY <1>1, <1>2, <1>4 DEF ToSet
<1>9. ASSUME IsInjective(s), IsInjective(t), ToSet(s) \cap ToSet(t) = {} PROVE IsInjective(u)
  <2> SUFFICES ASSUME NEW m \in DOMAIN u, NEW n \in DOMAIN u, u[m] = u[n] PROVE m = n
    BY DEF IsInjective
  <2>1. CASE m \in 1 .. Len(s) /\ n \in 1 .. Len(s)
    BY <1>2, <1>3, <1>9, <2>1 DEF IsInjective
  <2>2. CASE m \notin 1 .. Len(s) /\ n \notin 1 .. Len(s)
    <3>1. m - Len(s) = n - Len(s) BY <1>2, <1>5, <1>9, <2>2 DEF IsInjective
    <3> QED BY <1>1, <1>2, <3>1
  <2>3. CASE m \in 1 .. Len(s) /\ n \notin 1 .. Len(s)
    BY <1>2, <1>3, <1>5, <1>9, <2>3 DEF ToSet
  <2>4. CASE m \notin 1 .. Len(s) /\ n \in 1 .. Len(s)
    BY <1>2, <1>3, <1>5, <1>9, <2>4 DEF ToSet
  <2> QED BY <2>1, <2>2, <2>3, <2>4
<1> QED BY <1>1, <1>6, <1>7, <1>8, <1>9 DEF u

\* A sequence cut at m: what is up to b, and what is behind m.
LEMMA CutAt ==
    ASSUME NEW S, NEW s \in Seq(S), NEW m \in Nat, NEW b \in Nat,
           b <= m, b <= Len(s), b < m => b >= Len(s)
    PROVE  LET front == SubSeq(s, 1, b)
               back  == SubSeq(s, m + 1, Len(s)) IN
           /\ front \in Seq(S) /\ Len(front) = b
           /\ ToSet(s) = ToSet(front) \cup ToSet(back)
           /\ IsInjective(s) => IsInjective(front) /\ ToSet(front) \cap ToSet(back) = {}
<1> DEFINE front == SubSeq(s, 1, b)
           back  == SubSeq(s, m + 1, Len(s))
<1>1. Len(s) \in Nat /\ DOMAIN s = 1 .. Len(s)
  OBVIOUS
<1>2. b \in Nat /\ b <= m /\ b <= Len(s) /\ (b < m => b >= Len(s))
  OBVIOUS
<1>3. front \in Seq(S) /\ Len(front) = b /\ DOMAIN front = 1 .. b
  <2>1. \A n \in 1 .. b : s[n] \in S BY <1>1, <1>2
  <2> QED BY <1>1, <1>2, <2>1
<1>4. \A n \in 1 .. b : front[n] = s[n]
  BY <1>1, <1>2
<1>5. DOMAIN back = 1 .. (Len(s) - m)
  BY <1>1
<1>6. \A n \in 1 .. (Len(s) - m) : back[n] = s[m + n]
  BY <1>1
<1> HIDE DEF front, back
<1>7. ToSet(front) \subseteq ToSet(s)
  BY <1>1, <1>2, <1>3, <1>4 DEF ToSet
<1>8. ToSet(back) \subseteq ToSet(s)
  BY <1>1, <1>5, <1>6 DEF ToSet
<1>9. ToSet(s) \subseteq ToSet(front) \cup ToSet(back)
  <2> SUFFICES ASSUME NEW n \in 1 .. Len(s) PROVE s[n] \in ToSet(front) \cup ToSet(back)
    BY <1>1 DEF ToSet
  <2>1. CASE n <= b BY <1>2, <1>3, <1>4, <2>1 DEF ToSet
  <2>2. CASE n > b
    <3>1. n - m \in 1 .. (Len(s) - m) /\ m + (n - m) = n BY <1>1, <1>2, <2>2
    <3>2. back[n - m] = s[n] BY <1>6, <3>1
    <3> QED BY <1>5, <3>1, <3>2 DEF ToSet
  <2> QED BY <1>1, <1>2, <2>1, <2>2
<1>10. ASSUME IsInjective(s) PROVE IsInjective(front) /\ ToSet(front) \cap ToSet(back) = {}
  <2>1. IsInjective(front) BY <1>1, <1>2, <1>3, <1>4, <1>10 DEF IsInjective
  <2>2. ASSUME NEW x \in 1 .. b, NEW y \in 1 .. (Len(s) - m), front[x] = back[y] PROVE FALSE
    <3>1. s[x] = s[m + y] /\ x \in 1 .. Len(s) /\ m + y \in 1 .. Len(s) /\ x # m + y
      BY <1>1, <1>2, <1>4, <1>6, <2>2
    <3> QED BY <1>1, <1>10, <3>1 DEF IsInjective
  <2> QED BY <1>3, <1>5, <2>1, <2>2 DEF ToSet
<1> QED BY <1>2, <1>3, <1>7, <1>8, <1>9, <1>10 DEF front, back

\* The cut that drainPendingToWS makes: what there is room for, and the rest.
LEMMA CutFacts ==
    ASSUME NEW S, NEW s \in Seq(S), NEW m \in Nat
    PROVE  LET front == SubSeq(s, 1, Min({m, Len(s)}))
               back  == SubSeq(s, m + 1, Len(s)) IN
           /\ front \in Seq(S) /\ Len(front) <= m
           /\ ToSet(s) = ToSet(front) \cup ToSet(back)
           /\ IsInjective(s) => IsInjective(front) /\ ToSet(front) \cap ToSet(back) = {}
<1>1. Len(s) \in Nat
  OBVIOUS
<1>2. \E x \in {m, Len(s)} : \A y \in {m, Len(s)} : x <= y BY <1>1
<1>3. Min({m, Len(s)}) \in {m, Len(s)} /\ \A y \in {m, Len(s)} : Min({m, Len(s)}) <= y BY <1>2 DEF Min
<1>4. PICK b : b = Min({m, Len(s)}) OBVIOUS
<1>5. b \in Nat /\ b <= m /\ b <= Len(s) /\ (b < m => b >= Len(s)) BY <1>1, <1>3, <1>4
<1> DEFINE front == SubSeq(s, 1, b)
           back  == SubSeq(s, m + 1, Len(s))
<1>6. /\ front \in Seq(S) /\ Len(front) = b
      /\ ToSet(s) = ToSet(front) \cup ToSet(back)
      /\ IsInjective(s) => IsInjective(front) /\ ToSet(front) \cap ToSet(back) = {}
  BY <1>5, CutAt
<1>7. Len(front) <= m BY <1>5, <1>6
<1> HIDE DEF back
<1> QED BY <1>4, <1>6, <1>7 DEF back

\* The sequence with nothing in it.
LEMMA EmptyFacts ==
    ASSUME NEW S
    PROVE  <<>> \in Seq(S) /\ Len(<<>>) = 0 /\ ToSet(<<>>) = {} /\ IsInjective(<<>>)
<1>1. <<>> \in Seq(S) /\ Len(<<>>) = 0 /\ DOMAIN <<>> = {}
  OBVIOUS
<1> QED BY <1>1 DEF ToSet, IsInjective

-----------------------------------------------------------------------------
(* Items: tasks and commands.                                                *)

ConnType == [pc : {"none", "ack", "hub", "drain", "pump", "spin", "closed"}, sock : BOOLEAN,
             closed : BOOLEAN, writing : BOOLEAN, send : Seq(Items)]
SenderType == [pc : {"idle", "push", "queue", "send", "accepted", "panicked", "refused"}, closed : BOOLEAN]
QueueType == [exists : BOOLEAN, items : Seq(Items)]

\* The types of what the master keeps of the items.
ItemTypes ==
    /\ queue \in [Kinds -> QueueType] /\ conn \in [Conns -> ConnType]
    /\ sender \in [Items -> SenderType]
    /\ handled \in [Items -> Nat] /\ lost \subseteq Items
    /\ hub \in Conns \cup {0}

\* No channel holds more than it has places for.
WithinCapacity ==
    /\ \A k \in Kinds : Len(queue[k].items) <= QueueCap
    /\ \A c \in Conns : Len(conn[c].send) <= SendCap

\* A queue holds items of its own kind.
OwnKind == \A k \in Kinds : \A i \in ToSet(queue[k].items) : KindOf(i) = k

\* Nothing is in a queue or a send buffer twice.
NoDuplicates ==
    /\ \A k \in Kinds : IsInjective(queue[k].items)
    /\ \A c \in Conns : IsInjective(conn[c].send)

InQueue(i) == i \in ToSet(queue[KindOf(i)].items)
InConn(i, c) == i \in ToSet(conn[c].send)
Accepted(i) == sender[i].pc = "accepted"

\* Two places never have the same item, and an item has a place iff it was accepted.
OnePlace(i) ==
    /\ InQueue(i) => handled[i] = 0 /\ i \notin lost /\ \A c \in Conns : ~InConn(i, c)
    /\ \A c \in Conns : InConn(i, c) =>
         handled[i] = 0 /\ i \notin lost /\ \A d \in Conns : InConn(i, d) => d = c
    /\ handled[i] \in {0, 1} /\ (i \in lost => handled[i] = 0)
    /\ Accepted(i) <=> \/ InQueue(i) \/ \E c \in Conns : InConn(i, c)
                       \/ handled[i] = 1 \/ i \in lost

ItemInv == ItemTypes /\ WithinCapacity /\ OwnKind /\ NoDuplicates /\ \A i \in Items : OnePlace(i)

\* The kind of an item is one of the two kinds.
LEMMA KindFacts == \A i : KindOf(i) \in Kinds
BY DEF KindOf, Kinds

\* A set that has one element.
LEMMA Singleton ==
    ASSUME NEW W, NEW t, \A p : p \in W <=> p = t
    PROVE  \E p \in W : W = {p}
<1>1. t \in W /\ W = {t} OBVIOUS
<1> QED BY <1>1

\* What ExactlyOnce says, from the invariant.
LEMMA ItemInvImplies ==
    ASSUME ItemInv
    PROVE  ExactlyOnce
<1> SUFFICES ASSUME NEW i \in Items
             PROVE  /\ handled[i] <= 1
                    /\ Accepted(i) => \E p \in Where(i) : Where(i) = {p}
                    /\ ~Accepted(i) => Where(i) = {}
  BY DEF ItemInv, NoDuplicates, ExactlyOnce, Accepted
<1>1. OnePlace(i) /\ handled[i] \in Nat BY DEF ItemInv, ItemTypes
<1>2. handled[i] <= 1 BY <1>1 DEF OnePlace
<1>3. handled[i] > 0 <=> handled[i] = 1 BY <1>1 DEF OnePlace
<1>4. \A k \in Kinds : i \in ToSet(queue[k].items) <=> k = KindOf(i) /\ InQueue(i)
  BY KindFacts DEF ItemInv, OwnKind, InQueue
<1>5. \A p : p \in Where(i) <=>
         \/ p = <<"queue", KindOf(i)>> /\ InQueue(i)
         \/ \E c \in Conns : p = <<"connection", c>> /\ InConn(i, c)
         \/ p = <<"slave">> /\ handled[i] = 1
         \/ p = <<"lost">> /\ i \in lost
  BY <1>3, <1>4, KindFacts DEF Where, InConn
<1>6. ~Accepted(i) => Where(i) = {}
  BY <1>1, <1>5 DEF OnePlace
<1>7. ASSUME Accepted(i) PROVE \E p \in Where(i) : Where(i) = {p}
  <2>1. CASE InQueue(i)
    <3>8. PICK t : t = <<"queue", KindOf(i)>> OBVIOUS
    <3>9. \A p : p \in Where(i) <=> p = t BY <3>8, <1>1, <1>5, <2>1 DEF OnePlace
    <3> QED BY <3>9, Singleton
  <2>2. CASE \E c \in Conns : InConn(i, c)
    <3>1. PICK c \in Conns : InConn(i, c) BY <2>2
    <3>8. PICK t : t = <<"connection", c>> OBVIOUS
    <3>9. \A p : p \in Where(i) <=> p = t BY <3>8, <1>1, <1>5, <3>1 DEF OnePlace
    <3> QED BY <3>9, Singleton
  <2>3. CASE handled[i] = 1
    <3>8. PICK t : t = <<"slave">> OBVIOUS
    <3>9. \A p : p \in Where(i) <=> p = t BY <3>8, <1>1, <1>5, <2>3 DEF OnePlace
    <3> QED BY <3>9, Singleton
  <2>4. CASE i \in lost
    <3>8. PICK t : t = <<"lost">> OBVIOUS
    <3>9. \A p : p \in Where(i) <=> p = t BY <3>8, <1>1, <1>5, <2>4 DEF OnePlace
    <3> QED BY <3>9, Singleton
  <2> QED BY <1>1, <1>7, <2>1, <2>2, <2>3, <2>4 DEF OnePlace
<1> QED BY <1>2, <1>6, <1>7

\* A step that moves no item keeps the invariant.
LEMMA NothingMoves ==
    ASSUME ItemInv, ItemTypes',
           \A k \in Kinds : queue'[k].items = queue[k].items,
           \A c \in Conns : conn'[c].send = conn[c].send,
           \A i \in Items : sender'[i].pc = "accepted" <=> sender[i].pc = "accepted",
           handled' = handled, lost' = lost
    PROVE  ItemInv'
<1>1. WithinCapacity' /\ OwnKind' /\ NoDuplicates'
  BY DEF ItemInv, WithinCapacity, OwnKind, NoDuplicates
<1>2. \A i \in Items : OnePlace(i)'
  BY KindFacts DEF ItemInv, OnePlace, InQueue, InConn, Accepted
<1> QED BY <1>1, <1>2 DEF ItemInv

\* The steps of AssignTask and SendCommand that pass no item on.
LEMMA SenderOnly ==
    ASSUME ItemInv, NEW i \in Items, NEW pc \in {"push", "queue", "send", "panicked", "refused"},
           ~Accepted(i), Sender(i, pc),
           queue' \in [Kinds -> QueueType], \A k \in Kinds : queue'[k].items = queue[k].items,
           UNCHANGED <<hub, conn, itemVars>>
    PROVE  ItemInv'
<1>1. ItemTypes' BY DEF ItemInv, ItemTypes, Sender, SenderType, itemVars
<1>2. \A j \in Items : sender'[j].pc = "accepted" <=> sender[j].pc = "accepted"
  BY DEF ItemInv, ItemTypes, Sender, SenderType, Accepted
<1> QED BY <1>1, <1>2, NothingMoves DEF itemVars

\* AssignTask and SendCommand choose their way.
LEMMA AssignKeeps == ASSUME ItemInv, NEW i \in Items, Assign(i) PROVE ItemInv'
<1>1. PICK pc \in {"push", "queue"} : Sender(i, pc) BY DEF Assign
<1>2. ~Accepted(i) BY DEF Assign, Accepted
<1> QED BY <1>1, <1>2, SenderOnly DEF Assign, ItemInv, ItemTypes

\* The queue is looked up or made.
LEMMA GetQueueKeeps == ASSUME ItemInv, NEW i \in Items, GetQueue(i) PROVE ItemInv'
<1>1. ~Accepted(i) /\ Sender(i, "send") /\ UNCHANGED <<hub, conn, itemVars>> BY DEF GetQueue, Accepted
<1>2. queue' \in [Kinds -> QueueType] /\ \A k \in Kinds : queue'[k].items = queue[k].items
  BY KindFacts DEF GetQueue, ItemInv, ItemTypes, QueueType
<1> QED BY <1>1, <1>2, SenderOnly

\* sendToSlave puts an item that was nowhere into one send buffer.
LEMMA PushKeeps == ASSUME ItemInv, NEW i \in Items, Push(i) PROVE ItemInv'
<1>1. ~Accepted(i) /\ UNCHANGED <<queue, hub, itemVars>> BY DEF Push, Accepted
<1>2. CASE ~(hub # 0 /\ Len(conn[hub].send) < SendCap)
  <2>1. UNCHANGED conn /\ Sender(i, "queue") BY <1>2 DEF Push
  <2> QED BY <1>1, <2>1, SenderOnly DEF ItemInv, ItemTypes
<1>3. CASE hub # 0 /\ Len(conn[hub].send) < SendCap
  <2> USE DEF ItemInv
  <2>1. hub \in Conns /\ conn[hub] \in ConnType /\ conn[hub].send \in Seq(Items)
    BY <1>3 DEF ItemTypes, ConnType
  <2>2. conn' = [conn EXCEPT ![hub].send = Append(conn[hub].send, i)] /\ Sender(i, "accepted")
    BY <1>3 DEF Push
  <2>3. conn' \in [Conns -> ConnType] /\ conn'[hub].send = Append(conn[hub].send, i)
        /\ \A c \in Conns \ {hub} : conn'[c].send = conn[c].send
    BY <2>1, <2>2, AppendFacts DEF ItemTypes, ConnType
  <2>4. OnePlace(i) /\ \A c \in Conns : ~InConn(i, c) BY <1>1 DEF OnePlace
  <2>5. ItemTypes' BY <1>1, <2>2, <2>3 DEF ItemTypes, Sender, SenderType, itemVars
  <2>6. ToSet(conn'[hub].send) = ToSet(conn[hub].send) \cup {i} /\ IsInjective(conn'[hub].send)
        /\ Len(conn'[hub].send) = Len(conn[hub].send) + 1
    BY <2>1, <2>3, <2>4, AppendFacts DEF NoDuplicates, InConn
  <2>7. WithinCapacity'
    <3>1. Len(conn[hub].send) \in Nat /\ SendCap \in Nat BY <2>1, CapAssumption
    <3>2. Len(conn'[hub].send) <= SendCap BY <1>3, <2>6, <3>1
    <3> QED BY <1>1, <2>3, <3>2 DEF WithinCapacity
  <2>8. OwnKind' BY <1>1 DEF OwnKind
  <2>9. NoDuplicates' BY <1>1, <2>3, <2>6 DEF NoDuplicates
  <2>10. ASSUME NEW j \in Items PROVE OnePlace(j)'
    <3>1. InQueue(j)' <=> InQueue(j) BY <1>1 DEF InQueue
    <3>2. \A c \in Conns : InConn(j, c)' <=> InConn(j, c) \/ (j = i /\ c = hub)
      BY <2>3, <2>6 DEF InConn
    <3>3. Accepted(j)' <=> Accepted(j) \/ j = i
      BY <2>2 DEF Accepted, Sender, ItemTypes, SenderType
    <3>4. handled'[j] = handled[j] /\ lost' = lost BY <1>1 DEF itemVars
    <3>5. OnePlace(j) OBVIOUS
    <3> QED BY <1>1, <2>1, <3>1, <3>2, <3>3, <3>4, <3>5 DEF OnePlace
  <2> QED BY <2>5, <2>7, <2>8, <2>9, <2>10
<1> QED BY <1>2, <1>3

\* The send into the queue: accepted, refused, or a panic.
LEMMA EnqueueKeeps == ASSUME ItemInv, NEW i \in Items, Enqueue(i) PROVE ItemInv'
<1> DEFINE k == KindOf(i)
<1>1. ~Accepted(i) /\ UNCHANGED <<hub, conn, itemVars>> /\ k \in Kinds BY KindFacts DEF Enqueue, Accepted
<1>2. CASE UNCHANGED queue /\ (Sender(i, "panicked") \/ Sender(i, "refused"))
  BY <1>1, <1>2, SenderOnly DEF ItemInv, ItemTypes
<1>3. CASE /\ Len(queue[k].items) < QueueCap
           /\ queue' = [queue EXCEPT ![k].items = Append(queue[k].items, i)]
           /\ Sender(i, "accepted")
  <2> USE DEF ItemInv
  <2> HIDE DEF k
  <2>1. queue[k] \in QueueType /\ queue[k].items \in Seq(Items)
    BY <1>1 DEF ItemTypes, QueueType
  <2>3. queue' \in [Kinds -> QueueType] /\ queue'[k].items = Append(queue[k].items, i)
        /\ \A x \in Kinds \ {k} : queue'[x].items = queue[x].items
    BY <1>1, <1>3, <2>1, AppendFacts DEF ItemTypes, QueueType
  <2>4. OnePlace(i) /\ ~InQueue(i) BY <1>1 DEF OnePlace
  <2>5. ItemTypes' BY <1>1, <1>3, <2>3 DEF ItemTypes, Sender, SenderType, itemVars
  <2>6. ToSet(queue'[k].items) = ToSet(queue[k].items) \cup {i} /\ IsInjective(queue'[k].items)
        /\ Len(queue'[k].items) = Len(queue[k].items) + 1
    BY <1>1, <2>1, <2>3, <2>4, AppendFacts DEF NoDuplicates, InQueue, k
  <2>7. WithinCapacity'
    <3>1. Len(queue[k].items) \in Nat /\ QueueCap \in Nat BY <2>1, CapAssumption
    <3>2. Len(queue'[k].items) <= QueueCap BY <1>3, <2>6, <3>1
    <3> QED BY <1>1, <2>3, <3>2 DEF WithinCapacity
  <2>8. OwnKind' BY <2>3, <2>6 DEF OwnKind, k
  <2>9. NoDuplicates' BY <1>1, <2>3, <2>6 DEF NoDuplicates
  <2>10. ASSUME NEW j \in Items PROVE OnePlace(j)'
    <3>1. InQueue(j)' <=> InQueue(j) \/ j = i
      BY <2>3, <2>6, KindFacts DEF InQueue, k
    <3>2. \A c \in Conns : InConn(j, c)' <=> InConn(j, c) BY <1>1 DEF InConn
    <3>3. Accepted(j)' <=> Accepted(j) \/ j = i
      BY <1>3 DEF Accepted, Sender, ItemTypes, SenderType
    <3>4. handled'[j] = handled[j] /\ lost' = lost BY <1>1 DEF itemVars
    <3>5. OnePlace(j) OBVIOUS
    <3> QED BY <1>1, <3>1, <3>2, <3>3, <3>4, <3>5 DEF OnePlace
  <2> QED BY <2>5, <2>7, <2>8, <2>9, <2>10
<1> QED BY <1>2, <1>3 DEF Enqueue

\* Items handed to the slave, or lost, stay items.
LEMMA HandleTypes ==
    ASSUME ItemTypes, NEW S, Handle(S)
    PROVE  handled' \in [Items -> Nat]
           /\ \A i \in Items : handled'[i] = IF i \in S THEN handled[i] + 1 ELSE handled[i]
BY DEF ItemTypes, Handle

\* Queues are emptied, and all that was in them is handed to the slave or lost.
LEMMA QueuesEmptied ==
    ASSUME ItemInv, NEW K \in SUBSET Kinds, NEW S,
           \A i : i \in S <=> \E k \in K : i \in ToSet(queue[k].items),
           queue' \in [Kinds -> QueueType], conn' \in [Conns -> ConnType],
           sender' \in [Items -> SenderType], hub' \in Conns \cup {0},
           \A k \in K : queue'[k].items = <<>>,
           \A k \in Kinds \ K : queue'[k].items = queue[k].items,
           \A c \in Conns : conn'[c].send = conn[c].send,
           \A i \in Items : sender'[i].pc = "accepted" <=> sender[i].pc = "accepted",
           (Handle(S) /\ UNCHANGED lost) \/ (Lose(S) /\ UNCHANGED handled)
    PROVE  ItemInv'
<1> USE DEF ItemInv
<1>1. S \subseteq Items
  <2>1. \A k \in Kinds : queue[k].items \in Seq(Items) BY DEF ItemTypes, QueueType
  <2>2. \A k \in Kinds : ToSet(queue[k].items) \subseteq Items BY <2>1 DEF ToSet
  <2> QED BY <2>2
<1>2. handled' \in [Items -> Nat] /\ lost' \subseteq Items
  BY <1>1, HandleTypes DEF Lose, ItemTypes
<1>3. ItemTypes' BY <1>2 DEF ItemTypes
<1>4. \A k \in K : Len(queue'[k].items) = 0 /\ ToSet(queue'[k].items) = {} /\ IsInjective(queue'[k].items)
  BY EmptyFacts
<1>5. WithinCapacity'
  <2>1. \A k \in K : Len(queue'[k].items) <= QueueCap BY <1>4, CapAssumption
  <2> QED BY <2>1 DEF WithinCapacity
<1>6. OwnKind' BY <1>4 DEF OwnKind
<1>7. NoDuplicates' BY <1>4 DEF NoDuplicates
<1>8. ASSUME NEW j \in Items PROVE OnePlace(j)'
  <2>1. j \in S <=> InQueue(j) /\ KindOf(j) \in K BY DEF OwnKind, InQueue
  <2>2. InQueue(j)' <=> InQueue(j) /\ j \notin S
    <3>1. CASE KindOf(j) \in K BY <1>4, <2>1, <3>1 DEF InQueue
    <3>2. CASE KindOf(j) \notin K
      <4>1. queue'[KindOf(j)].items = queue[KindOf(j)].items BY <3>2, KindFacts
      <4> QED BY <2>1, <3>2, <4>1 DEF InQueue
    <3> QED BY <3>1, <3>2
  <2>3. \A c \in Conns : InConn(j, c)' <=> InConn(j, c) BY DEF InConn
  <2>4. Accepted(j)' <=> Accepted(j) BY DEF Accepted
  <2>5. OnePlace(j) /\ handled[j] \in Nat BY DEF ItemTypes
  <2>6. CASE j \notin S
    <3>1. handled'[j] = handled[j] /\ (j \in lost' <=> j \in lost) BY <2>6, HandleTypes DEF Lose
    <3> QED BY <2>2, <2>3, <2>4, <2>5, <2>6, <3>1 DEF OnePlace
  <2>7. CASE j \in S
    <3>1. handled[j] = 0 /\ j \notin lost /\ Accepted(j) /\ \A c \in Conns : ~InConn(j, c)
      BY <2>1, <2>5, <2>7 DEF OnePlace
    <3>2. (handled'[j] = 1 /\ j \notin lost') \/ (handled'[j] = 0 /\ j \in lost')
      BY <2>7, <3>1, HandleTypes DEF Lose
    <3> QED BY <2>2, <2>3, <2>4, <2>7, <3>1, <3>2 DEF OnePlace
  <2> QED BY <2>6, <2>7
<1> QED BY <1>3, <1>5, <1>6, <1>7, <1>8

\* getPendingTasks and getPendingCommands, by a heartbeat or a poll.
LEMMA TakeKeeps ==
    ASSUME ItemInv, NEW k \in Kinds, Take(k), UNCHANGED <<sender, hub, conn>>,
           \/ Handle(ToSet(queue[k].items)) /\ UNCHANGED lost
           \/ Lose(ToSet(queue[k].items)) /\ UNCHANGED handled
    PROVE  ItemInv'
<1>1. queue' \in [Kinds -> QueueType] /\ queue'[k].items = <<>>
      /\ \A x \in Kinds \ {k} : queue'[x].items = queue[x].items
  BY EmptyFacts DEF Take, ItemInv, ItemTypes, QueueType
<1>2. PICK S : S = ToSet(queue[k].items) OBVIOUS
<1>3. (Handle(S) /\ UNCHANGED lost) \/ (Lose(S) /\ UNCHANGED handled) BY <1>2
<1>4. \A i : i \in S <=> \E x \in {k} : i \in ToSet(queue[x].items) BY <1>2
<1>5. PICK K \in SUBSET Kinds : K = {k} OBVIOUS
<1> QED BY <1>1, <1>3, <1>4, <1>5, QueuesEmptied DEF ItemInv, ItemTypes

\* A heartbeat.
LEMMA HeartbeatKeeps == ASSUME ItemInv, Heartbeat PROVE ItemInv'
<1>1. UNCHANGED <<sender, hub, conn>> /\ "command" \in Kinds BY DEF Heartbeat, Kinds
<1>2. CASE UNCHANGED <<queue, itemVars>>
  BY <1>1, <1>2, NothingMoves DEF ItemInv, ItemTypes, itemVars
<1>3. CASE /\ Take("command")
           /\ \/ Handle(ToSet(queue["command"].items)) /\ UNCHANGED lost
              \/ Lose(ToSet(queue["command"].items)) /\ UNCHANGED handled
  BY <1>1, <1>3, TakeKeeps
<1> QED BY <1>2, <1>3 DEF Heartbeat

\* A poll for tasks.
LEMMA PollKeeps == ASSUME ItemInv, Poll PROVE ItemInv'
<1>1. UNCHANGED <<sender, hub, conn>> /\ "task" \in Kinds BY DEF Poll, Kinds
<1>2. /\ Take("task")
      /\ \/ Handle(ToSet(queue["task"].items)) /\ UNCHANGED lost
         \/ Lose(ToSet(queue["task"].items)) /\ UNCHANGED handled
  BY DEF Poll
<1> QED BY <1>1, <1>2, TakeKeeps

\* Both queues of the slave are dropped, by a clean-up or by the end of the master.
LEMMA BothEmptied ==
    ASSUME ItemInv, queue' = [k \in Kinds |-> NoQueue], UNCHANGED handled,
           Lose(ToSet(queue["task"].items) \cup ToSet(queue["command"].items)),
           conn' \in [Conns -> ConnType], sender' \in [Items -> SenderType], hub' \in Conns \cup {0},
           \A c \in Conns : conn'[c].send = conn[c].send,
           \A i \in Items : sender'[i].pc = "accepted" <=> sender[i].pc = "accepted"
    PROVE  ItemInv'
<1>1. queue' \in [Kinds -> QueueType] /\ \A k \in Kinds : queue'[k].items = <<>>
  BY EmptyFacts DEF NoQueue, QueueType
<1>2. PICK S : S = ToSet(queue["task"].items) \cup ToSet(queue["command"].items) OBVIOUS
<1>3. Lose(S) BY <1>2
<1>4. \A i : i \in S <=> \E x \in Kinds : i \in ToSet(queue[x].items) BY <1>2 DEF Kinds
<1>5. PICK K \in SUBSET Kinds : K = Kinds OBVIOUS
<1> QED BY <1>1, <1>3, <1>4, <1>5, QueuesEmptied

\* cleanupSlaveQueues.
LEMMA CleanupKeeps == ASSUME ItemInv, CleanupSlaveQueues PROVE ItemInv'
<1> USE DEF CleanupSlaveQueues, ItemInv, ItemTypes
<1>1. /\ conn' \in [Conns -> ConnType]
      /\ \A c \in Conns : conn'[c].send = conn[c].send
  <2> DEFINE b(c) == conn[c].closed \/ (conn[c].pc = "drain" /\ \E k \in Kinds : queue[k].exists)
  <2>1. conn' = [c \in Conns |-> [conn[c] EXCEPT !.closed = b(c)]]
    OBVIOUS
  <2>2. \A c \in Conns : b(c) \in BOOLEAN OBVIOUS
  <2> HIDE DEF b
  <2>3. ASSUME NEW c \in Conns PROVE conn'[c] \in ConnType /\ conn'[c].send = conn[c].send
    <3>1. PICK v \in BOOLEAN : v = b(c) BY <2>2
    <3>2. conn'[c] = [conn[c] EXCEPT !.closed = v] BY <2>1, <3>1, Zenon
    <3>3. conn[c] \in ConnType OBVIOUS
    <3> QED BY <3>2, <3>3 DEF ConnType
  <2> QED BY <2>1, <2>3
<1>2. /\ sender' \in [Items -> SenderType]
      /\ \A i \in Items : sender'[i].pc = sender[i].pc
  <2> DEFINE b(i) == sender[i].pc = "send"
  <2>1. sender' = [i \in Items |-> [sender[i] EXCEPT !.closed = b(i)]]
    OBVIOUS
  <2>2. \A i \in Items : b(i) \in BOOLEAN OBVIOUS
  <2> HIDE DEF b
  <2>3. ASSUME NEW i \in Items PROVE sender'[i] \in SenderType /\ sender'[i].pc = sender[i].pc
    <3>1. PICK v \in BOOLEAN : v = b(i) BY <2>2
    <3>2. sender'[i] = [sender[i] EXCEPT !.closed = v] BY <2>1, <3>1, Zenon
    <3>3. sender[i] \in SenderType OBVIOUS
    <3> QED BY <3>2, <3>3 DEF SenderType
  <2> QED BY <2>1, <2>3
<1> QED BY <1>1, <1>2, BothEmptied

\* The end of the master's process.
LEMMA MasterRestartKeeps == ASSUME ItemInv, MasterRestart PROVE ItemInv'
<1> USE DEF MasterRestart, ItemInv, ItemTypes
<1>1. /\ conn' \in [Conns -> ConnType]
      /\ \A c \in Conns : conn'[c].send = conn[c].send
  BY DEF ConnType
<1>2. /\ sender' \in [Items -> SenderType]
      /\ \A i \in Items : sender'[i].pc = "accepted" <=> sender[i].pc = "accepted"
  BY DEF SenderType
<1> QED BY <1>1, <1>2, BothEmptied

\* A step that changes connections but not what is in their send buffers.
LEMMA ConnsOnly ==
    ASSUME ItemInv, conn' \in [Conns -> ConnType], \A c \in Conns : conn'[c].send = conn[c].send,
           hub' \in Conns \cup {0}, UNCHANGED <<queue, sender, itemVars>>
    PROVE  ItemInv'
BY NothingMoves DEF ItemInv, ItemTypes, itemVars

\* The steps of a connection that move no item, and the client's dialling.
LEMMA ConnsKeep ==
    ASSUME ItemInv,
           \/ \E c \in Conns : WriteAck(c) \/ HubRegister(c) \/ ReadPump(c) \/ Break(c)
           \/ DialWS \/ NewProcess \/ DisconnectWS
    PROVE  ItemInv'
<1> USE DEF ItemInv, ItemTypes
<1>1. ASSUME NEW c \in Conns, WriteAck(c) PROVE ItemInv'
  <2>1. conn' \in [Conns -> ConnType] /\ \A d \in Conns : conn'[d].send = conn[d].send
    <3>1. PICK pc \in {"hub", "closed"} : conn' = [conn EXCEPT ![c].pc = pc] BY <1>1 DEF WriteAck
    <3> QED BY <3>1 DEF ConnType
  <2> QED BY <1>1, <2>1, ConnsOnly DEF WriteAck
<1>2. ASSUME NEW c \in Conns, HubRegister(c) PROVE ItemInv'
  <2>1. conn' \in [Conns -> ConnType] /\ \A d \in Conns : conn'[d].send = conn[d].send
    BY <1>2 DEF HubRegister, ConnType
  <2> QED BY <1>2, <2>1, ConnsOnly DEF HubRegister
<1>3. ASSUME NEW c \in Conns, ReadPump(c) PROVE ItemInv'
  <2>1. conn' \in [Conns -> ConnType] /\ \A d \in Conns : conn'[d].send = conn[d].send
    BY <1>3 DEF ReadPump, ConnType
  <2> QED BY <1>3, <2>1, ConnsOnly DEF ReadPump
<1>4. ASSUME NEW c \in Conns, Break(c) PROVE ItemInv'
  <2>1. conn' \in [Conns -> ConnType] /\ \A d \in Conns : conn'[d].send = conn[d].send
    BY <1>4 DEF Break, ConnType
  <2> QED BY <1>4, <2>1, ConnsOnly DEF Break
<1>5. CASE DialWS
  <2>1. CASE UNCHANGED conn BY <1>5, <2>1, ConnsOnly DEF DialWS
  <2>2. CASE \E c \in Conns : conn' = [conn EXCEPT ![c].pc = "ack", ![c].sock = TRUE]
    <3>1. conn' \in [Conns -> ConnType] /\ \A d \in Conns : conn'[d].send = conn[d].send
      <4>1. PICK c \in Conns : conn' = [conn EXCEPT ![c].pc = "ack", ![c].sock = TRUE] BY <2>2
      <4>2. conn[c] \in ConnType BY <4>1
      <4>3. conn'[c] = [conn[c] EXCEPT !.pc = "ack", !.sock = TRUE] BY <4>1
      <4>4. conn'[c] \in ConnType /\ conn'[c].send = conn[c].send BY <4>2, <4>3 DEF ConnType
      <4>5. \A d \in Conns \ {c} : conn'[d] = conn[d] BY <4>1
      <4>6. conn' = [d \in Conns |-> conn'[d]] BY <4>1
      <4> QED BY <4>4, <4>5, <4>6
    <3> QED BY <1>5, <3>1, ConnsOnly DEF DialWS
  <2> QED BY <1>5, <2>1, <2>2 DEF DialWS
<1>6. CASE NewProcess
  <2>1. conn' \in [Conns -> ConnType] /\ \A d \in Conns : conn'[d].send = conn[d].send
    <3>1. PICK x : x = cl.sock OBVIOUS
    <3>2. conn' = [d \in Conns |-> IF d = x THEN [conn[d] EXCEPT !.sock = FALSE] ELSE conn[d]]
      BY <1>6, <3>1 DEF NewProcess
    <3>3. ASSUME NEW d \in Conns PROVE conn'[d] \in ConnType /\ conn'[d].send = conn[d].send
      BY <3>2 DEF ConnType
    <3> QED BY <3>2, <3>3
  <2> QED BY <1>6, <2>1, ConnsOnly DEF NewProcess
<1>7. CASE DisconnectWS
  <2>1. conn' \in [Conns -> ConnType] /\ \A d \in Conns : conn'[d].send = conn[d].send
    <3>1. PICK x : x = cl.sock OBVIOUS
    <3>2. conn' = [conn EXCEPT ![x].sock = FALSE] BY <1>7, <3>1 DEF DisconnectWS
    <3>3. ASSUME NEW d \in Conns PROVE conn'[d] \in ConnType /\ conn'[d].send = conn[d].send
      BY <3>2 DEF ConnType
    <3>4. conn' = [d \in Conns |-> conn'[d]] BY <3>2
    <3> QED BY <3>3, <3>4
  <2> QED BY <1>7, <2>1, ConnsOnly DEF DisconnectWS
<1> QED BY <1>1, <1>2, <1>3, <1>4, <1>5, <1>6, <1>7

\* writePump takes one item out of a send buffer.
LEMMA WritePumpKeeps == ASSUME ItemInv, NEW c \in Conns, WritePump(c) PROVE ItemInv'
<1> USE DEF ItemInv
<1> DEFINE i == Head(conn[c].send)
<1>1. conn[c] \in ConnType /\ conn[c].send \in Seq(Items) /\ conn[c].send # <<>>
  BY DEF ItemTypes, ConnType, WritePump
<1>2. UNCHANGED <<queue, sender, hub>> BY DEF WritePump
<1>3. (Handle({i}) /\ UNCHANGED lost) \/ (Lose({i}) /\ UNCHANGED handled) BY DEF WritePump
<1>4. PICK ok \in BOOLEAN : conn' = [conn EXCEPT ![c].send = Tail(conn[c].send), ![c].writing = ok]
  <2>1. CASE conn' = [conn EXCEPT ![c].send = Tail(conn[c].send)]
    <3>1. conn[c].writing \in BOOLEAN BY <1>1 DEF ConnType
    <3>2. conn' = [conn EXCEPT ![c].send = Tail(conn[c].send), ![c].writing = conn[c].writing]
      BY <1>1, <2>1 DEF ItemTypes, ConnType
    <3> QED BY <3>1, <3>2
  <2> QED BY <2>1 DEF WritePump
<1>5. /\ i \in Items /\ i \in ToSet(conn[c].send)
      /\ Tail(conn[c].send) \in Seq(Items) /\ Len(Tail(conn[c].send)) = Len(conn[c].send) - 1
      /\ ToSet(conn[c].send) = ToSet(Tail(conn[c].send)) \cup {i}
      /\ IsInjective(Tail(conn[c].send)) /\ i \notin ToSet(Tail(conn[c].send))
  BY <1>1, TailFacts DEF NoDuplicates
<1> HIDE DEF i
<1>6. /\ conn' \in [Conns -> ConnType] /\ conn'[c].send = Tail(conn[c].send)
      /\ \A d \in Conns \ {c} : conn'[d].send = conn[d].send
  BY <1>1, <1>4, <1>5 DEF ItemTypes, ConnType
<1>7. ItemTypes'
  BY <1>2, <1>3, <1>5, <1>6, HandleTypes DEF ItemTypes, Lose
<1>8. WithinCapacity'
  <2>1. Len(conn[c].send) \in Nat /\ SendCap \in Nat BY <1>1, CapAssumption
  <2>2. Len(conn[c].send) <= SendCap BY DEF WithinCapacity
  <2>3. Len(conn'[c].send) <= SendCap BY <1>5, <1>6, <2>1, <2>2
  <2> QED BY <1>2, <1>6, <2>3 DEF WithinCapacity
<1>9. OwnKind' BY <1>2 DEF OwnKind
<1>10. NoDuplicates' BY <1>2, <1>5, <1>6 DEF NoDuplicates
<1>11. ASSUME NEW j \in Items PROVE OnePlace(j)'
  <2>1. InQueue(j)' <=> InQueue(j) BY <1>2 DEF InQueue
  <2>2. \A d \in Conns : InConn(j, d)' <=> InConn(j, d) /\ ~(j = i /\ d = c)
    BY <1>5, <1>6 DEF InConn
  <2>3. Accepted(j)' <=> Accepted(j) BY <1>2 DEF Accepted
  <2>4. OnePlace(j) /\ handled[j] \in Nat BY DEF ItemTypes
  <2>5. CASE j # i
    <3>1. handled'[j] = handled[j] /\ (j \in lost' <=> j \in lost) BY <1>3, <2>5, HandleTypes DEF Lose
    <3> QED BY <2>1, <2>2, <2>3, <2>4, <2>5, <3>1 DEF OnePlace
  <2>6. CASE j = i
    <3>1. InConn(j, c) BY <1>5, <2>6 DEF InConn
    <3>2. handled[j] = 0 /\ j \notin lost /\ Accepted(j) /\ ~InQueue(j)
          /\ \A d \in Conns : InConn(j, d) => d = c
      BY <2>4, <3>1 DEF OnePlace
    <3>3. (handled'[j] = 1 /\ j \notin lost') \/ (handled'[j] = 0 /\ j \in lost')
      BY <1>3, <2>6, <3>2, HandleTypes DEF Lose
    <3>4. \A d \in Conns : ~InConn(j, d)' BY <2>2, <2>6, <3>2
    <3> QED BY <2>1, <2>3, <3>2, <3>3, <3>4 DEF OnePlace
  <2> QED BY <2>5, <2>6
<1> QED BY <1>7, <1>8, <1>9, <1>10, <1>11

\* What is pending in both queues, in the order of drainPendingToWS.
LEMMA PendingFacts ==
    ASSUME ItemInv, NEW all, all = queue["task"].items \o queue["command"].items
    PROVE  /\ all \in Seq(Items) /\ IsInjective(all)
           /\ \A i \in Items : i \in ToSet(all) <=> InQueue(i)
<1> USE DEF ItemInv
<1> DEFINE t == queue["task"].items
           u == queue["command"].items
<1>1. t \in Seq(Items) /\ u \in Seq(Items) BY DEF ItemTypes, QueueType, Kinds
<1>2. IsInjective(t) /\ IsInjective(u) BY DEF NoDuplicates, Kinds
<1>3. (\A i \in ToSet(t) : KindOf(i) = "task") /\ (\A i \in ToSet(u) : KindOf(i) = "command")
  BY DEF OwnKind, Kinds
<1>4. \A i \in Items : i \in ToSet(t) \/ i \in ToSet(u) <=> InQueue(i)
  BY <1>3, KindFacts DEF InQueue, Kinds
<1> HIDE DEF t, u
<1>5. ToSet(t) \cap ToSet(u) = {} BY <1>3
<1>6. all = t \o u BY DEF t, u
<1>7. all \in Seq(Items) /\ IsInjective(all) /\ ToSet(all) = ToSet(t) \cup ToSet(u)
  BY <1>1, <1>2, <1>5, <1>6, ConcatFacts
<1> QED BY <1>4, <1>7

\* drainPendingToWS: the pending items go into the send buffer or are lost.
LEMMA DrainKeeps == ASSUME ItemInv, NEW c \in Conns, DrainPendingToWS(c) PROVE ItemInv'
<1> USE DEF ItemInv
<1>1. UNCHANGED <<sender, hub, handled>> BY DEF DrainPendingToWS
<1>2. conn[c] \in ConnType /\ conn[c].send \in Seq(Items) /\ Len(conn[c].send) \in Nat
  BY DEF ItemTypes, ConnType
<1>3. CASE conn[c].closed
  <2>1. conn' = [conn EXCEPT ![c].pc = "spin"] /\ UNCHANGED <<queue, lost>>
    BY <1>3 DEF DrainPendingToWS
  <2>2. conn' \in [Conns -> ConnType] /\ \A d \in Conns : conn'[d].send = conn[d].send
    BY <2>1 DEF ItemTypes, ConnType
  <2> QED BY <1>1, <2>1, <2>2, ConnsOnly DEF ItemTypes, itemVars
<1>4. CASE ~conn[c].closed
  <2>1. PICK all : all = queue["task"].items \o queue["command"].items OBVIOUS
  <2>2. all \in Seq(Items) /\ IsInjective(all) /\ \A i \in Items : i \in ToSet(all) <=> InQueue(i)
    BY <2>1, PendingFacts
  <2>3. PICK free \in Nat : free = SendCap - Len(conn[c].send)
    <3>1. SendCap \in Nat /\ Len(conn[c].send) <= SendCap BY CapAssumption DEF WithinCapacity
    <3>2. PICK n \in Nat : n = Len(conn[c].send) BY <1>2
    <3>3. SendCap - n \in Nat BY <3>1, <3>2
    <3> QED BY <3>2, <3>3
  <2>4. PICK front, back : front = SubSeq(all, 1, Min({free, Len(all)})) /\ back = SubSeq(all, free + 1, Len(all))
    OBVIOUS
  <2>5. /\ front \in Seq(Items) /\ Len(front) <= free /\ IsInjective(front)
        /\ ToSet(all) = ToSet(front) \cup ToSet(back) /\ ToSet(front) \cap ToSet(back) = {}
    BY <2>2, <2>4, CutFacts
  <2>6. /\ conn' = [conn EXCEPT ![c].pc = "pump", ![c].send = conn[c].send \o front]
        /\ queue' = [k \in Kinds |-> [queue[k] EXCEPT !.items = <<>>]]
        /\ lost' = lost \cup ToSet(back)
    BY <1>4, <2>1, <2>3, <2>4 DEF DrainPendingToWS, Lose
  <2>7. ToSet(all) \subseteq Items BY <2>2 DEF ToSet
  <2>8. ToSet(conn[c].send) \cap ToSet(front) = {}
    <3>1. \A i \in Items : InQueue(i) => ~InConn(i, c) BY DEF OnePlace
    <3> QED BY <2>2, <2>5, <2>7, <3>1 DEF InConn
  <2>9. PICK new : new = conn[c].send \o front OBVIOUS
  <2>10. /\ new \in Seq(Items) /\ IsInjective(new) /\ Len(new) = Len(conn[c].send) + Len(front)
         /\ ToSet(new) = ToSet(conn[c].send) \cup ToSet(front)
    BY <1>2, <2>5, <2>8, <2>9, ConcatFacts DEF NoDuplicates
  <2>11. /\ conn' \in [Conns -> ConnType] /\ conn'[c].send = new
         /\ \A d \in Conns \ {c} : conn'[d].send = conn[d].send
    <3>1. conn' = [conn EXCEPT ![c].pc = "pump", ![c].send = new] BY <2>6, <2>9
    <3>2. conn'[c] = [conn[c] EXCEPT !.pc = "pump", !.send = new] BY <3>1 DEF ItemTypes
    <3>3. conn'[c] \in ConnType /\ conn'[c].send = new BY <1>2, <2>10, <3>2 DEF ConnType
    <3>4. \A d \in Conns \ {c} : conn'[d] = conn[d] BY <3>1 DEF ItemTypes
    <3>5. conn' = [d \in Conns |-> conn'[d]] BY <3>1 DEF ItemTypes
    <3> QED BY <3>3, <3>4, <3>5 DEF ItemTypes
  <2>12. queue' \in [Kinds -> QueueType] /\ \A k \in Kinds : queue'[k].items = <<>>
    BY <2>6, EmptyFacts DEF ItemTypes, QueueType
  <2>13. ItemTypes' BY <1>1, <2>5, <2>6, <2>7, <2>11, <2>12 DEF ItemTypes
  <2>14. \A k \in Kinds : Len(queue'[k].items) = 0 /\ ToSet(queue'[k].items) = {} /\ IsInjective(queue'[k].items)
    BY <2>12, EmptyFacts
  <2>15. WithinCapacity'
    <3>1. Len(front) \in Nat BY <2>5
    <3>2. Len(new) <= SendCap BY <1>2, <2>3, <2>5, <2>10, <3>1, CapAssumption
    <3>3. \A k \in Kinds : Len(queue'[k].items) <= QueueCap BY <2>14, CapAssumption
    <3> QED BY <2>11, <3>2, <3>3 DEF WithinCapacity
  <2>16. OwnKind' BY <2>14 DEF OwnKind
  <2>17. NoDuplicates' BY <2>10, <2>11, <2>14 DEF NoDuplicates
  <2>18. ASSUME NEW j \in Items PROVE OnePlace(j)'
    <3>1. ~InQueue(j)' BY <2>14, KindFacts DEF InQueue
    <3>2. InConn(j, c)' <=> InConn(j, c) \/ j \in ToSet(front) BY <2>10, <2>11 DEF InConn
    <3>3. \A d \in Conns \ {c} : InConn(j, d)' <=> InConn(j, d) BY <2>11 DEF InConn
    <3>4. (Accepted(j)' <=> Accepted(j)) /\ handled'[j] = handled[j] BY <1>1 DEF Accepted
    <3>5. j \in lost' <=> j \in lost \/ j \in ToSet(back) BY <2>6
    <3>6. InQueue(j) <=> j \in ToSet(front) \/ j \in ToSet(back) BY <2>2, <2>5
    <3>7. ~(j \in ToSet(front) /\ j \in ToSet(back)) BY <2>5
    <3>8. OnePlace(j) OBVIOUS
    <3> QED BY <3>1, <3>2, <3>3, <3>4, <3>5, <3>6, <3>7, <3>8 DEF OnePlace
  <2> QED BY <2>13, <2>15, <2>16, <2>17, <2>18
<1> QED BY <1>3, <1>4

\* Every step keeps the invariant on items.
LEMMA ItemStep == ItemInv /\ [Next]_vars => ItemInv'
<1> SUFFICES ASSUME ItemInv, [Next]_vars PROVE ItemInv'
  OBVIOUS
<1>1. CASE UNCHANGED <<queue, conn, sender, hub, itemVars>>
  BY <1>1, NothingMoves DEF ItemInv, ItemTypes, itemVars
<1>2. ASSUME NEW i \in Items, Assign(i) \/ SenderStep(i) PROVE ItemInv'
  BY <1>2, AssignKeeps, PushKeeps, GetQueueKeeps, EnqueueKeeps DEF SenderStep
<1>3. CASE CleanupSlaveQueues BY <1>3, CleanupKeeps
<1>4. ASSUME NEW c \in Conns, ConnStep(c) \/ Break(c) PROVE ItemInv'
  BY <1>4, ConnsKeep, DrainKeeps, WritePumpKeeps DEF ConnStep
<1>5. CASE ClientStep
  <2>1. CASE Start BY <1>1, <2>1 DEF Start, masterVars
  <2>2. CASE DialWS BY <2>2, ConnsKeep
  <2>3. CASE ReadAck BY <1>1, <2>3 DEF ReadAck, masterVars
  <2>4. CASE Connect BY <1>1, <2>4 DEF Connect, masterVars
  <2>5. CASE ClientRegister BY <1>1, <2>5 DEF ClientRegister
  <2>6. CASE LoopReturns BY <1>1, <2>6 DEF LoopReturns, masterVars
  <2>7. CASE WSReadPump BY <1>1, <2>7 DEF WSReadPump, masterVars
  <2> QED BY <1>5, <2>1, <2>2, <2>3, <2>4, <2>5, <2>6, <2>7 DEF ClientStep
<1>6. CASE Heartbeat BY <1>6, HeartbeatKeeps
<1>7. CASE Poll BY <1>7, PollKeeps
<1>8. CASE Disconnect BY <1>1, <1>8 DEF Disconnect
<1>14. CASE DisconnectWS BY <1>14, ConnsKeep
<1>9. CASE NewProcess BY <1>9, ConnsKeep
<1>10. CASE MasterRestart BY <1>10, MasterRestartKeeps
<1>11. ASSUME NEW r \in Results, SendResult(r) PROVE ItemInv'
  BY <1>1, <1>11 DEF SendResult, masterVars
<1>12. ASSUME NEW h \in Holders, ResultStep(h) PROVE ItemInv'
  BY <1>1, <1>12 DEF ResultStep, TakeResult, SendDirect, Buffer, DropOldest, BlockedSend, masterVars
<1>13. CASE UNCHANGED vars BY <1>1, <1>13 DEF vars, masterVars
<1> QED BY <1>2, <1>3, <1>4, <1>5, <1>6, <1>7, <1>8, <1>9, <1>10, <1>11, <1>12, <1>13, <1>14 DEF Next

\* The invariant holds initially.
LEMMA ItemInit == Init => ItemInv
<1> SUFFICES ASSUME Init PROVE ItemInv
  OBVIOUS
<1>1. \A k \in Kinds : queue[k] = NoQueue /\ queue[k].items = <<>> BY DEF Init, NoQueue
<1>2. \A c \in Conns : conn[c].send = <<>> BY DEF Init
<1>3. ItemTypes
  <2>1. queue \in [Kinds -> QueueType] BY EmptyFacts DEF Init, NoQueue, QueueType
  <2>2. conn \in [Conns -> ConnType] BY EmptyFacts DEF Init, ConnType
  <2> QED BY <2>1, <2>2 DEF Init, ItemTypes, SenderType
<1>4. WithinCapacity BY <1>1, <1>2, EmptyFacts, CapAssumption DEF WithinCapacity
<1>5. OwnKind /\ NoDuplicates BY <1>1, <1>2, EmptyFacts DEF OwnKind, NoDuplicates
<1>6. ASSUME NEW i \in Items PROVE OnePlace(i)
  <2>1. ~InQueue(i) /\ \A c \in Conns : ~InConn(i, c)
    BY <1>1, <1>2, EmptyFacts, KindFacts DEF InQueue, InConn
  <2>2. handled[i] = 0 /\ lost = {} /\ sender[i].pc = "idle" BY DEF Init
  <2> QED BY <2>1, <2>2 DEF OnePlace, Accepted
<1> QED BY <1>3, <1>4, <1>5, <1>6 DEF ItemInv

\* An accepted task or command is in exactly one place and there once, whatever
\* the order of pushes, polls, heartbeats, clean-ups and restarts (handlers.go,
\* slave_ws.go): nothing is delivered twice, and what is lost is lost where the
\* model says so.
THEOREM ExactlyOnceTheorem == Spec => []ExactlyOnce
BY ItemInit, ItemStep, ItemInvImplies, PTL DEF Spec

\* No queue and no send buffer ever holds more than its channel has places for.
THEOREM CapacityTheorem == Spec => []WithinCapacity
<1>1. ItemInv => WithinCapacity BY DEF ItemInv
<1> QED BY <1>1, ItemInit, ItemStep, PTL DEF Spec

-----------------------------------------------------------------------------
(* Results.                                                                  *)

HolderPcs == {"off", "take", "send", "buffer", "full", "block", "done", "gone"}
Carrying == {"send", "buffer", "full", "block"}
HolderType == [pc : HolderPcs, has : Results \cup {0}]

\* The types of what the slave keeps of the results; the buffer has BufferCap places.
ResultTypes ==
    /\ holder \in [Holders -> HolderType]
    /\ buf \in Seq(Results) /\ Len(buf) <= BufferCap

\* A goroutine has a result in hand exactly while it is busy with it.
InHand == \A h \in Holders : holder[h].has # 0 <=> holder[h].pc \in Carrying

\* The slave has a copy of the result.
HasCopy(r) == r \in ToSet(buf) \/ \E h \in Holders : holder[h].has = r

\* The slave never has two copies of a result: not twice in the buffer, not in
\* the hands of two goroutines, and not in both.
OneCopy ==
    /\ IsInjective(buf)
    /\ \A g, h \in Holders : holder[g].has # 0 /\ holder[g].has = holder[h].has => g = h
    /\ \A h \in Holders : holder[h].has \notin ToSet(buf)

\* A result whose task is running has no copy and was not delivered; one that
\* was dropped or handed to the write pump has no copy any more.
Tracked(r) ==
    /\ holder[r].pc # "off" => r \in received \cup handedOver \cup dropped \/ HasCopy(r)
    /\ holder[r].pc = "off" => r \notin received \cup handedOver \cup dropped /\ ~HasCopy(r)
    /\ r \in handedOver \cup dropped => ~HasCopy(r)

ResultInv == ResultTypes /\ InHand /\ OneCopy /\ \A r \in Results : Tracked(r)

\* What the steps rest on: results are not 0, and are in the domain of holder.
LEMMA ResultFacts ==
    /\ 0 \notin Results /\ Results \subseteq Holders
    /\ \A h \in Pollers : h \in Holders /\ h \notin Results
    /\ BufferCap \in Nat
BY ResultAssumption, CapAssumption DEF Holders

\* What ResultKept says, from the invariant.
LEMMA ResultInvImplies == ASSUME ResultInv PROVE ResultKept
BY ResultFacts DEF ResultInv, Tracked, HasCopy, ResultKept, BufferedOrHeld

\* What Hold does.
LEMMA HoldFacts ==
    ASSUME ResultInv, NEW h \in Holders, NEW pc \in HolderPcs, NEW x \in Results \cup {0}, Hold(h, pc, x)
    PROVE  /\ holder' \in [Holders -> HolderType]
           /\ holder'[h].pc = pc /\ holder'[h].has = x
           /\ \A g \in Holders \ {h} : holder'[g].pc = holder[g].pc /\ holder'[g].has = holder[g].has
<1>1. [pc |-> pc, has |-> x] \in HolderType BY DEF HolderType
<1>2. holder' = [holder EXCEPT ![h] = [pc |-> pc, has |-> x]] BY DEF Hold
<1> QED BY <1>1, <1>2 DEF ResultInv, ResultTypes

\* The state that follows a carried result is not one of carrying, and not off.
LEMMA AfterFacts == \A h : After(h) \in HolderPcs /\ After(h) \notin Carrying /\ After(h) # "off"
BY DEF After, HolderPcs, Carrying

\* A poll loop is started.
LEMMA RegisterKeepsResults == ASSUME ResultInv, ClientRegister PROVE ResultInv'
<1> USE DEF ResultInv
<1>1. UNCHANGED <<buf, received, dropped, handedOver>> BY DEF ClientRegister
<1>2. CASE UNCHANGED holder
  BY <1>1, <1>2 DEF ResultTypes, InHand, OneCopy, Tracked, HasCopy
<1>3. CASE \E h \in Fresh : holder' = [holder EXCEPT ![h].pc = "take"]
  <2>1. PICK h \in Pollers : holder[h].pc = "off" /\ holder' = [holder EXCEPT ![h].pc = "take"]
    BY <1>3 DEF Fresh
  <2>2. h \in Holders /\ h \notin Results BY ResultFacts
  <2>3. /\ holder' \in [Holders -> HolderType]
        /\ \A g \in Holders : holder'[g].has = holder[g].has
        /\ \A g \in Holders \ {h} : holder'[g].pc = holder[g].pc
        /\ holder'[h].pc = "take"
    BY <2>1, <2>2 DEF ResultTypes, HolderType, HolderPcs
  <2>4. ResultTypes' BY <1>1, <2>3 DEF ResultTypes
  <2>5. InHand' BY <2>1, <2>2, <2>3 DEF InHand, Carrying
  <2>6. OneCopy' BY <1>1, <2>3 DEF OneCopy
  <2>7. \A r \in Results : Tracked(r)' BY <1>1, <2>2, <2>3, ResultFacts DEF Tracked, HasCopy
  <2> QED BY <2>4, <2>5, <2>6, <2>7
<1> QED BY <1>2, <1>3 DEF ClientRegister

\* The task handler of the slave: the write pump has the result or has refused it,
\* or its goroutine goes on with it.
LEMMA SendResultKeeps == ASSUME ResultInv, NEW r \in Results, SendResult(r) PROVE ResultInv'
<1> USE DEF ResultInv
<1>1. UNCHANGED <<buf, received>> /\ holder[r].pc = "off" BY DEF SendResult
<1>2. r \in Holders /\ r # 0 /\ 0 \notin Results BY ResultFacts
<1>3. Tracked(r) /\ ~HasCopy(r) /\ holder[r].has = 0 BY <1>1, <1>2 DEF Tracked, InHand, Carrying
<1>4. CASE /\ \/ handedOver' = handedOver \cup {r} /\ UNCHANGED dropped
              \/ dropped' = dropped \cup {r} /\ UNCHANGED handedOver
           /\ Hold(r, "done", 0)
  <2>1. /\ holder' \in [Holders -> HolderType] /\ holder'[r].pc = "done" /\ holder'[r].has = 0
        /\ \A g \in Holders \ {r} : holder'[g].pc = holder[g].pc /\ holder'[g].has = holder[g].has
    BY <1>2, <1>4, HoldFacts DEF HolderPcs
  <2>2. ResultTypes' BY <1>1, <2>1 DEF ResultTypes
  <2>3. InHand' BY <2>1 DEF InHand, Carrying
  <2>4. \A g \in Holders : holder'[g].has = holder[g].has BY <1>3, <2>1
  <2>5. OneCopy' BY <1>1, <2>4 DEF OneCopy
  <2>6. \A q \in Results : HasCopy(q)' <=> HasCopy(q) BY <1>1, <2>4 DEF HasCopy
  <2>7. \A q \in Results : Tracked(q)'
    <3>1. handedOver' \cup dropped' = handedOver \cup dropped \cup {r} BY <1>4
    <3> QED BY <1>1, <1>2, <1>3, <2>1, <2>6, <3>1, ResultFacts DEF Tracked
  <2> QED BY <2>2, <2>3, <2>5, <2>7
<1>5. CASE Hold(r, "send", r) /\ UNCHANGED <<dropped, handedOver>>
  <2>1. /\ holder' \in [Holders -> HolderType] /\ holder'[r].pc = "send" /\ holder'[r].has = r
        /\ \A g \in Holders \ {r} : holder'[g].pc = holder[g].pc /\ holder'[g].has = holder[g].has
    BY <1>2, <1>5, HoldFacts DEF HolderPcs
  <2>2. ResultTypes' BY <1>1, <2>1 DEF ResultTypes
  <2>3. InHand' BY <1>2, <2>1 DEF InHand, Carrying
  <2>4. OneCopy' BY <1>1, <1>2, <1>3, <2>1 DEF OneCopy, HasCopy
  <2>5. \A q \in Results : HasCopy(q)' <=> HasCopy(q) \/ q = r
    BY <1>1, <1>2, <1>3, <2>1 DEF HasCopy
  <2>6. \A q \in Results : Tracked(q)' BY <1>1, <1>2, <1>3, <1>5, <2>1, <2>5, ResultFacts DEF Tracked
  <2> QED BY <2>2, <2>3, <2>4, <2>6
<1> QED BY <1>4, <1>5 DEF SendResult

\* sendBufferedResults takes the oldest result into its hands.
LEMMA TakeResultKeeps == ASSUME ResultInv, NEW h \in Holders, TakeResult(h) PROVE ResultInv'
<1> USE DEF ResultInv
<1>1. UNCHANGED <<received, dropped, handedOver>> /\ holder[h].pc = "take" /\ buf # <<>> /\ buf' = Tail(buf)
  BY DEF TakeResult
<1>2. PICK y : y = Head(buf) OBVIOUS
<1>3. /\ y \in Results /\ y \in ToSet(buf) /\ buf' \in Seq(Results)
      /\ Len(buf') = Len(buf) - 1 /\ Len(buf) > 0 /\ Len(buf) \in Nat
      /\ ToSet(buf) = ToSet(buf') \cup {y} /\ IsInjective(buf') /\ y \notin ToSet(buf')
  BY <1>1, <1>2, TailFacts DEF ResultTypes, OneCopy
<1>4. y # 0 /\ 0 \notin Results BY <1>3, ResultFacts
<1>5. holder[h].has = 0 BY <1>1 DEF InHand, Carrying
<1>6. /\ holder' \in [Holders -> HolderType] /\ holder'[h].pc = "send" /\ holder'[h].has = y
      /\ \A g \in Holders \ {h} : holder'[g].pc = holder[g].pc /\ holder'[g].has = holder[g].has
  <2>1. Hold(h, "send", y) BY <1>2 DEF TakeResult
  <2> QED BY <1>3, <2>1, HoldFacts DEF HolderPcs
<1>7. ResultTypes'
  <2>1. Len(buf') <= BufferCap BY <1>3, ResultFacts DEF ResultTypes
  <2> QED BY <1>3, <1>6, <2>1 DEF ResultTypes
<1>8. InHand' BY <1>4, <1>6 DEF InHand, Carrying
<1>9. OneCopy' BY <1>3, <1>4, <1>5, <1>6 DEF OneCopy
<1>10. \A q \in Results : HasCopy(q)' <=> HasCopy(q) BY <1>3, <1>4, <1>5, <1>6 DEF HasCopy
<1>11. \A q \in Results : holder'[q].pc = "off" <=> holder[q].pc = "off" BY <1>1, <1>6, ResultFacts
<1>12. \A q \in Results : Tracked(q)' BY <1>1, <1>10, <1>11 DEF Tracked
<1> QED BY <1>7, <1>8, <1>9, <1>12

\* A goroutine that carries a result has the only copy of it.
LEMMA CarryFacts ==
    ASSUME ResultInv, NEW h \in Holders, holder[h].pc \in Carrying
    PROVE  /\ holder[h].has \in Results /\ holder[h].has # 0
           /\ HasCopy(holder[h].has)
           /\ holder[h].has \notin ToSet(buf)
           /\ \A g \in Holders \ {h} : holder[g].has # holder[h].has
           /\ holder[holder[h].has].pc # "off"
           /\ holder[h].has \notin handedOver \cup dropped
<1> USE DEF ResultInv
<1>1. holder[h].has \in Results \cup {0} BY DEF ResultTypes, HolderType
<1>2. holder[h].has # 0 BY DEF InHand
<1>3. HasCopy(holder[h].has) BY DEF HasCopy
<1>4. Tracked(holder[h].has) BY <1>1, <1>2
<1>5. holder[h].has \notin ToSet(buf) /\ \A g \in Holders \ {h} : holder[g].has # holder[h].has
  BY <1>2 DEF OneCopy
<1> QED BY <1>1, <1>2, <1>3, <1>4, <1>5 DEF Tracked

\* The goroutine lets go of its result, which is received, buffered or dropped.
LEMMA LetGo ==
    ASSUME ResultInv, NEW h \in Holders, holder[h].pc \in Carrying, NEW r, r = holder[h].has,
           Hold(h, After(h), 0), UNCHANGED handedOver,
           \/ received' = received \cup {r} /\ UNCHANGED <<buf, dropped>>
           \/ buf' = Append(buf, r) /\ Len(buf) < BufferCap /\ UNCHANGED <<received, dropped>>
           \/ dropped' = dropped \cup {r} /\ UNCHANGED <<buf, received>>
    PROVE  ResultInv'
<1> USE DEF ResultInv
<1>1. /\ r \in Results /\ r # 0 /\ HasCopy(r) /\ r \notin ToSet(buf)
      /\ \A g \in Holders \ {h} : holder[g].has # r
      /\ holder[r].pc # "off" /\ r \notin handedOver \cup dropped
  BY CarryFacts
<1>2. PICK pc : pc = After(h) OBVIOUS
<1>3. pc \in HolderPcs /\ pc \notin Carrying /\ pc # "off" BY <1>2, AfterFacts
<1>4. /\ holder' \in [Holders -> HolderType] /\ holder'[h].pc = pc /\ holder'[h].has = 0
      /\ \A g \in Holders \ {h} : holder'[g].pc = holder[g].pc /\ holder'[g].has = holder[g].has
  BY <1>2, <1>3, HoldFacts
<1>5. holder[h].pc # "off" BY DEF Carrying
<1>6. \A q \in Results : holder'[q].pc = "off" <=> holder[q].pc = "off" BY <1>3, <1>4, <1>5, ResultFacts
<1>7. InHand' BY <1>3, <1>4 DEF InHand
<1>8. 0 \notin Results /\ buf \in Seq(Results) /\ Len(buf) \in Nat /\ BufferCap \in Nat
  BY ResultFacts DEF ResultTypes
<1>9. 0 \notin ToSet(buf) BY <1>8 DEF ToSet
<1>10. CASE UNCHANGED buf
  <2>1. ResultTypes' BY <1>4, <1>10 DEF ResultTypes
  <2>2. OneCopy' BY <1>4, <1>9, <1>10 DEF OneCopy
  <2>3. \A q \in Results : HasCopy(q)' <=> HasCopy(q) /\ q # r
    BY <1>1, <1>4, <1>8, <1>10 DEF HasCopy
  <2>4. ASSUME NEW q \in Results PROVE Tracked(q)'
    <3>1. Tracked(q) OBVIOUS
    <3>2. CASE received' = received \cup {r} /\ UNCHANGED dropped
      BY <1>1, <1>6, <2>3, <3>1, <3>2 DEF Tracked
    <3>3. CASE dropped' = dropped \cup {r} /\ UNCHANGED received
      BY <1>1, <1>6, <2>3, <3>1, <3>3 DEF Tracked
    <3>4. CASE buf' = Append(buf, r)
      <4>1. Len(buf') = Len(buf) + 1 BY <1>1, <1>8, <3>4, AppendFacts
      <4> QED BY <1>8, <1>10, <4>1
    <3> QED BY <3>2, <3>3, <3>4
  <2> QED BY <1>7, <2>1, <2>2, <2>4
<1>11. CASE buf' = Append(buf, r) /\ Len(buf) < BufferCap /\ UNCHANGED <<received, dropped>>
  <2>1. /\ buf' \in Seq(Results) /\ Len(buf') = Len(buf) + 1
        /\ ToSet(buf') = ToSet(buf) \cup {r} /\ IsInjective(buf')
    BY <1>1, <1>8, <1>11, AppendFacts DEF OneCopy
  <2>2. ResultTypes'
    <3>1. Len(buf') <= BufferCap BY <1>8, <1>11, <2>1
    <3> QED BY <1>4, <2>1, <3>1 DEF ResultTypes
  <2>3. OneCopy' BY <1>1, <1>4, <1>9, <2>1 DEF OneCopy
  <2>4. \A q \in Results : HasCopy(q)' <=> HasCopy(q)
    BY <1>1, <1>4, <1>8, <2>1 DEF HasCopy
  <2>5. \A q \in Results : Tracked(q)' BY <1>6, <1>11, <2>4 DEF Tracked
  <2> QED BY <1>7, <2>2, <2>3, <2>5
<1> QED BY <1>10, <1>11

\* The goroutine goes on with its result in hand, after an attempt that may
\* have reached the master.
LEMMA HoldOn ==
    ASSUME ResultInv, NEW h \in Holders, holder[h].pc \in Carrying, NEW pc \in Carrying,
           Hold(h, pc, holder[h].has), UNCHANGED <<buf, dropped, handedOver>>,
           received' \in {received, received \cup {holder[h].has}}
    PROVE  ResultInv'
<1> USE DEF ResultInv
<1>1. /\ holder[h].has \in Results /\ holder[h].has # 0 /\ HasCopy(holder[h].has)
      /\ holder[holder[h].has].pc # "off"
  BY CarryFacts
<1>2. pc \in HolderPcs /\ pc # "off" /\ holder[h].pc # "off" BY DEF Carrying, HolderPcs
<1>3. /\ holder' \in [Holders -> HolderType] /\ holder'[h].pc = pc /\ holder'[h].has = holder[h].has
      /\ \A g \in Holders \ {h} : holder'[g].pc = holder[g].pc /\ holder'[g].has = holder[g].has
  BY <1>1, <1>2, HoldFacts
<1>4. \A g \in Holders : holder'[g].has = holder[g].has BY <1>3
<1>5. ResultTypes' BY <1>3 DEF ResultTypes
<1>6. InHand' BY <1>1, <1>3 DEF InHand
<1>7. OneCopy' BY <1>4 DEF OneCopy
<1>8. \A q \in Results : HasCopy(q)' <=> HasCopy(q) BY <1>4 DEF HasCopy
<1>9. \A q \in Results : holder'[q].pc = "off" <=> holder[q].pc = "off" BY <1>2, <1>3, ResultFacts
<1>10. \A q \in Results : Tracked(q)' BY <1>1, <1>8, <1>9 DEF Tracked
<1> QED BY <1>5, <1>6, <1>7, <1>10

\* sendTaskResultDirect, and what follows when it fails.
LEMMA SendDirectKeeps == ASSUME ResultInv, NEW h \in Holders, SendDirect(h) PROVE ResultInv'
<1>1. /\ holder[h].pc \in Carrying /\ "buffer" \in Carrying /\ UNCHANGED <<buf, dropped, handedOver>>
      /\ \/ received' = received \cup {holder[h].has} /\ Hold(h, After(h), 0)
         \/ received' \in {received, received \cup {holder[h].has}} /\ Hold(h, "buffer", holder[h].has)
  BY DEF SendDirect, Carrying
<1> QED BY <1>1, LetGo, HoldOn

\* bufferResult, when there is a place and when there is none.
LEMMA BufferKeeps == ASSUME ResultInv, NEW h \in Holders, Buffer(h) PROVE ResultInv'
<1>1. /\ holder[h].pc \in Carrying /\ "full" \in Carrying /\ UNCHANGED <<received, dropped, handedOver>>
      /\ \/ buf' = Append(buf, holder[h].has) /\ Len(buf) < BufferCap /\ Hold(h, After(h), 0)
         \/ UNCHANGED buf /\ Hold(h, "full", holder[h].has)
  BY DEF Buffer, Carrying
<1> QED BY <1>1, LetGo, HoldOn

\* The send that may block.
LEMMA BlockedSendKeeps == ASSUME ResultInv, NEW h \in Holders, BlockedSend(h) PROVE ResultInv'
<1>1. /\ holder[h].pc \in Carrying /\ UNCHANGED <<received, dropped, handedOver>>
      /\ buf' = Append(buf, holder[h].has) /\ Len(buf) < BufferCap /\ Hold(h, After(h), 0)
  BY DEF BlockedSend, Carrying
<1> QED BY <1>1, LetGo

\* The oldest result makes room, or the new one goes.
LEMMA DropOldestKeeps == ASSUME ResultInv, NEW h \in Holders, DropOldest(h) PROVE ResultInv'
<1>1. holder[h].pc \in Carrying /\ UNCHANGED <<received, handedOver>> BY DEF DropOldest, Carrying
<1>2. CASE buf = <<>>
  <2>1. dropped' = dropped \cup {holder[h].has} /\ Hold(h, After(h), 0) /\ UNCHANGED buf
    BY <1>2 DEF DropOldest
  <2> QED BY <1>1, <2>1, LetGo
<1>3. CASE buf # <<>>
  <2> USE DEF ResultInv
  <2>1. dropped' = dropped \cup {Head(buf)} /\ Hold(h, "block", holder[h].has) /\ buf' = Tail(buf)
    BY <1>3 DEF DropOldest
  <2>2. PICK y : y = Head(buf) OBVIOUS
  <2>3. /\ y \in Results /\ y \in ToSet(buf) /\ buf' \in Seq(Results)
        /\ Len(buf') = Len(buf) - 1 /\ Len(buf) > 0 /\ Len(buf) \in Nat
        /\ ToSet(buf) = ToSet(buf') \cup {y} /\ IsInjective(buf') /\ y \notin ToSet(buf')
    BY <1>3, <2>1, <2>2, TailFacts DEF ResultTypes, OneCopy
  <2>4. holder[h].has \in Results /\ holder[h].has # 0 BY <1>1, CarryFacts
  <2>5. /\ holder' \in [Holders -> HolderType] /\ holder'[h].pc = "block" /\ holder'[h].has = holder[h].has
        /\ \A g \in Holders \ {h} : holder'[g].pc = holder[g].pc /\ holder'[g].has = holder[g].has
    BY <2>1, <2>4, HoldFacts DEF HolderPcs
  <2>6. \A g \in Holders : holder'[g].has = holder[g].has BY <2>5
  <2>7. ResultTypes'
    <3>1. Len(buf') <= BufferCap BY <2>3, ResultFacts DEF ResultTypes
    <3> QED BY <2>3, <2>5, <3>1 DEF ResultTypes
  <2>8. InHand' BY <2>4, <2>5 DEF InHand, Carrying
  <2>9. OneCopy' BY <2>3, <2>6 DEF OneCopy
  <2>10. \A g \in Holders : holder[g].has # y BY <2>3 DEF OneCopy
  <2>11. \A q \in Results : HasCopy(q)' <=> HasCopy(q) /\ q # y BY <2>3, <2>6, <2>10 DEF HasCopy
  <2>12. HasCopy(y) BY <2>3 DEF HasCopy
  <2>13. holder[h].pc # "off" BY <1>1 DEF Carrying
  <2>14. \A q \in Results : holder'[q].pc = "off" <=> holder[q].pc = "off" BY <2>5, <2>13, ResultFacts
  <2>15. ASSUME NEW q \in Results PROVE Tracked(q)'
    <3>1. Tracked(q) OBVIOUS
    <3>2. dropped' = dropped \cup {y} BY <2>1, <2>2
    <3> QED BY <1>1, <2>11, <2>12, <2>14, <3>1, <3>2 DEF Tracked
  <2> QED BY <2>7, <2>8, <2>9, <2>15
<1> QED BY <1>2, <1>3

\* The end of the slave's process drops every copy.
LEMMA NewProcessKeeps == ASSUME ResultInv, NewProcess PROVE ResultInv'
<1> USE DEF ResultInv
<1>1. /\ buf' = <<>> /\ dropped' = dropped \cup BufferedOrHeld /\ UNCHANGED <<received, handedOver>>
      /\ holder' = [h \in Holders |->
            [holder[h] EXCEPT !.pc = IF holder[h].pc = "off" THEN holder[h].pc ELSE "gone", !.has = 0]]
  BY DEF NewProcess
<1>2. ASSUME NEW h \in Holders
      PROVE  /\ holder'[h] \in HolderType /\ holder'[h].has = 0
             /\ holder'[h].pc = IF holder[h].pc = "off" THEN "off" ELSE "gone"
  <2>1. holder[h] \in HolderType BY DEF ResultTypes
  <2> QED BY <1>1, <2>1 DEF HolderType, HolderPcs
<1>3. holder' \in [Holders -> HolderType] BY <1>1, <1>2
<1>4. buf' \in Seq(Results) /\ Len(buf') = 0 /\ ToSet(buf') = {} /\ IsInjective(buf')
  BY <1>1, EmptyFacts
<1>5. ResultTypes' BY <1>3, <1>4, ResultFacts DEF ResultTypes
<1>6. InHand' BY <1>2 DEF InHand, Carrying
<1>7. OneCopy' BY <1>2, <1>4 DEF OneCopy
<1>8. \A q \in Results : ~HasCopy(q)' BY <1>2, <1>4, ResultFacts DEF HasCopy
<1>9. \A q \in Results : q \in BufferedOrHeld <=> HasCopy(q)
  BY ResultFacts DEF HasCopy, BufferedOrHeld
<1>10. ASSUME NEW q \in Results PROVE Tracked(q)'
  <2>1. Tracked(q) /\ q \in Holders BY ResultFacts
  <2>2. q \in dropped' <=> q \in dropped \/ HasCopy(q) BY <1>1, <1>9
  <2>3. holder'[q].pc = "off" <=> holder[q].pc = "off" BY <1>2, <2>1
  <2> QED BY <1>1, <1>8, <2>1, <2>2, <2>3 DEF Tracked
<1> QED BY <1>5, <1>6, <1>7, <1>10

\* Every step keeps the invariant on results.
LEMMA ResultInvStep == ResultInv /\ [Next]_vars => ResultInv'
<1> SUFFICES ASSUME ResultInv, [Next]_vars PROVE ResultInv'
  OBVIOUS
<1>1. CASE UNCHANGED resultVars
  BY <1>1 DEF ResultInv, ResultTypes, InHand, OneCopy, Tracked, HasCopy, resultVars
<1>2. ASSUME NEW i \in Items, Assign(i) \/ SenderStep(i) PROVE ResultInv'
  BY <1>1, <1>2 DEF SenderStep, Assign, Push, GetQueue, Enqueue
<1>3. CASE CleanupSlaveQueues BY <1>1, <1>3 DEF CleanupSlaveQueues
<1>4. ASSUME NEW c \in Conns, ConnStep(c) \/ Break(c) PROVE ResultInv'
  BY <1>1, <1>4 DEF ConnStep, WriteAck, HubRegister, DrainPendingToWS, WritePump, ReadPump, Break
<1>5. CASE ClientStep
  BY <1>1, <1>5, RegisterKeepsResults
     DEF ClientStep, Start, DialWS, ReadAck, Connect, LoopReturns, WSReadPump
<1>6. CASE Heartbeat \/ Poll \/ Disconnect \/ DisconnectWS \/ MasterRestart
  BY <1>1, <1>6 DEF Heartbeat, Poll, Disconnect, DisconnectWS, MasterRestart
<1>7. CASE NewProcess BY <1>7, NewProcessKeeps
<1>8. ASSUME NEW r \in Results, SendResult(r) PROVE ResultInv' BY <1>8, SendResultKeeps
<1>9. ASSUME NEW h \in Holders, ResultStep(h) PROVE ResultInv'
  BY <1>9, TakeResultKeeps, SendDirectKeeps, BufferKeeps, DropOldestKeeps, BlockedSendKeeps DEF ResultStep
<1>10. CASE UNCHANGED vars BY <1>1, <1>10 DEF vars
<1> QED BY <1>2, <1>3, <1>4, <1>5, <1>6, <1>7, <1>8, <1>9, <1>10 DEF Next

\* The invariant holds initially.
LEMMA ResultInit == Init => ResultInv
<1> SUFFICES ASSUME Init PROVE ResultInv
  OBVIOUS
<1>1. holder = [h \in Holders |-> Idle] /\ buf = <<>> /\ received = {} /\ dropped = {} /\ handedOver = {}
  BY DEF Init
<1>2. Idle \in HolderType /\ Idle.pc = "off" /\ Idle.has = 0 BY DEF Idle, HolderType, HolderPcs
<1>3. buf \in Seq(Results) /\ Len(buf) = 0 /\ ToSet(buf) = {} /\ IsInjective(buf) BY <1>1, EmptyFacts
<1>4. ResultTypes BY <1>1, <1>2, <1>3, ResultFacts DEF ResultTypes
<1>5. \A h \in Holders : holder[h].pc = "off" /\ holder[h].has = 0 BY <1>1, <1>2
<1>6. InHand BY <1>5 DEF InHand, Carrying
<1>7. OneCopy BY <1>3, <1>5 DEF OneCopy
<1>8. \A r \in Results : ~HasCopy(r) BY <1>3, <1>5, ResultFacts DEF HasCopy
<1>9. \A r \in Results : Tracked(r) BY <1>1, <1>5, <1>8, ResultFacts DEF Tracked
<1> QED BY <1>4, <1>6, <1>7, <1>9 DEF ResultInv

\* No result disappears between the task that made it and the master (client.go):
\* it was received or handed to the write pump, the slave has it, or it was dropped
\* by the full result buffer, by the full send buffer of the WebSocket, or with the
\* process.
THEOREM ResultKeptTheorem == Spec => []ResultKept
BY ResultInit, ResultInvStep, ResultInvImplies, PTL DEF Spec

\* The retries of bufferResult and sendBufferedResults never multiply a result:
\* the slave has at most one copy, in one place, however many loops ship.
THEOREM OneCopyTheorem == Spec => []OneCopy
<1>1. ResultInv => OneCopy BY DEF ResultInv
<1> QED BY <1>1, ResultInit, ResultInvStep, PTL DEF Spec

\* The result buffer never holds more than BufferCap results, also when the send
\* after the drop of the oldest one had to wait.
THEOREM BufferTheorem == Spec => [](Len(buf) <= BufferCap)
<1>1. ResultInv => Len(buf) <= BufferCap BY DEF ResultInv, ResultTypes
<1> QED BY <1>1, ResultInit, ResultInvStep, PTL DEF Spec

-----------------------------------------------------------------------------
(* The registry, which SlaveLink reduces to one bit.  Its invariants are     *)
(* inductive together: an event is true of the registry because the maps     *)
(* agree and because every change of a state is notified in the step that    *)
(* makes it.                                                                 *)

\* Nothing has been put into the channel of a watcher that has not subscribed.
Untold == \A w \in Watchers : watcher[w] = "none" => \A s \in Slaves : told[w][s] = "none"

RegistryInv == RegistryTypeOK /\ MapsAgree /\ EventsTellState /\ Untold

\* What notifyEvent leaves behind: the types, and for every watcher that has
\* not missed the event the event itself.
LEMMA Notified ==
    ASSUME RegistryTypeOK, NEW s \in Slaves, NEW ev \in Events, notifyEvent(s, ev)
    PROVE  /\ watcher' = watcher
           /\ pending' \in [Watchers -> 0 .. Capacity]
           /\ told' \in [Watchers -> [Slaves -> Events \cup {"none"}]]
           /\ missed' \in [Watchers -> SUBSET Slaves]
           /\ \A w \in subscribers : s \notin missed'[w] => told'[w][s] = ev
           /\ \A w \in subscribers : \A t \in Slaves \ {s} :
                t \notin missed'[w] => t \notin missed[w] /\ told'[w][t] = told[w][t]
           /\ \A w \in Watchers \ subscribers : told'[w] = told[w]
           /\ Untold => Untold'
<1> USE NumbersAssumption
<1> DEFINE room == {w \in subscribers : pending[w] < Capacity}
<1>1. watcher' = watcher BY DEF notifyEvent
<1>2. pending' \in [Watchers -> 0 .. Capacity]
  BY DEF notifyEvent, RegistryTypeOK, subscribers
<1>3. told' \in [Watchers -> [Slaves -> Events \cup {"none"}]]
  BY DEF notifyEvent, RegistryTypeOK, subscribers
<1>4. missed' \in [Watchers -> SUBSET Slaves]
  BY DEF notifyEvent, RegistryTypeOK, subscribers
<1>5. \A w \in subscribers : s \notin missed'[w] => told'[w][s] = ev
  BY DEF notifyEvent, RegistryTypeOK, subscribers
<1>6. \A w \in subscribers : \A t \in Slaves \ {s} :
         t \notin missed'[w] => t \notin missed[w] /\ told'[w][t] = told[w][t]
  BY DEF notifyEvent, RegistryTypeOK, subscribers
<1>7. \A w \in Watchers \ subscribers : told'[w] = told[w]
  BY DEF notifyEvent, subscribers
<1>8. Untold => Untold'
  BY <1>1, <1>7 DEF Untold, subscribers
<1> QED BY <1>1, <1>2, <1>3, <1>4, <1>5, <1>6, <1>7, <1>8

\* A step that changes the status of one slave and notifies an event that says
\* so keeps the events true.
LEMMA EventStep ==
    ASSUME RegistryTypeOK, EventsTellState, NEW s \in Slaves, NEW ev \in Events,
           notifyEvent(s, ev),
           \A t \in Slaves \ {s} : status'[t] = status[t] /\ (t \in slaves' <=> t \in slaves),
           Says(ev, s)'
    PROVE  EventsTellState'
<1> SUFFICES ASSUME NEW w \in subscribers, NEW t \in Slaves, t \notin missed'[w]
             PROVE  Says(told[w][t], t)'
  BY Notified DEF EventsTellState, subscribers
<1>1. CASE t = s
  <2>1. told'[w][s] = ev BY <1>1, Notified
  <2> QED BY <1>1, <2>1 DEF Says
<1>2. CASE t # s
  <2>1. t \notin missed[w] /\ told'[w][t] = told[w][t] BY <1>2, Notified
  <2>2. Says(told[w][t], t) BY <2>1 DEF EventsTellState
  <2>3. status'[t] = status[t] /\ (t \in slaves' <=> t \in slaves) BY <1>2
  <2> QED BY <2>1, <2>2, <2>3 DEF Says
<1> QED BY <1>1, <1>2

\* UpdateStatus keeps the three invariants, as far as they speak of registry
\* and events.
LEMMA Updated ==
    ASSUME RegistryInv, NEW s \in Slaves, NEW state \in States, NEW seen \in 0 .. MaxTime,
           UpdateStatus(s, state, seen)
    PROVE  /\ slaves' \subseteq Slaves
           /\ status' \in [Slaves -> States \cup {NoStatus}]
           /\ lastSeen' \in [Slaves -> 0 .. MaxTime]
           /\ watcher' = watcher
           /\ pending' \in [Watchers -> 0 .. Capacity]
           /\ told' \in [Watchers -> [Slaves -> Events \cup {"none"}]]
           /\ missed' \in [Watchers -> SUBSET Slaves]
           /\ MapsAgree' /\ EventsTellState' /\ Untold'
<1> USE DEF RegistryInv
<1>1. CASE s \notin slaves
  <2>1. UNCHANGED <<regVars, eventVars>> BY <1>1 DEF UpdateStatus
  <2> QED BY <2>1 DEF RegistryTypeOK, MapsAgree, EventsTellState, Untold, Says,
          subscribers, regVars, eventVars
<1>2. CASE s \in slaves
  <2>1. /\ status' = [status EXCEPT ![s] = state]
        /\ lastSeen' = [lastSeen EXCEPT ![s] = seen]
        /\ slaves' = slaves
    BY <1>2 DEF UpdateStatus
  <2>2. state # NoStatus BY DEF States, Reported, NoStatus
  <2>3. MapsAgree' BY <1>2, <2>1, <2>2 DEF MapsAgree, RegistryTypeOK
  <2>4. /\ slaves' \subseteq Slaves
        /\ status' \in [Slaves -> States \cup {NoStatus}]
        /\ lastSeen' \in [Slaves -> 0 .. MaxTime]
    BY <2>1 DEF RegistryTypeOK
  <2>5. CASE status[s] = state
    <3>1. UNCHANGED eventVars BY <1>2, <2>5 DEF UpdateStatus
    <3>2. status' = status BY <2>1, <2>5 DEF RegistryTypeOK
    <3> QED BY <2>1, <2>3, <2>4, <3>1, <3>2
            DEF RegistryTypeOK, EventsTellState, Untold, Says, subscribers,
            eventVars
  <2>6. CASE status[s] # state
    <3>1. notifyEvent(s, StateEvent(state)) BY <1>2, <2>6 DEF UpdateStatus
    <3>2. StateEvent(state) \in Events BY DEF StateEvent, Events
    <3>3. status'[s] = state BY <2>1 DEF RegistryTypeOK
    <3>4. Says(StateEvent(state), s)'
      BY <3>3 DEF Says, StateEvent, States, Reported
    <3>5. \A t \in Slaves \ {s} : status'[t] = status[t] /\ (t \in slaves' <=> t \in slaves)
      BY <2>1 DEF RegistryTypeOK
    <3>6. EventsTellState' BY <3>1, <3>2, <3>4, <3>5, EventStep
    <3> QED BY <2>3, <2>4, <3>1, <3>2, <3>6, Notified
  <2> QED BY <2>5, <2>6
<1> QED BY <1>1, <1>2

\* The invariants hold initially and every step keeps them.
THEOREM RegistryInductive == RegistrySpec => []RegistryInv
<1> USE NumbersAssumption
<1>1. RegistryInit => RegistryInv
  BY DEF RegistryInit, RegistryInv, RegistryTypeOK, MapsAgree, EventsTellState, Untold,
          Says, subscribers, Targets, NoCheck,
         Nobody, NoStatus, States, Reported, Events
<1>2. RegistryInv /\ [RegistryNext]_registryVars => RegistryInv'
  <2> SUFFICES ASSUME RegistryInv, [RegistryNext]_registryVars PROVE RegistryInv'
    OBVIOUS
  <2> USE DEF RegistryInv
  <2>1. ASSUME regVars' = regVars, eventVars' = eventVars
        PROVE  MapsAgree' /\ EventsTellState' /\ Untold'
    BY <2>1 DEF MapsAgree, EventsTellState, Untold, Says, subscribers,
            regVars, eventVars
  <2>2. CASE UNCHANGED registryVars
    BY <2>1, <2>2 DEF RegistryTypeOK, registryVars, regVars, eventVars
  <2>3. CASE Tick
    BY <2>1, <2>3 DEF Tick, RegistryTypeOK, regVars, eventVars
  <2>4. ASSUME NEW s \in Slaves, Register(s) PROVE RegistryInv'
    <3>1. notifyEvent(s, "registered") /\ "registered" \in Events
      BY <2>4 DEF Register, Events
    <3>2. /\ slaves' = slaves \cup {s}
          /\ status' = [status EXCEPT ![s] = "online"]
          /\ lastSeen' = [lastSeen EXCEPT ![s] = clock]
          /\ UNCHANGED <<clock, beats, chk>>
      BY <2>4 DEF Register
    <3>3. RegistryTypeOK' BY <3>1, <3>2, Notified DEF RegistryTypeOK, States, Reported
    <3>4. MapsAgree' BY <3>2 DEF MapsAgree, RegistryTypeOK, NoStatus
    <3>5. status'[s] = "online" BY <3>2 DEF RegistryTypeOK
    <3>6. Says("registered", s)' BY <3>5 DEF Says
    <3>7. EventsTellState' BY <3>1, <3>2, <3>6, EventStep DEF RegistryTypeOK
    <3>8. Untold' BY <3>1, Notified
    <3> QED BY <3>3, <3>4, <3>7, <3>8
  <2>5. ASSUME NEW s \in Slaves, Unregister(s) PROVE RegistryInv'
    <3>1. notifyEvent(s, "unregistered") /\ "unregistered" \in Events
      BY <2>5 DEF Unregister, Events
    <3>2. /\ slaves' = slaves \ {s}
          /\ status' = [status EXCEPT ![s] = NoStatus]
          /\ lastSeen' = [lastSeen EXCEPT ![s] = 0]
          /\ UNCHANGED <<clock, beats, chk>>
      BY <2>5 DEF Unregister
    <3>3. RegistryTypeOK' BY <3>1, <3>2, Notified DEF RegistryTypeOK
    <3>4. MapsAgree' BY <3>2 DEF MapsAgree, RegistryTypeOK
    <3>6. Says("unregistered", s)' BY <3>2 DEF Says
    <3>7. EventsTellState' BY <3>1, <3>2, <3>6, EventStep DEF RegistryTypeOK
    <3>8. Untold' BY <3>1, Notified
    <3> QED BY <3>3, <3>4, <3>7, <3>8
  <2>6. ASSUME NEW s \in Slaves, DrainSlave(s) PROVE RegistryInv'
    <3>1. notifyEvent(s, "updated") /\ "updated" \in Events
      BY <2>6 DEF DrainSlave, Events
    <3>2. /\ status' = [status EXCEPT ![s] = "draining"] /\ s \in slaves
          /\ UNCHANGED <<clock, slaves, lastSeen, beats, chk>>
      BY <2>6 DEF DrainSlave
    <3>3. RegistryTypeOK' BY <3>1, <3>2, Notified DEF RegistryTypeOK, States
    <3>4. MapsAgree' BY <3>2 DEF MapsAgree, RegistryTypeOK, NoStatus
    <3>5. status'[s] = "draining" BY <3>2 DEF RegistryTypeOK
    <3>6. Says("updated", s)' BY <3>5 DEF Says
    <3>7. EventsTellState' BY <3>1, <3>2, <3>6, EventStep DEF RegistryTypeOK
    <3>8. Untold' BY <3>1, Notified
    <3> QED BY <3>3, <3>4, <3>7, <3>8
  <2>7. ASSUME NEW s \in Slaves, NEW state \in Reported, ReceiveHeartbeat(s,
          state) PROVE RegistryInv'
    BY <2>1, <2>7 DEF ReceiveHeartbeat, InFlight, RegistryTypeOK, regVars,
            eventVars
  <2>14. ASSUME NEW s \in Slaves, handleMessage(s) PROVE RegistryInv'
    BY <2>1, <2>14 DEF handleMessage, InFlight, RegistryTypeOK, Reported,
            regVars, eventVars
  <2>8. ASSUME NEW b \in beats, ApplyHeartbeat(b) PROVE RegistryInv'
    <3>1. b.slave \in Slaves /\ b.state \in States /\ b.seen \in 0 .. MaxTime
      BY <2>8 DEF RegistryTypeOK, States
    <3>2. UpdateStatus(b.slave, b.state, b.seen) /\ beats' = beats \ {b} /\ UNCHANGED <<clock, chk>>
      BY <2>8 DEF ApplyHeartbeat
    <3> QED BY <3>1, <3>2, Updated DEF RegistryTypeOK
  <2>9. CASE checkSlaveHealth
    <3>1. CASE ListSlaves
      BY <2>1, <3>1 DEF ListSlaves, RegistryTypeOK, Targets, regVars,
              eventVars
    <3>2. ASSUME NEW s \in Slaves, ReadStatus(s) PROVE RegistryInv'
      <4>1. [mark |-> TRUE, slave |-> s,
              seen |-> lastSeen[s]] \in Targets /\ Nobody \in Targets
        BY DEF RegistryTypeOK, Targets
      <4>2. chk' \in [on : BOOLEAN, now : 0 .. MaxTime, todo : SUBSET Slaves, target : Targets]
        BY <3>2, <4>1 DEF ReadStatus, RegistryTypeOK
      <4> QED BY <2>1, <3>2, <4>2 DEF ReadStatus, RegistryTypeOK, regVars, eventVars
    <3>3. CASE MarkOverdue
      <4>1. chk.target \in Targets /\ chk.target # Nobody BY <3>3 DEF MarkOverdue, RegistryTypeOK
      <4>2. chk.target.slave \in Slaves /\ chk.target.seen \in 0 .. MaxTime
        BY <4>1 DEF Targets
      <4>3. "offline" \in States BY DEF States, Reported
      <4>4. UpdateStatus(chk.target.slave, "offline", chk.target.seen)
        BY <3>3 DEF MarkOverdue
      <4>5. /\ chk' \in [on : BOOLEAN, now : 0 .. MaxTime, todo : SUBSET Slaves, target : Targets]
            /\ UNCHANGED <<clock, beats>>
        BY <3>3 DEF MarkOverdue, RegistryTypeOK, Targets
      <4> QED BY <4>2, <4>3, <4>4, <4>5, Updated DEF RegistryTypeOK
    <3>4. CASE EndCheck
      BY <2>1, <3>4 DEF EndCheck, NoCheck, RegistryTypeOK, Targets,
              regVars, eventVars
    <3> QED BY <2>9, <3>1, <3>2, <3>3, <3>4 DEF checkSlaveHealth
  <2>10. ASSUME NEW w \in Watchers, WatchSlaves(w) PROVE RegistryInv'
    <3>1. RegistryTypeOK' BY <2>10 DEF WatchSlaves, Subscription, RegistryTypeOK, regVars
    <3>2. MapsAgree' BY <2>10 DEF WatchSlaves, MapsAgree, regVars
    <3>3. EventsTellState'
      BY <2>10 DEF WatchSlaves, Subscription, RegistryTypeOK, EventsTellState, Untold,
              Says, subscribers, regVars
    <3>4. Untold' BY <2>10 DEF WatchSlaves, Subscription, RegistryTypeOK, Untold
    <3> QED BY <3>1, <3>2, <3>3, <3>4
  <2>11. ASSUME NEW w \in Watchers, TakeEvent(w) PROVE RegistryInv'
    <3>1. RegistryTypeOK' BY <2>11 DEF TakeEvent, RegistryTypeOK, regVars
    <3>2. MapsAgree' /\ EventsTellState' /\ Untold'
      BY <2>11 DEF TakeEvent, MapsAgree, EventsTellState, Untold, Says,
              subscribers, regVars
    <3> QED BY <3>1, <3>2
  <2>12. ASSUME NEW w \in Watchers, removeSubscriber(w) PROVE RegistryInv'
    <3>1. RegistryTypeOK' BY <2>12 DEF removeSubscriber, Subscription, RegistryTypeOK,
            regVars
    <3>2. MapsAgree' BY <2>12 DEF removeSubscriber, MapsAgree, regVars
    <3>3. EventsTellState'
      BY <2>12 DEF removeSubscriber, Subscription, RegistryTypeOK, EventsTellState,
              Says, subscribers, regVars
    <3>4. Untold' BY <2>12 DEF removeSubscriber, Subscription, RegistryTypeOK, Untold
    <3> QED BY <3>1, <3>2, <3>3, <3>4
  <2>13. ASSUME NEW w \in Watchers, CloseChannel(w) PROVE RegistryInv'
    <3>1. RegistryTypeOK' BY <2>13 DEF CloseChannel, Subscription, RegistryTypeOK, regVars
    <3>2. MapsAgree' BY <2>13 DEF CloseChannel, MapsAgree, regVars
    <3>3. EventsTellState'
      BY <2>13 DEF CloseChannel, Subscription, RegistryTypeOK, EventsTellState,
              Says, subscribers, regVars
    <3>4. Untold' BY <2>13 DEF CloseChannel, Subscription, RegistryTypeOK, Untold
    <3> QED BY <3>1, <3>2, <3>3, <3>4
  <2> QED BY <2>2, <2>3, <2>4, <2>5, <2>6, <2>7, <2>8, <2>9, <2>10, <2>11, <2>12, <2>13, <2>14 DEF RegistryNext
<1> QED BY <1>1, <1>2, PTL DEF RegistrySpec

\* The types, in particular that no channel holds more events than it has places.
THEOREM RegistryTypes == RegistrySpec => []RegistryTypeOK
BY RegistryInductive, PTL DEF RegistryInv

\* The two maps of the registry have the same keys (registry.go): no late
\* heartbeat or health check brings an unregistered slave's status back.
THEOREM MapsTheorem == RegistrySpec => []MapsAgree
BY RegistryInductive, PTL DEF RegistryInv

\* The last event a watcher was given of a slave is true of the registry unless
\* a newer one was dropped (notifyEvent).
THEOREM EventsTheorem == RegistrySpec => []EventsTellState
BY RegistryInductive, PTL DEF RegistryInv
=============================================================================
