------------------------- MODULE CarRegistrationProofs -------------------------
(***************************************************************************)
(* Proofs about CarRegistration, for any threads, members, cars and          *)
(* definitions, and any number of credentials, restarts and lost writes.    *)
(***************************************************************************)
EXTENDS CarRegistration, TLAPS

Pairs == [def : Defs, car : Cars]
CredRequests == [def : Defs, by : Members, secret : Members]
Issued == [def : Defs, to : CredRequests, values : Cars]
Held == [ref : Int, def : Defs, car : Cars]
Closes == [op : {"close"}, by : Threads]
Stores == [op : {"store"}, by : Threads, def : Defs, request : CredRequests,
           credential : Issued \cup {None}]
Commands == Closes \cup Stores
Presented == [request : [nonce : Threads, def : Defs \cup {None}], from : Held]
ReqRecords ==
  [op : {"none", "createVC", "getVC", "postCar"},
   at : {"rest", "start", "opened", "offered", "defined", "listed", "requested",
         "presented", "verified"},
   member : Members \cup {None}, ref : Int, car : Cars \cup {None},
   def : Defs \cup {None}, reads : Int, proof : Presented \cup {None},
   due : SUBSET Pairs, list : SUBSET Held]

Objs == {Schema} \cup Defs
First == L!NewLedger([d \in {Issuer} |-> "TRUST_ANCHOR"])
\* The VC service changes nothing of the ledger but its objects.
ServiceLedgers ==
  [nyms : {First.nyms}, objects : SUBSET Objs, behind : SUBSET Objs, rules : {First.rules},
   taa : {First.taa}, aml : {First.aml}, writes : {First.writes}]

Typed ==
  /\ opened \in [Members -> Threads \cup {None}]
  /\ creds \in [Members -> SUBSET Held]
  /\ queue \in [Members -> Seq(Commands)]
  /\ offers \in [Members -> Defs \cup {None}]
  /\ req \in [Threads -> ReqRecords]
  /\ cars \subseteq [ref : Int, owner : Members, def : Defs, car : Cars]
  /\ nextRef \in Int
  /\ ledger \in ServiceLedgers /\ own \subseteq Defs
  /\ answered \in [Members -> SUBSET Pairs]

IsClose(c, t) == c.op = "close" /\ c.by = t
NoClose(q, t) == \A i \in 1 .. Len(q) : ~IsClose(q[i], t)

\* Past openUserWallet the wallet is the request's, and no close of it is left.
HandleOK(t) ==
  req[t].at \notin {"rest", "start", "listed"} =>
    opened[Member(t)] = t /\ NoClose(queue[Member(t)], t)

\* What a request knows at each step.
Lists(list, p) == \E c \in list : c.def = p.def /\ c.car = p.car
ReqOK(t) ==
  req[t].at # "rest" =>
    /\ Member(t) \in Members
    /\ req[t].due \subseteq answered[Member(t)]
    /\ req[t].op = "createVC" => req[t].car \in Cars
    /\ req[t].at \in {"offered", "defined"} => req[t].op = "createVC" /\ req[t].def \in own
    /\ req[t].at = "defined" => req[t].def \in ledger.objects
    /\ req[t].at \in {"requested", "presented", "verified"} => req[t].def \in Defs
    /\ req[t].at \in {"presented", "verified"} =>
         /\ req[t].proof \in Presented
         /\ req[t].proof.from \in creds[Member(t)]
         /\ req[t].proof.from.ref = req[t].ref
    /\ req[t].at = "verified" => req[t].proof.from.def = req[t].def
    /\ req[t].at = "listed" => \A p \in req[t].due : Lists(req[t].list, p)

\* A store in the queue will find the wallet open, by the handle it was given: no
\* close of that comes before it.
StoreOK(m, i) ==
  LET c == queue[m][i]
  IN  c.op = "store" =>
        /\ opened[m] = c.by
        /\ \A j \in 1 .. i - 1 : ~IsClose(queue[m][j], c.by)
        /\ c.def \in ledger.objects
QueueOK(m) == \A i \in 1 .. Len(queue[m]) : StoreOK(m, i)

\* The store of a pair createVC has answered.
Keeps(c, p) ==
  /\ c.op = "store" /\ c.credential # None
  /\ c.credential.to = c.request /\ c.credential.def = c.def
  /\ c.def = p.def /\ c.credential.values = p.car
Pending(q, p) == \E i \in 1 .. Len(q) : Keeps(q[i], p)
AnsweredOK(m) == \A p \in answered[m] : Lists(creds[m], p) \/ Pending(queue[m], p)

RegInv ==
  /\ Typed /\ RegisteredAsHeld /\ HeldIsPublished
  /\ \A t \in Threads : HandleOK(t) /\ ReqOK(t)
  /\ \A m \in Members : QueueOK(m) /\ AnsweredOK(m)

-----------------------------------------------------------------------------
(* Sequences. *)

LEMMA ConcatIs ==
  ASSUME NEW S, NEW q \in Seq(S), NEW c \in Seq(S)
  PROVE  /\ q \o c \in Seq(S) /\ Len(q \o c) = Len(q) + Len(c)
         /\ \A i \in 1 .. Len(q) : (q \o c)[i] = q[i]
         /\ \A i \in 1 .. Len(c) : (q \o c)[Len(q) + i] = c[i]
         /\ \A i \in 1 .. Len(q \o c) : i \in 1 .. Len(q) \/ i - Len(q) \in 1 .. Len(c)
OBVIOUS

LEMMA TailIs ==
  ASSUME NEW S, NEW q \in Seq(S), q # <<>>
  PROVE  /\ Head(q) \in S /\ Head(q) = q[1] /\ 1 \in 1 .. Len(q)
         /\ Tail(q) \in Seq(S) /\ Len(Tail(q)) = Len(q) - 1
         /\ \A i \in 1 .. Len(Tail(q)) : i + 1 \in 1 .. Len(q) /\ Tail(q)[i] = q[i + 1]
         /\ \A i \in 1 .. Len(q) : i = 1 \/ (i - 1 \in 1 .. Len(Tail(q)) /\ Tail(q)[i - 1] = q[i])
OBVIOUS

-----------------------------------------------------------------------------
LEMMA RestIs ==
  /\ Rest \in ReqRecords /\ Rest.at = "rest"
BY DEF Rest, ReqRecords

LEMMA RegInit == Init => RegInv
<1> SUFFICES ASSUME Init PROVE RegInv
  OBVIOUS
<1> USE DEF Init
<1>1. ledger \in ServiceLedgers
  BY DEF ServiceLedgers, First, L!NewLedger
<1>2. Typed
  BY <1>1, RestIs DEF Typed
<1>3. RegisteredAsHeld /\ HeldIsPublished
  BY DEF RegisteredAsHeld, HeldIsPublished
<1>4. \A t \in Threads : HandleOK(t) /\ ReqOK(t)
  BY RestIs DEF HandleOK, ReqOK
<1>5. \A m \in Members : QueueOK(m) /\ AnsweredOK(m)
  BY DEF QueueOK, AnsweredOK
<1> QED
  BY <1>2, <1>3, <1>4, <1>5 DEF RegInv

-----------------------------------------------------------------------------
(* A step of one request. *)

OnlyReq(t) == req' \in [Threads -> ReqRecords] /\ \A o \in Threads \ {t} : req'[o] = req[o]

\* One that leaves nothing in the queue.
LEMMA LocalStep ==
  ASSUME RegInv, NEW t \in Threads, OnlyReq(t),
         UNCHANGED <<opened, creds, queue, cars, nextRef, ledger, own, answered>>,
         offers' \in [Members -> Defs \cup {None}],
         HandleOK(t)', ReqOK(t)'
  PROVE  RegInv'
<1>1. Typed' /\ RegisteredAsHeld' /\ HeldIsPublished'
  BY DEF RegInv, Typed, OnlyReq, RegisteredAsHeld, HeldIsPublished
<1>2. ASSUME NEW o \in Threads PROVE HandleOK(o)' /\ ReqOK(o)'
  <2>1. CASE o = t
    BY <2>1
  <2>2. CASE o # t
    <3>1. req'[o] = req[o] /\ HandleOK(o) /\ ReqOK(o)
      BY <2>2 DEF OnlyReq, RegInv
    <3> QED
      BY <3>1 DEF HandleOK, ReqOK, Member
  <2> QED
    BY <2>1, <2>2
<1>3. ASSUME NEW m \in Members PROVE QueueOK(m)' /\ AnsweredOK(m)'
  <2>1. QueueOK(m) /\ AnsweredOK(m)
    BY DEF RegInv
  <2> QED
    BY <2>1 DEF QueueOK, AnsweredOK, StoreOK
<1> QED
  BY <1>1, <1>2, <1>3 DEF RegInv

\* One that leaves commands of its own in the queue of its wallet.
LeavesOK(t, cs) ==
  \A i \in 1 .. Len(cs) :
    /\ cs[i].by = t
    /\ cs[i].op = "store" =>
         i = 1 /\ opened[Member(t)] = t /\ NoClose(queue[Member(t)], t)
               /\ cs[i].def \in ledger.objects

LEMMA LeaveStep ==
  ASSUME RegInv, NEW t \in Threads, OnlyReq(t), Member(t) \in Members,
         UNCHANGED <<opened, creds, nextRef, ledger, own>>,
         NEW cs \in Seq(Commands), Leave(t, cs), LeavesOK(t, cs),
         offers' \in [Members -> Defs \cup {None}],
         cars' \subseteq [ref : Int, owner : Members, def : Defs, car : Cars],
         answered' \in [Members -> SUBSET Pairs],
         \A m \in Members : answered[m] \subseteq answered'[m],
         \A m \in Members : \A p \in answered'[m] :
           p \in answered[m] \/ (m = Member(t) /\ Pending(cs, p)),
         RegisteredAsHeld', HandleOK(t)', ReqOK(t)'
  PROVE  RegInv'
<1> DEFINE m == Member(t)
           q == queue[m]
<1>1. q \in Seq(Commands)
  BY DEF RegInv, Typed
<1>2. /\ queue'[m] = q \o cs /\ \A o \in Members \ {m} : queue'[o] = queue[o]
      /\ queue' \in [Members -> Seq(Commands)]
  BY <1>1, ConcatIs DEF RegInv, Typed, Leave
<1>3. /\ Len(q \o cs) = Len(q) + Len(cs) /\ Len(q) \in Nat /\ Len(cs) \in Nat
      /\ \A i \in 1 .. Len(q) : (q \o cs)[i] = q[i]
      /\ \A i \in 1 .. Len(cs) : (q \o cs)[Len(q) + i] = cs[i]
      /\ \A i \in 1 .. Len(q \o cs) : i \in 1 .. Len(q) \/ i - Len(q) \in 1 .. Len(cs)
  BY <1>1, ConcatIs
<1> HIDE DEF q
<1>4. Typed'
  BY <1>2 DEF RegInv, Typed, OnlyReq
<1>5. HeldIsPublished'
  BY DEF RegInv, HeldIsPublished
<1>6. ASSUME NEW o \in Threads PROVE HandleOK(o)' /\ ReqOK(o)'
  <2>1. CASE o = t
    BY <2>1
  <2>2. CASE o # t
    <3>1. req'[o] = req[o] /\ HandleOK(o) /\ ReqOK(o) /\ Member(o)' = Member(o)
      BY <2>2 DEF OnlyReq, RegInv, Member
    <3>2. ReqOK(o)'
      BY <3>1 DEF ReqOK
    <3>3. HandleOK(o)'
      <4> SUFFICES ASSUME req[o].at \notin {"rest", "start", "listed"},
                          NEW i \in 1 .. Len(queue'[Member(o)])
                   PROVE  opened[Member(o)] = o /\ ~IsClose(queue'[Member(o)][i], o)
        BY <3>1 DEF HandleOK, NoClose
      <4>1. Member(o) \in Members /\ opened[Member(o)] = o /\ NoClose(queue[Member(o)], o)
        BY <3>1 DEF HandleOK, ReqOK
      <4>2. CASE Member(o) # m
        BY <1>2, <4>1, <4>2 DEF NoClose
      <4>3. CASE Member(o) = m /\ i \in 1 .. Len(q)
        BY <1>2, <1>3, <4>1, <4>3 DEF NoClose, q
      <4>4. CASE Member(o) = m /\ i - Len(q) \in 1 .. Len(cs)
        <5>1. queue'[m][i] = cs[i - Len(q)]
          BY <1>2, <1>3, <4>4
        <5> QED
          BY <2>2, <4>1, <4>4, <5>1 DEF LeavesOK, IsClose
      <4> QED
        BY <1>2, <1>3, <4>2, <4>3, <4>4
    <3> QED
      BY <3>2, <3>3
  <2> QED
    BY <2>1, <2>2
<1>7. ASSUME NEW o \in Members PROVE QueueOK(o)'
  <2>1. QueueOK(o)
    BY DEF RegInv
  <2>2. CASE o # m
    BY <1>2, <2>1, <2>2 DEF QueueOK, StoreOK
  <2>3. CASE o = m
    <3> SUFFICES ASSUME NEW i \in 1 .. Len(q \o cs), (q \o cs)[i].op = "store"
                 PROVE  /\ opened[m] = (q \o cs)[i].by
                        /\ \A j \in 1 .. i - 1 : ~IsClose((q \o cs)[j], (q \o cs)[i].by)
                        /\ (q \o cs)[i].def \in ledger.objects
      BY <1>2, <2>3 DEF QueueOK, StoreOK
    <3>1. CASE i \in 1 .. Len(q)
      <4>1. StoreOK(m, i)
        BY <2>1, <2>3, <3>1 DEF QueueOK, q
      <4>2. (q \o cs)[i] = q[i] /\ \A j \in 1 .. i - 1 : (q \o cs)[j] = q[j]
        BY <1>3, <3>1
      <4> QED
        BY <4>1, <4>2 DEF StoreOK, q
    <3>2. CASE i - Len(q) \in 1 .. Len(cs)
      <4>1. (q \o cs)[i] = cs[i - Len(q)]
        BY <1>3, <3>2
      <4>2. /\ i - Len(q) = 1 /\ opened[m] = t /\ NoClose(q, t) /\ cs[i - Len(q)].by = t
            /\ cs[i - Len(q)].def \in ledger.objects
        BY <3>2, <4>1 DEF LeavesOK, q
      <4>3. \A j \in 1 .. i - 1 : (q \o cs)[j] = q[j] /\ ~IsClose(q[j], t)
        BY <1>3, <4>2 DEF NoClose
      <4> QED
        BY <4>1, <4>2, <4>3
    <3> QED
      BY <1>3, <3>1, <3>2
  <2> QED
    BY <2>2, <2>3
<1>8. ASSUME NEW o \in Members, NEW p \in answered'[o]
      PROVE  Lists(creds[o], p) \/ Pending(queue'[o], p)
  <2>1. CASE p \in answered[o]
    <3>1. Lists(creds[o], p) \/ Pending(queue[o], p)
      BY <2>1 DEF RegInv, AnsweredOK
    <3>2. CASE Pending(queue[o], p) /\ o = m
      <4>1. PICK i \in 1 .. Len(q) : Keeps(q[i], p)
        BY <3>2 DEF Pending, q
      <4>2. i \in 1 .. Len(q \o cs) /\ (q \o cs)[i] = q[i]
        BY <1>3
      <4> QED
        BY <1>2, <3>2, <4>1, <4>2 DEF Pending
    <3> QED
      BY <1>2, <3>1, <3>2
  <2>2. CASE o = m /\ Pending(cs, p)
    <3>1. PICK i \in 1 .. Len(cs) : Keeps(cs[i], p)
      BY <2>2 DEF Pending
    <3>2. Len(q) + i \in 1 .. Len(q \o cs) /\ (q \o cs)[Len(q) + i] = cs[i]
      BY <1>3
    <3> QED
      BY <1>2, <2>2, <3>1, <3>2 DEF Pending
  <2> QED
    BY <2>1, <2>2
<1> QED
  BY <1>4, <1>5, <1>6, <1>7, <1>8 DEF RegInv, AnsweredOK

\* The closes a request leaves.
Closing(t, cs) == cs = <<Close(t)>> \/ cs = <<Close(t), Close(t)>>

LEMMA ClosingIs ==
  ASSUME NEW t \in Threads, NEW cs, Closing(t, cs)
  PROVE  cs \in Seq(Commands) /\ LeavesOK(t, cs)
<1>1. Close(t) \in Commands /\ Close(t).by = t /\ Close(t).op = "close"
  BY DEF Close, Commands, Closes
<1> DEFINE c == Close(t)
<1> HIDE DEF c
<1>2. (cs = <<c>> \/ cs = <<c, c>>) /\ c \in Commands /\ c.by = t /\ c.op = "close"
  BY <1>1 DEF Closing, c
<1>3. cs \in Seq(Commands) /\ \A i \in 1 .. Len(cs) : cs[i] = c
  <2>1. CASE cs = <<c>>
    <3>1. Len(cs) = 1 /\ cs[1] = c
      BY <2>1
    <3>2. cs \in Seq(Commands)
      BY <1>2, <2>1
    <3> QED
      BY <3>1, <3>2
  <2>2. CASE cs = <<c, c>>
    <3>1. Len(cs) = 2 /\ cs[1] = c /\ cs[2] = c
      BY <2>2
    <3>2. cs \in Seq(Commands)
      BY <1>2, <2>2
    <3> QED
      BY <3>1, <3>2
  <2> QED
    BY <1>2, <2>1, <2>2
<1> QED
  BY <1>2, <1>3 DEF LeavesOK

\* However a request ends, past openUserWallet.
LEMMA FailStep ==
  ASSUME RegInv, NEW t \in Threads, req[t].at # "rest",
         UNCHANGED <<opened, creds, offers, cars, nextRef, aside>>,
         Answered(t), NEW cs, Closing(t, cs), Leave(t, cs)
  PROVE  RegInv'
<1>1. cs \in Seq(Commands) /\ LeavesOK(t, cs)
  BY ClosingIs
<1>2. Member(t) \in Members
  BY DEF RegInv, ReqOK
<1>3. OnlyReq(t) /\ req'[t].at = "rest"
  BY RestIs DEF RegInv, Typed, OnlyReq, Answered
<1>4. HandleOK(t)' /\ ReqOK(t)'
  BY <1>3 DEF HandleOK, ReqOK
<1>5. RegisteredAsHeld'
  BY DEF RegInv, RegisteredAsHeld
<1> QED
  BY <1>1, <1>2, <1>3, <1>4, <1>5, LeaveStep DEF aside, RegInv, Typed

-----------------------------------------------------------------------------
(* Each step of a request. *)

LEMMA ReqIs ==
  ASSUME RegInv, NEW t \in Threads, NEW c \in ReqRecords, req' = [req EXCEPT ![t] = c]
  PROVE  OnlyReq(t) /\ req'[t] = c
BY DEF RegInv, Typed, OnlyReq

LEMMA StartInv ==
  ASSUME RegInv, NEW t \in Threads, NEW op \in {"createVC", "getVC", "postCar"},
         NEW m \in Members, NEW ref \in Int, NEW car \in Cars \cup {None},
         op = "createVC" => car \in Cars, Start(t, op, m, ref, car)
  PROVE  RegInv'
<1> DEFINE due == IF op = "getVC" THEN answered[m] ELSE {}
           c == [Rest EXCEPT !.op = op, !.at = "start", !.member = m, !.ref = ref,
                             !.car = car, !.due = due]
<1>1. due \subseteq answered[m] /\ due \in SUBSET Pairs
  BY DEF RegInv, Typed
<1>2. req' = [req EXCEPT ![t] = c]
  BY DEF Start
<1> HIDE DEF due
<1>3. /\ c \in ReqRecords /\ c.op = op /\ c.at = "start" /\ c.member = m /\ c.car = car
      /\ c.due = due
  <2>1. Rest \in ReqRecords
    BY RestIs
  <2>2. c \in ReqRecords
    BY <1>1, <2>1 DEF ReqRecords
  <2>3. c.op = op /\ c.at = "start" /\ c.member = m /\ c.car = car /\ c.due = due
    BY <2>1 DEF ReqRecords
  <2> QED
    BY <2>2, <2>3
<1> HIDE DEF c
<1>4. OnlyReq(t) /\ req'[t] = c
  BY <1>2, <1>3, ReqIs
<1>5. UNCHANGED <<opened, creds, queue, offers, cars, nextRef, ledger, own, answered>>
  BY DEF Start, aside
<1>6. HandleOK(t)' /\ ReqOK(t)'
  BY <1>1, <1>3, <1>4, <1>5 DEF HandleOK, ReqOK, Member
<1> QED
  BY <1>4, <1>5, <1>6, LocalStep DEF RegInv, Typed

\* The wallet is opened where nothing is left in its queue.
LEMMA OpenInv ==
  ASSUME RegInv, NEW t \in Threads, NEW rightPassword \in BOOLEAN,
         OpenUserWallet(t, rightPassword)
  PROVE  RegInv'
<1> DEFINE m == Member(t)
<1>1. /\ req[t].at = "start" /\ queue[m] = <<>> /\ m \in Members /\ req[t] \in ReqRecords
      /\ UNCHANGED <<creds, queue, offers, cars, nextRef, ledger, own, answered>>
  BY DEF OpenUserWallet, Drained, aside, RegInv, ReqOK, Typed
<1>2. CASE rightPassword /\ opened[m] = None
  <2> DEFINE c == [req[t] EXCEPT !.at = "opened"]
  <2>1. opened' = [opened EXCEPT ![m] = t] /\ req' = [req EXCEPT ![t] = c]
    BY <1>2 DEF OpenUserWallet, Goto
  <2>2. /\ c \in ReqRecords /\ c.op = req[t].op /\ c.at = "opened" /\ c.member = m
        /\ c.car = req[t].car /\ c.due = req[t].due
    BY <1>1 DEF ReqRecords, Member
  <2> HIDE DEF c
  <2>3. OnlyReq(t) /\ req'[t] = c
    BY <2>1, <2>2, ReqIs
  <2>4. opened' \in [Members -> Threads \cup {None}] /\ opened'[m] = t
        /\ \A o \in Members \ {m} : opened'[o] = opened[o]
    BY <1>1, <2>1 DEF RegInv, Typed
  <2>5. Typed' /\ RegisteredAsHeld' /\ HeldIsPublished'
    BY <1>1, <2>3, <2>4 DEF RegInv, Typed, OnlyReq, RegisteredAsHeld, HeldIsPublished
  <2>6. ASSUME NEW o \in Threads PROVE HandleOK(o)' /\ ReqOK(o)'
    <3>1. CASE o = t
      <4>1. ReqOK(t)
        BY DEF RegInv
      <4>2. ReqOK(t)'
        BY <1>1, <2>2, <2>3, <4>1 DEF ReqOK, Member
      <4>3. HandleOK(t)'
        BY <1>1, <2>2, <2>3, <2>4 DEF HandleOK, Member, NoClose
      <4> QED
        BY <3>1, <4>2, <4>3
    <3>2. CASE o # t
      <4>1. req'[o] = req[o] /\ HandleOK(o) /\ ReqOK(o)
        BY <2>3, <3>2 DEF OnlyReq, RegInv
      <4>2. ReqOK(o)'
        BY <1>1, <4>1 DEF ReqOK, Member
      <4>3. HandleOK(o)'
        BY <1>1, <1>2, <2>4, <4>1, RegistrationConstants DEF HandleOK, ReqOK, Member, NoClose
      <4> QED
        BY <4>2, <4>3
    <3> QED
      BY <3>1, <3>2
  <2>7. ASSUME NEW o \in Members PROVE QueueOK(o)' /\ AnsweredOK(o)'
    <3>1. QueueOK(o) /\ AnsweredOK(o)
      BY DEF RegInv
    <3> QED
      BY <1>1, <2>4, <3>1 DEF QueueOK, AnsweredOK, StoreOK
  <2> QED
    BY <2>5, <2>6, <2>7 DEF RegInv
<1>3. CASE ~(rightPassword /\ opened[m] = None)
  <2>1. Answered(t) /\ UNCHANGED opened
    BY <1>3 DEF OpenUserWallet
  <2>2. OnlyReq(t) /\ req'[t].at = "rest"
    BY <2>1, RestIs, ReqIs DEF Answered
  <2>3. HandleOK(t)' /\ ReqOK(t)'
    BY <2>2 DEF HandleOK, ReqOK
  <2> QED
    BY <1>1, <2>1, <2>2, <2>3, LocalStep DEF RegInv, Typed
<1> QED
  BY <1>2, <1>3

\* A request that goes on holding its wallet.
LEMMA KeepStep ==
  ASSUME RegInv, NEW t \in Threads, NEW c \in ReqRecords, req' = [req EXCEPT ![t] = c],
         req[t].at \notin {"rest", "start", "listed"}, c.at # "rest", c.at # "listed",
         c.op = req[t].op, c.member = req[t].member, c.car = req[t].car, c.due = req[t].due,
         UNCHANGED <<opened, creds, queue, cars, nextRef, aside>>,
         offers' \in [Members -> Defs \cup {None}],
         c.at \in {"offered", "defined"} => c.op = "createVC" /\ c.def \in own,
         c.at = "defined" => c.def \in ledger.objects,
         c.at \in {"requested", "presented", "verified"} => c.def \in Defs,
         c.at \in {"presented", "verified"} =>
           c.proof \in Presented /\ c.proof.from \in creds[Member(t)] /\ c.proof.from.ref = c.ref,
         c.at = "verified" => c.proof.from.def = c.def
  PROVE  RegInv'
<1>1. OnlyReq(t) /\ req'[t] = c
  BY ReqIs
<1>2. HandleOK(t) /\ ReqOK(t)
  BY DEF RegInv
<1>3. Member(t)' = Member(t) /\ Member(t) \in Members
  BY <1>1, <1>2 DEF Member, ReqOK
<1>4. UNCHANGED <<opened, creds, queue, cars, nextRef, ledger, own, answered>>
  BY DEF aside
<1>5. HandleOK(t)'
  BY <1>1, <1>2, <1>3, <1>4 DEF HandleOK
<1>6. ReqOK(t)'
  BY <1>1, <1>2, <1>3, <1>4 DEF ReqOK
<1> QED
  BY <1>1, <1>4, <1>5, <1>6, LocalStep

LEMMA OfferInv ==
  ASSUME RegInv, NEW t \in Threads, NEW def \in Defs, GetCredentialOffer(t, def)
  PROVE  RegInv'
<1> DEFINE c == [req[t] EXCEPT !.at = "offered", !.def = def]
<1>1. req[t].op = "createVC" /\ req[t].at = "opened" /\ req[t] \in ReqRecords
  BY DEF GetCredentialOffer, At, RegInv, Typed
<1>2. /\ req' = [req EXCEPT ![t] = c]
      /\ UNCHANGED <<opened, creds, queue, cars, nextRef, aside>>
  BY DEF GetCredentialOffer
<1>3. /\ c \in ReqRecords /\ c.at = "offered" /\ c.def = def /\ c.op = req[t].op
      /\ c.member = req[t].member /\ c.car = req[t].car /\ c.due = req[t].due
  BY <1>1 DEF ReqRecords
<1>4. def \in own
  BY DEF GetCredentialOffer, A!indy_issuer_create_credential_offer
<1>5. Member(t) \in Members /\ offers' \in [Members -> Defs \cup {None}]
  BY <1>1 DEF GetCredentialOffer, RegInv, Typed, ReqOK
<1> HIDE DEF c
<1> QED
  BY <1>1, <1>2, <1>3, <1>4, <1>5, KeepStep

LEMMA ReadInv ==
  ASSUME RegInv, NEW t \in Threads, NEW isUpToDate \in BOOLEAN, ReadCredDef(t, isUpToDate)
  PROVE  RegInv'
<1> DEFINE isRead == L!indy_get_cred_def(ledger, req[t].def, isUpToDate) # None
<1>1. /\ req[t].op = "createVC" /\ req[t].at = "offered" /\ req[t] \in ReqRecords
      /\ req[t].def \in own
      /\ UNCHANGED <<opened, creds, offers, cars, nextRef, aside>>
  BY DEF ReadCredDef, At, RegInv, Typed, ReqOK
<1>2. \/ isRead /\ Goto(t, "defined") /\ UNCHANGED queue
      \/ req' = [req EXCEPT ![t].reads = @ + 1] /\ UNCHANGED queue
      \/ Fail(t)
  BY DEF ReadCredDef
<1>3. offers' \in [Members -> Defs \cup {None}]
  BY <1>1 DEF RegInv, Typed
<1>4. CASE isRead /\ Goto(t, "defined") /\ UNCHANGED queue
  <2> DEFINE c == [req[t] EXCEPT !.at = "defined"]
  <2>1. /\ c \in ReqRecords /\ c.at = "defined" /\ c.def = req[t].def /\ c.op = req[t].op
        /\ c.member = req[t].member /\ c.car = req[t].car /\ c.due = req[t].due
    BY <1>1 DEF ReqRecords
  <2>2. req' = [req EXCEPT ![t] = c]
    BY <1>4 DEF Goto
  <2>3. req[t].def # Issuer
    BY <1>1, DistinctValues DEF RegInv, Typed
  <2>4. req[t].def \in ledger.objects
    BY <1>4, <2>3 DEF L!indy_get_cred_def, L!indy_get_response_metadata, L!IsThere
  <2> HIDE DEF c
  <2> QED
    BY <1>1, <1>3, <1>4, <2>1, <2>2, <2>4, KeepStep
<1>5. CASE req' = [req EXCEPT ![t].reads = @ + 1] /\ UNCHANGED queue
  <2> DEFINE c == [req[t] EXCEPT !.reads = @ + 1]
  <2>1. /\ c \in ReqRecords /\ c.at = "offered" /\ c.def = req[t].def /\ c.op = req[t].op
        /\ c.member = req[t].member /\ c.car = req[t].car /\ c.due = req[t].due
    BY <1>1 DEF ReqRecords
  <2>2. req' = [req EXCEPT ![t] = c]
    BY <1>5
  <2> HIDE DEF c
  <2> QED
    BY <1>1, <1>3, <1>5, <2>1, <2>2, KeepStep
<1>6. CASE Fail(t)
  BY <1>1, <1>6, FailStep DEF Fail, Closing
<1> QED
  BY <1>2, <1>4, <1>5, <1>6

LEMMA ProofRequestInv ==
  ASSUME RegInv, NEW t \in Threads, GetProofRequest(t) PROVE RegInv'
<1> DEFINE c == [req[t] EXCEPT !.at = "requested", !.def = offers[Member(t)]]
<1>1. /\ req[t].at = "opened" /\ req[t] \in ReqRecords /\ Member(t) \in Members
      /\ req' = [req EXCEPT ![t] = c]
      /\ UNCHANGED <<opened, creds, queue, offers, cars, nextRef, aside>>
  BY DEF GetProofRequest, At, RegInv, Typed, ReqOK
<1>2. offers[Member(t)] \in Defs /\ offers' \in [Members -> Defs \cup {None}]
  BY <1>1 DEF GetProofRequest, RegInv, Typed
<1>3. /\ c \in ReqRecords /\ c.at = "requested" /\ c.def \in Defs /\ c.op = req[t].op
      /\ c.member = req[t].member /\ c.car = req[t].car /\ c.due = req[t].due
  BY <1>1, <1>2 DEF ReqRecords
<1> HIDE DEF c
<1> QED
  BY <1>1, <1>2, <1>3, KeepStep

\* The credential presented is one of the wallet's, the one the member chose.
LEMMA VPInv ==
  ASSUME RegInv, NEW t \in Threads, NEW isUpToDate \in BOOLEAN, CreateVP(t, isUpToDate)
  PROVE  RegInv'
<1>1. /\ req[t].at = "requested" /\ req[t] \in ReqRecords /\ Member(t) \in Members
      /\ req[t].def \in Defs
      /\ UNCHANGED <<opened, creds, offers, cars, nextRef, aside>>
  BY DEF CreateVP, At, RegInv, Typed, ReqOK
<1>2. CASE Proof(t) # None /\ UNCHANGED queue
           /\ req' = [req EXCEPT ![t] = [@ EXCEPT !.at = "presented", !.proof = Proof(t)]]
  <2> DEFINE p == Proof(t)
             c == [req[t] EXCEPT !.at = "presented", !.proof = p]
             held == creds[Member(t)]
             chosen == CHOOSE d \in held : d.ref = req[t].ref
  <2>1. (\E d \in held : d.ref = req[t].ref) /\ p = [request |-> ProofRequest(t), from |-> chosen]
    BY <1>2 DEF Proof, A!indy_prover_create_proof
  <2>2. chosen \in held /\ chosen.ref = req[t].ref
    BY <2>1
  <2>3. held \subseteq Held
    BY <1>1 DEF RegInv, Typed
  <2>4. ProofRequest(t) \in [nonce : Threads, def : Defs \cup {None}]
    BY <1>1 DEF ProofRequest, A!indy_generate_nonce
  <2> HIDE DEF chosen, held
  <2>5. p \in Presented /\ p.from = chosen
    BY <2>1, <2>2, <2>3, <2>4 DEF Presented
  <2> HIDE DEF p
  <2>6. /\ c \in ReqRecords /\ c.at = "presented" /\ c.def = req[t].def /\ c.op = req[t].op
        /\ c.member = req[t].member /\ c.car = req[t].car /\ c.due = req[t].due
        /\ c.proof = p /\ c.ref = req[t].ref
    BY <1>1, <2>5 DEF ReqRecords
  <2>7. req' = [req EXCEPT ![t] = c]
    BY <1>2 DEF p
  <2>8. offers' \in [Members -> Defs \cup {None}]
    BY <1>1 DEF RegInv, Typed
  <2> HIDE DEF c
  <2> QED
    BY <1>1, <1>2, <2>2, <2>5, <2>6, <2>7, <2>8, KeepStep DEF held
<1>3. CASE Fail(t)
  BY <1>1, <1>3, FailStep DEF Fail, Closing
<1> QED
  BY <1>2, <1>3 DEF CreateVP

LEMMA VerifyInv == ASSUME RegInv, NEW t \in Threads, VerifyVP(t) PROVE RegInv'
<1>1. /\ req[t].at = "presented" /\ req[t] \in ReqRecords /\ ReqOK(t)
      /\ UNCHANGED <<opened, creds, offers, cars, nextRef, aside>>
  BY DEF VerifyVP, At, RegInv, Typed
<1>2. CASE /\ A!indy_verifier_verify_proof(ProofRequest(t), req[t].proof, {Schema}, {req[t].def})
           /\ Goto(t, "verified") /\ UNCHANGED queue
  <2> DEFINE c == [req[t] EXCEPT !.at = "verified"]
  <2>1. req[t].proof.from.def = req[t].def
    BY <1>2 DEF A!indy_verifier_verify_proof, ProofRequest
  <2>2. /\ c \in ReqRecords /\ c.at = "verified" /\ c.def = req[t].def /\ c.op = req[t].op
        /\ c.member = req[t].member /\ c.car = req[t].car /\ c.due = req[t].due
        /\ c.proof = req[t].proof /\ c.ref = req[t].ref
    BY <1>1 DEF ReqRecords
  <2>3. req' = [req EXCEPT ![t] = c]
    BY <1>2 DEF Goto
  <2>4. offers' \in [Members -> Defs \cup {None}]
    BY <1>1 DEF RegInv, Typed
  <2> HIDE DEF c
  <2> QED
    BY <1>1, <1>2, <2>1, <2>2, <2>3, <2>4, KeepStep DEF ReqOK
<1>3. CASE Answered(t) /\ Leave(t, <<Close(t), Close(t)>>)
  BY <1>1, <1>3, FailStep DEF Closing
<1> QED
  BY <1>2, <1>3 DEF VerifyVP

LEMMA CarInv ==
  ASSUME RegInv, NEW t \in Threads, NEW isAnswered \in BOOLEAN, CreateCar(t, isAnswered)
  PROVE  RegInv'
<1> DEFINE from == req[t].proof.from
           car == [ref |-> req[t].ref, owner |-> Member(t), def |-> req[t].def,
                   car |-> from.car]
<1>1. /\ req[t].at = "verified" /\ req[t] \in ReqRecords /\ ReqOK(t) /\ Member(t) \in Members
      /\ UNCHANGED <<opened, creds, offers, nextRef, aside>>
      /\ cars' = cars \cup {car}
  BY DEF CreateCar, At, RegInv, Typed, ReqOK
<1>2. from \in creds[Member(t)] /\ from.ref = req[t].ref /\ from.def = req[t].def
      /\ req[t].def \in Defs
  BY <1>1 DEF ReqOK
<1>3. from \in Held
  BY <1>1, <1>2 DEF RegInv, Typed
<1> HIDE DEF from
<1>4. [ref |-> car.ref, def |-> car.def, car |-> car.car] = from
  BY <1>2, <1>3 DEF Held
<1>5. car \in [ref : Int, owner : Members, def : Defs, car : Cars]
  BY <1>1, <1>2, <1>3 DEF Held
<1>6. car.owner = Member(t)
  OBVIOUS
<1> HIDE DEF car
<1>7. cars' \subseteq [ref : Int, owner : Members, def : Defs, car : Cars]
  BY <1>1, <1>5 DEF RegInv, Typed
<1>8. RegisteredAsHeld'
  BY <1>1, <1>2, <1>4, <1>6 DEF RegInv, RegisteredAsHeld
<1>9. Answered(t) /\ \E cs : Closing(t, cs) /\ Leave(t, cs)
  BY DEF CreateCar, Fail, Closing
<1>10. PICK cs : Closing(t, cs) /\ Leave(t, cs)
  BY <1>9
<1>11. cs \in Seq(Commands) /\ LeavesOK(t, cs)
  BY <1>10, ClosingIs
<1>12. OnlyReq(t) /\ req'[t].at = "rest"
  BY <1>9, RestIs, ReqIs DEF Answered
<1>13. HandleOK(t)' /\ ReqOK(t)'
  BY <1>12 DEF HandleOK, ReqOK
<1> QED
  BY <1>1, <1>7, <1>8, <1>10, <1>11, <1>12, <1>13, LeaveStep DEF aside, RegInv, Typed

\* What a request lists, it lists once nothing is left in the queue.
LEMMA ListInv == ASSUME RegInv, NEW t \in Threads, GetCredentials(t) PROVE RegInv'
<1> DEFINE m == Member(t)
           list == A!indy_prover_get_credentials(creds[m], Issuer)
           c == [req[t] EXCEPT !.at = "listed", !.list = list]
<1>1. /\ req[t].at = "opened" /\ req[t].op = "getVC" /\ req[t] \in ReqRecords /\ m \in Members
      /\ queue[m] = <<>> /\ req[t].due \subseteq answered[m]
      /\ Leave(t, <<Close(t)>>) /\ req' = [req EXCEPT ![t] = c]
      /\ UNCHANGED <<opened, creds, offers, cars, nextRef, aside>>
  BY DEF GetCredentials, At, Drained, RegInv, Typed, ReqOK
<1>2. creds[m] \subseteq Held
  BY <1>1 DEF RegInv, Typed
<1>3. list = creds[m]
  <2>1. \A d \in Defs : d.schema.issuer = Issuer
    BY DEF Defs, Schema, A!indy_issuer_create_schema
  <2>2. \A d \in creds[m] : d.def \in Defs
    BY <1>2 DEF Held
  <2> QED
    BY <2>1, <2>2 DEF A!indy_prover_get_credentials
<1> HIDE DEF list
<1>4. /\ c \in ReqRecords /\ c.at = "listed" /\ c.op = "getVC" /\ c.member = m
      /\ c.car = req[t].car /\ c.due = req[t].due /\ c.list = creds[m]
  BY <1>1, <1>2, <1>3 DEF ReqRecords, Member
<1>5. ASSUME NEW p \in req[t].due PROVE Lists(creds[m], p)
  <2>1. Lists(creds[m], p) \/ Pending(queue[m], p)
    BY <1>1, <1>5 DEF RegInv, AnsweredOK
  <2> QED
    BY <1>1, <2>1 DEF Pending
<1> HIDE DEF c
<1>6. OnlyReq(t) /\ req'[t] = c
  BY <1>1, <1>4, ReqIs
<1>7. HandleOK(t)'
  BY <1>4, <1>6 DEF HandleOK
<1>8. ReqOK(t)'
  BY <1>1, <1>4, <1>5, <1>6 DEF ReqOK, Member, aside
<1>9. <<Close(t)>> \in Seq(Commands) /\ LeavesOK(t, <<Close(t)>>)
  BY ClosingIs DEF Closing
<1>10. RegisteredAsHeld'
  BY <1>1 DEF RegInv, RegisteredAsHeld
<1> HIDE DEF m
<1>11. Member(t) \in Members
  BY <1>1 DEF m
<1> QED
  BY <1>1, <1>6, <1>7, <1>8, <1>9, <1>10, <1>11, LeaveStep DEF aside, RegInv, Typed

\* What createVC leaves to be stored.
LEMMA StoredIs ==
  ASSUME RegInv, NEW t \in Threads, NEW isCredential \in BOOLEAN,
         At(t, "createVC", "defined")
  PROVE  LET store == Store(t, isCredential)
         IN  /\ store \in Stores /\ store.op = "store" /\ store.by = t
             /\ store.def = req[t].def
             /\ isCredential => Keeps(store, [def |-> req[t].def, car |-> req[t].car])
<1> DEFINE m == Member(t)
           def == req[t].def
           car == req[t].car
           request == [def |-> def, by |-> m, secret |-> m]
           issued == [def |-> def, to |-> request, values |-> car]
           store == Store(t, isCredential)
           pair == [def |-> def, car |-> car]
<1>1. m \in Members /\ def \in own /\ def \in Defs /\ car \in Cars
  BY DEF At, RegInv, Typed, ReqOK
<1>2. request \in CredRequests /\ request.def = def
  BY <1>1 DEF CredRequests
<1>3. store = [op |-> "store", by |-> t, def |-> def, request |-> request,
               credential |-> IF ~isCredential THEN None ELSE issued]
  BY <1>1 DEF Store, A!indy_prover_create_credential_req, A!indy_prover_create_master_secret,
              A!indy_issuer_create_credential
<1> HIDE DEF store, request
<1>4. issued \in Issued /\ issued.def = def /\ issued.to = request /\ issued.values = car
  BY <1>1, <1>2 DEF Issued
<1>5. issued # None
  BY <1>4, DistinctValues DEF Issued, CredRequests
<1> HIDE DEF issued
<1>6. /\ store \in Stores /\ store.op = "store" /\ store.by = t /\ store.def = def
      /\ store.request = request
      /\ isCredential => store.credential = issued
  BY <1>1, <1>2, <1>3, <1>4 DEF Stores
<1>7. pair.def = def /\ pair.car = car
  OBVIOUS
<1> HIDE DEF pair
<1>8. isCredential => Keeps(store, pair)
  BY <1>4, <1>5, <1>6, <1>7 DEF Keeps
<1> QED
  BY <1>6, <1>8 DEF store, pair

LEMMA StoreInv ==
  ASSUME RegInv, NEW t \in Threads, NEW isCredential \in BOOLEAN,
         StoreCredential(t, isCredential)
  PROVE  RegInv'
<1> DEFINE m == Member(t)
           def == req[t].def
           car == req[t].car
           store == Store(t, isCredential)
           close == Close(t)
           cs == <<store, close>>
           pair == [def |-> def, car |-> car]
<1>1. /\ req[t].op = "createVC" /\ req[t].at = "defined" /\ m \in Members
      /\ def \in own /\ def \in Defs /\ def \in ledger.objects /\ car \in Cars
      /\ HandleOK(t) /\ Leave(t, cs) /\ Answered(t)
      /\ UNCHANGED <<opened, creds, offers, cars, nextRef, restarts, ledger, own, lost>>
  BY DEF StoreCredential, At, RegInv, Typed, ReqOK
<1>2. answered' = [answered EXCEPT ![m] = IF isCredential THEN @ \cup {pair} ELSE @]
  BY DEF StoreCredential
<1>3. /\ store \in Stores /\ store.op = "store" /\ store.by = t /\ store.def = def
      /\ isCredential => Keeps(store, pair)
  BY <1>1, StoredIs DEF At
<1>4. pair \in Pairs /\ pair.def = def /\ pair.car = car
  BY <1>1 DEF Pairs
<1> HIDE DEF store, pair
<1>5. isCredential => Keeps(store, pair)
  BY <1>3
<1>6. Close(t) \in Closes /\ Close(t).op = "close" /\ Close(t).by = t
  BY DEF Close, Closes
<1> HIDE DEF close
<1>7. cs \in Seq(Commands) /\ Len(cs) = 2 /\ cs[1] = store /\ cs[2] = close
  <2>1. store \in Commands /\ close \in Commands
    BY <1>3, <1>6 DEF Commands, close
  <2> QED
    BY <2>1
<1> HIDE DEF cs
<1>8. LeavesOK(t, cs)
  <2>1. opened[m] = t /\ NoClose(queue[m], t)
    BY <1>1 DEF HandleOK
  <2>2. \A i \in 1 .. Len(cs) : i = 1 \/ i = 2
    BY <1>7
  <2> QED
    BY <1>1, <1>3, <1>6, <1>7, <2>1, <2>2 DEF LeavesOK, close
<1>9. OnlyReq(t) /\ req'[t].at = "rest"
  BY <1>1, RestIs, ReqIs DEF Answered
<1>10. HandleOK(t)' /\ ReqOK(t)'
  BY <1>9 DEF HandleOK, ReqOK
<1>11. /\ answered' \in [Members -> SUBSET Pairs]
       /\ \A o \in Members : answered[o] \subseteq answered'[o]
       /\ \A o \in Members : \A p \in answered'[o] :
            p \in answered[o] \/ (o = m /\ isCredential /\ p = pair)
  BY <1>1, <1>2, <1>4 DEF RegInv, Typed
<1>12. isCredential => Pending(cs, pair)
  <2>1. 1 \in 1 .. Len(cs)
    BY <1>7
  <2> QED
    BY <1>5, <1>7, <2>1 DEF Pending
<1>13. RegisteredAsHeld'
  BY <1>1 DEF RegInv, RegisteredAsHeld
<1>14. /\ offers' \in [Members -> Defs \cup {None}]
       /\ cars' \subseteq [ref : Int, owner : Members, def : Defs, car : Cars]
  BY <1>1 DEF RegInv, Typed
<1>15. \A o \in Members : \A p \in answered'[o] :
         p \in answered[o] \/ (o = m /\ Pending(cs, p))
  BY <1>11, <1>12
<1> QED
  BY <1>1, <1>7, <1>8, <1>9, <1>10, <1>11, <1>13, <1>14, <1>15, LeaveStep

LEMMA ServeInv == ASSUME RegInv, NEW t \in Threads, Serve(t) PROVE RegInv'
<1>1. ASSUME NEW rightPassword \in BOOLEAN, OpenUserWallet(t, rightPassword) PROVE RegInv'
  BY <1>1, OpenInv
<1>2. ASSUME NEW def \in Defs, GetCredentialOffer(t, def) PROVE RegInv'
  BY <1>2, OfferInv
<1>3. ASSUME NEW isCredential \in BOOLEAN, StoreCredential(t, isCredential) PROVE RegInv'
  BY <1>3, StoreInv
<1>4. ASSUME GetCredentials(t) PROVE RegInv'
  BY <1>4, ListInv
<1>5. ASSUME AnswerList(t) \/ NoProofRequest(t) \/ Throws(t) PROVE RegInv'
  <2>1. req[t].at # "rest" /\ Fail(t) /\ UNCHANGED <<opened, creds, offers, cars, nextRef, aside>>
    BY <1>5 DEF AnswerList, NoProofRequest, Throws, At
  <2> QED
    BY <2>1, FailStep DEF Fail, Closing
<1>6. ASSUME GetProofRequest(t) PROVE RegInv'
  BY <1>6, ProofRequestInv
<1>7. ASSUME NEW isUpToDate \in BOOLEAN, ReadCredDef(t, isUpToDate) \/ CreateVP(t, isUpToDate)
      PROVE  RegInv'
  BY <1>7, ReadInv, VPInv
<1>8. ASSUME VerifyVP(t) PROVE RegInv'
  BY <1>8, VerifyInv
<1>9. ASSUME NEW isAnswered \in BOOLEAN, CreateCar(t, isAnswered) PROVE RegInv'
  BY <1>9, CarInv
<1> QED
  BY <1>1, <1>2, <1>3, <1>4, <1>5, <1>6, <1>7, <1>8, <1>9 DEF Serve

-----------------------------------------------------------------------------
(* Indy's steps. *)

LEMMA IndyStep ==
  ASSUME RegInv, NEW m \in Members, queue[m] # <<>>, queue' = [queue EXCEPT ![m] = Tail(@)],
         UNCHANGED <<offers, req, cars, aside>>,
         creds' \in [Members -> SUBSET Held], \A o \in Members : creds[o] \subseteq creds'[o],
         opened' \in [Members -> Threads \cup {None}],
         \A o \in Members \ {m} : opened'[o] = opened[o],
         nextRef' \in Int, HeldIsPublished',
         \A t \in Threads : opened[m] = t /\ NoClose(queue[m], t) => opened'[m] = t,
         \A i \in 1 .. Len(queue[m]) :
           i # 1 /\ queue[m][i].op = "store" => opened'[m] = opened[m],
         \A p \in Pairs : Keeps(queue[m][1], p) => Lists(creds'[m], p)
  PROVE  RegInv'
<1> DEFINE q == queue[m]
           r == Tail(q)
<1>1. q \in Seq(Commands) /\ q # <<>>
  BY DEF RegInv, Typed
<1>2. /\ r \in Seq(Commands) /\ Len(r) = Len(q) - 1 /\ Len(q) \in Nat /\ 1 \in 1 .. Len(q)
      /\ \A i \in 1 .. Len(r) : i + 1 \in 1 .. Len(q) /\ r[i] = q[i + 1]
      /\ \A i \in 1 .. Len(q) : i = 1 \/ (i - 1 \in 1 .. Len(r) /\ r[i - 1] = q[i])
  BY <1>1, TailIs
<1>3. /\ queue'[m] = r /\ \A o \in Members \ {m} : queue'[o] = queue[o]
      /\ queue' \in [Members -> Seq(Commands)]
  BY <1>2 DEF RegInv, Typed
<1> HIDE DEF q, r
<1>4. UNCHANGED <<answered, ledger, own>>
  BY DEF aside
<1>5. Typed'
  BY <1>3, <1>4 DEF RegInv, Typed
<1>6. RegisteredAsHeld'
  BY DEF RegInv, Typed, RegisteredAsHeld
<1>7. ASSUME NEW t \in Threads PROVE HandleOK(t)' /\ ReqOK(t)'
  <2>1. HandleOK(t) /\ ReqOK(t) /\ Member(t)' = Member(t)
    BY DEF RegInv, Member
  <2>2. ReqOK(t)'
    BY <1>4, <2>1 DEF ReqOK
  <2>3. HandleOK(t)'
    <3> SUFFICES ASSUME req[t].at \notin {"rest", "start", "listed"}
                 PROVE  opened'[Member(t)] = t /\ NoClose(queue'[Member(t)], t)
      BY <2>1 DEF HandleOK
    <3>1. Member(t) \in Members /\ opened[Member(t)] = t /\ NoClose(queue[Member(t)], t)
      BY <2>1 DEF HandleOK, ReqOK
    <3>2. CASE Member(t) = m
      <4>1. NoClose(r, t)
        BY <1>2, <3>1, <3>2 DEF NoClose, q
      <4> QED
        BY <1>3, <3>1, <3>2, <4>1
    <3>3. CASE Member(t) # m
      BY <1>3, <3>1, <3>3
    <3> QED
      BY <3>2, <3>3
  <2> QED
    BY <2>2, <2>3
<1>8. ASSUME NEW o \in Members PROVE QueueOK(o)'
  <2>1. QueueOK(o)
    BY DEF RegInv
  <2>2. CASE o # m
    BY <1>3, <1>4, <2>1, <2>2 DEF QueueOK, StoreOK
  <2>3. CASE o = m
    <3> SUFFICES ASSUME NEW i \in 1 .. Len(r), r[i].op = "store"
                 PROVE  /\ opened'[m] = r[i].by
                        /\ \A j \in 1 .. i - 1 : ~IsClose(r[j], r[i].by)
                        /\ r[i].def \in ledger.objects
      BY <1>3, <1>4, <2>3 DEF QueueOK, StoreOK
    <3>1. i + 1 \in 1 .. Len(q) /\ r[i] = q[i + 1] /\ i + 1 # 1
      BY <1>2
    <3>2. /\ opened[m] = r[i].by /\ r[i].def \in ledger.objects
          /\ \A j \in 1 .. i : ~IsClose(q[j], r[i].by)
      BY <2>1, <2>3, <3>1 DEF QueueOK, StoreOK, q
    <3>3. \A j \in 1 .. i - 1 : j + 1 \in 1 .. i /\ r[j] = q[j + 1]
      BY <1>2
    <3>4. opened'[m] = opened[m]
      BY <3>1 DEF q
    <3> QED
      BY <3>2, <3>3, <3>4
  <2> QED
    BY <2>2, <2>3
<1>9. ASSUME NEW o \in Members, NEW p \in answered[o]
      PROVE  Lists(creds'[o], p) \/ Pending(queue'[o], p)
  <2>1. Lists(creds[o], p) \/ Pending(queue[o], p)
    BY DEF RegInv, AnsweredOK
  <2>2. Lists(creds[o], p) => Lists(creds'[o], p)
    BY DEF Lists
  <2>3. CASE Pending(queue[o], p) /\ o = m
    <3>1. PICK i \in 1 .. Len(q) : Keeps(q[i], p)
      BY <2>3 DEF Pending, q
    <3>2. p \in Pairs
      BY DEF RegInv, Typed
    <3>3. CASE i = 1
      BY <2>3, <3>1, <3>2, <3>3 DEF q
    <3>4. CASE i # 1
      BY <1>2, <1>3, <2>3, <3>1, <3>4 DEF Pending
    <3> QED
      BY <3>3, <3>4
  <2> QED
    BY <1>3, <2>1, <2>2, <2>3
<1> QED
  BY <1>4, <1>5, <1>6, <1>7, <1>8, <1>9 DEF RegInv, AnsweredOK

\* What was answered is stored, under a definition of the ledger's.
LEMMA RunStoreInv == ASSUME RegInv, NEW m \in Members, RunStore(m) PROVE RegInv'
<1> DEFINE c == Head(queue[m])
           new == A!indy_prover_store_credential(creds[m], nextRef, c.request, c.credential, c.def)
<1>1. /\ queue[m] # <<>> /\ c.op = "store" /\ queue' = [queue EXCEPT ![m] = Tail(@)]
      /\ creds' = [creds EXCEPT ![m] = IF opened[m] # c.by THEN @ ELSE new]
      /\ nextRef' = IF creds' = creds THEN nextRef ELSE nextRef + 1
      /\ UNCHANGED <<opened, offers, req, cars, aside>>
  BY DEF RunStore, Drained
<1>2. c \in Commands /\ c = queue[m][1] /\ 1 \in 1 .. Len(queue[m])
  BY <1>1, TailIs DEF RegInv, Typed
<1>3. StoreOK(m, 1)
  BY <1>2 DEF RegInv, QueueOK
<1>4. opened[m] = c.by /\ c.def \in ledger.objects
  BY <1>1, <1>2, <1>3 DEF StoreOK
<1>5. c \in Stores
  BY <1>1, <1>2 DEF Commands, Closes
<1> HIDE DEF c
<1>6. /\ creds[m] \subseteq new /\ creds[m] \subseteq Held
      /\ \A d \in new : d \in creds[m] \/ (d \in Held /\ d.def = c.def)
  <2>1. c.def \in Defs /\ c.credential \in Issued \cup {None}
    BY <1>5 DEF Stores
  <2>2. creds[m] \subseteq Held /\ nextRef \in Int
    BY DEF RegInv, Typed
  <2>3. CASE c.credential # None /\ c.credential.to = c.request /\ c.credential.def = c.def
    <3>1. new = creds[m] \cup {[ref |-> nextRef, def |-> c.def, car |-> c.credential.values]}
      BY <2>3 DEF A!indy_prover_store_credential
    <3>2. c.credential.values \in Cars
      BY <2>1, <2>3 DEF Issued
    <3> QED
      BY <2>1, <2>2, <3>1, <3>2 DEF Held
  <2>4. CASE ~(c.credential # None /\ c.credential.to = c.request /\ c.credential.def = c.def)
    <3>1. new = creds[m]
      BY <2>4 DEF A!indy_prover_store_credential
    <3> QED
      BY <2>2, <3>1
  <2> QED
    BY <2>3, <2>4
<1>7. ASSUME NEW p \in Pairs, Keeps(c, p) PROVE Lists(new, p)
  <2> DEFINE d == [ref |-> nextRef, def |-> c.def, car |-> c.credential.values]
  <2>1. new = creds[m] \cup {d}
    BY <1>7 DEF A!indy_prover_store_credential, Keeps
  <2>2. d.def = p.def /\ d.car = p.car
    BY <1>7 DEF Keeps
  <2> QED
    BY <2>1, <2>2 DEF Lists
<1> HIDE DEF new
<1>8. /\ creds' \in [Members -> SUBSET Held] /\ creds'[m] = new
      /\ \A o \in Members \ {m} : creds'[o] = creds[o]
  BY <1>1, <1>4, <1>6 DEF RegInv, Typed
<1>9. HeldIsPublished'
  BY <1>1, <1>4, <1>6, <1>8 DEF RegInv, HeldIsPublished, aside
<1>10. nextRef' \in Int
  BY <1>1 DEF RegInv, Typed
<1>11. /\ opened' \in [Members -> Threads \cup {None}] /\ opened' = opened
  BY <1>1 DEF RegInv, Typed
<1>12. \A p \in Pairs : Keeps(queue[m][1], p) => Lists(creds'[m], p)
  BY <1>2, <1>7, <1>8
<1>13. \A o \in Members : creds[o] \subseteq creds'[o]
  BY <1>6, <1>8
<1> QED
  BY <1>1, <1>8, <1>9, <1>10, <1>11, <1>12, <1>13, IndyStep

LEMMA RunCloseInv == ASSUME RegInv, NEW m \in Members, RunClose(m) PROVE RegInv'
<1> DEFINE c == Head(queue[m])
<1>1. /\ queue[m] # <<>> /\ c.op = "close" /\ queue' = [queue EXCEPT ![m] = Tail(@)]
      /\ opened' = [opened EXCEPT ![m] = IF @ = c.by THEN None ELSE @]
      /\ UNCHANGED <<creds, offers, req, cars, nextRef, aside>>
  BY DEF RunClose, Drained
<1>2. c = queue[m][1] /\ 1 \in 1 .. Len(queue[m]) /\ Len(queue[m]) \in Nat
  BY <1>1, TailIs DEF RegInv, Typed
<1> HIDE DEF c
<1>3. /\ opened' \in [Members -> Threads \cup {None}]
      /\ opened'[m] = IF opened[m] = c.by THEN None ELSE opened[m]
      /\ \A o \in Members \ {m} : opened'[o] = opened[o]
  BY <1>1 DEF RegInv, Typed
<1>4. \A t \in Threads : opened[m] = t /\ NoClose(queue[m], t) => opened'[m] = t
  BY <1>1, <1>2, <1>3 DEF NoClose, IsClose
<1>5. ASSUME NEW i \in 1 .. Len(queue[m]), i # 1, queue[m][i].op = "store"
      PROVE  opened'[m] = opened[m]
  <2>1. StoreOK(m, i) /\ 1 \in 1 .. i - 1
    BY <1>5, <1>2 DEF RegInv, QueueOK
  <2>2. opened[m] = queue[m][i].by /\ ~IsClose(queue[m][1], queue[m][i].by)
    BY <1>5, <2>1 DEF StoreOK
  <2> QED
    BY <1>1, <1>2, <1>3, <2>2 DEF IsClose
<1>6. \A p \in Pairs : ~Keeps(queue[m][1], p)
  BY <1>1, <1>2 DEF Keeps
<1>7. creds' \in [Members -> SUBSET Held] /\ nextRef' \in Int
      /\ \A o \in Members : creds[o] \subseteq creds'[o]
  BY <1>1 DEF RegInv, Typed
<1>8. HeldIsPublished'
  BY <1>1 DEF RegInv, HeldIsPublished, aside
<1> QED
  BY <1>1, <1>3, <1>4, <1>5, <1>6, <1>7, <1>8, IndyStep

-----------------------------------------------------------------------------
(* A restart, and the VC service. *)

LEMMA RestartInv == ASSUME RegInv, Restart PROVE RegInv'
<1> USE DEF Restart
<1>1. Typed'
  BY RestIs DEF RegInv, Typed
<1>2. RegisteredAsHeld' /\ HeldIsPublished'
  BY DEF RegInv, RegisteredAsHeld, HeldIsPublished
<1>3. \A t \in Threads : HandleOK(t)' /\ ReqOK(t)'
  BY RestIs DEF HandleOK, ReqOK
<1>4. \A m \in Members : QueueOK(m)' /\ AnsweredOK(m)'
  BY DEF QueueOK, AnsweredOK
<1> QED
  BY <1>1, <1>2, <1>3, <1>4 DEF RegInv

LEMMA SubmitIs ==
  ASSUME NEW l \in ServiceLedgers, NEW request, request.type \in {"SCHEMA", "CRED_DEF"},
         request.data \in Objs
  PROVE  /\ L!indy_submit_request(l, request).ledger \in ServiceLedgers
         /\ l.objects \subseteq L!indy_submit_request(l, request).ledger.objects
<1> DEFINE data == request.data
           w == [l EXCEPT !.objects = @ \cup {data}, !.behind = @ \cup {data}]
<1>1. w \in ServiceLedgers /\ l.objects \subseteq w.objects
  BY DEF ServiceLedgers
<1>2. L!Written(l, request) = w
  BY DEF L!Written
<1> HIDE DEF w
<1>3. CASE L!IsAccepted(l, request)
  BY <1>1, <1>2, <1>3 DEF L!indy_submit_request
<1>4. CASE ~L!IsAccepted(l, request)
  BY <1>4 DEF L!indy_submit_request
<1> QED
  BY <1>3, <1>4

LEMMA ServiceStep ==
  ASSUME RegInv, UNCHANGED backend, ledger' \in ServiceLedgers,
         ledger.objects \subseteq ledger'.objects, own \subseteq own', own' \subseteq Defs
  PROVE  RegInv'
<1>1. UNCHANGED <<opened, creds, queue, offers, req, cars, nextRef, answered>>
  BY DEF backend
<1>2. Typed' /\ RegisteredAsHeld' /\ HeldIsPublished'
  BY <1>1 DEF RegInv, Typed, RegisteredAsHeld, HeldIsPublished
<1>3. ASSUME NEW t \in Threads PROVE HandleOK(t)' /\ ReqOK(t)'
  <2>1. HandleOK(t) /\ ReqOK(t)
    BY DEF RegInv
  <2> QED
    BY <1>1, <2>1 DEF HandleOK, ReqOK, Member
<1>4. ASSUME NEW m \in Members PROVE QueueOK(m)' /\ AnsweredOK(m)'
  <2>1. QueueOK(m) /\ AnsweredOK(m)
    BY DEF RegInv
  <2> QED
    BY <1>1, <2>1 DEF QueueOK, AnsweredOK, StoreOK
<1> QED
  BY <1>2, <1>3, <1>4 DEF RegInv

LEMMA PublishIs ==
  ASSUME RegInv, NEW signed, signed.type \in {"SCHEMA", "CRED_DEF"}, signed.data \in Objs,
         UNCHANGED backend, own \subseteq own', own' \subseteq Defs,
         ledger' = L!indy_submit_request(ledger, signed).ledger \/ ledger' = ledger
  PROVE  RegInv'
<1> DEFINE after == L!indy_submit_request(ledger, signed).ledger
<1>1. ledger \in ServiceLedgers
  BY DEF RegInv, Typed
<1>2. after \in ServiceLedgers /\ ledger.objects \subseteq after.objects
  BY <1>1, SubmitIs
<1> HIDE DEF after
<1>3. CASE ledger' = after
  BY <1>2, <1>3, ServiceStep
<1>4. CASE ledger' = ledger
  BY <1>1, <1>4, ServiceStep
<1> QED
  BY <1>3, <1>4 DEF after

LEMMA PublishSchemaInv == ASSUME RegInv, PublishSchema PROVE RegInv'
<1> DEFINE request == L!indy_build_schema_request(Issuer, Schema)
           signed == L!SignedBy(request, Issuer, Issuer)
<1>1. signed.type = "SCHEMA" /\ signed.data \in Objs
  BY DEF L!indy_build_schema_request, L!Request, L!SignedBy, Objs
<1> HIDE DEF request
<1>2. /\ UNCHANGED backend /\ own' = own
      /\ ledger' = L!indy_submit_request(ledger, signed).ledger
  BY DEF PublishSchema, Publish, request
<1> HIDE DEF signed
<1>3. own \subseteq own' /\ own' \subseteq Defs
  BY <1>2 DEF RegInv, Typed
<1> QED
  BY <1>1, <1>2, <1>3, PublishIs

LEMMA PublishDefInv ==
  ASSUME RegInv, NEW tag \in Tags, NEW isTaken \in BOOLEAN, PublishDef(tag, isTaken)
  PROVE  RegInv'
<1> DEFINE def == [schema |-> Schema, tag |-> tag]
           request == L!indy_build_cred_def_request(Issuer, def)
           signed == L!SignedBy(request, Issuer, Issuer)
<1>1. def \in Defs
  BY DEF Defs
<1>2. signed.type = "CRED_DEF" /\ signed.data \in Objs
  BY <1>1 DEF L!indy_build_cred_def_request, L!Request, L!SignedBy, Objs
<1>3. own' = own \cup {def}
  BY DEF PublishDef, A!indy_issuer_create_and_store_credential_def
<1> HIDE DEF request
<1>4. /\ UNCHANGED backend
      /\ ledger' = L!indy_submit_request(ledger, signed).ledger \/ ledger' = ledger
  BY DEF PublishDef, Publish, request
<1> HIDE DEF signed, def
<1>5. own \subseteq own' /\ own' \subseteq Defs
  BY <1>1, <1>3 DEF RegInv, Typed
<1> QED
  BY <1>2, <1>4, <1>5, PublishIs

-----------------------------------------------------------------------------
LEMMA RequestInv ==
  ASSUME RegInv, NEW t \in Threads, NEW m \in Members, Request(t, m) PROVE RegInv'
<1>1. CASE \E car \in Cars : Start(t, "createVC", m, 0, car)
  BY <1>1, StartInv
<1>2. CASE Start(t, "getVC", m, 0, None)
  BY <1>2, StartInv
<1>3. CASE \E ref \in 1 .. MaxRef : Start(t, "postCar", m, ref, None)
  BY <1>3, StartInv
<1> QED
  BY <1>1, <1>2, <1>3 DEF Request

LEMMA RegStep == RegInv /\ [Next]_vars => RegInv'
<1> SUFFICES ASSUME RegInv, [Next]_vars PROVE RegInv'
  OBVIOUS
<1>1. ASSUME NEW t \in Threads, Serve(t) PROVE RegInv'
  BY <1>1, ServeInv
<1>2. ASSUME NEW t \in Threads, NEW m \in Members, Request(t, m) PROVE RegInv'
  BY <1>2, RequestInv
<1>3. ASSUME NEW m \in Members, Indy(m) PROVE RegInv'
  BY <1>3, RunStoreInv, RunCloseInv DEF Indy
<1>4. CASE Restart
  BY <1>4, RestartInv
<1>5. CASE PublishSchema
  BY <1>5, PublishSchemaInv
<1>6. ASSUME NEW tag \in Tags, NEW isTaken \in BOOLEAN, PublishDef(tag, isTaken) PROVE RegInv'
  BY <1>6, PublishDefInv
<1>7. CASE UNCHANGED vars
  <2>1. UNCHANGED backend /\ UNCHANGED <<ledger, own>>
    BY <1>7 DEF vars, backend
  <2> QED
    BY <2>1, ServiceStep DEF RegInv, Typed
<1> QED
  BY <1>1, <1>2, <1>3, <1>4, <1>5, <1>6, <1>7 DEF Next

LEMMA RegHolds == Spec => []RegInv
BY RegInit, RegStep, PTL DEF Spec

-----------------------------------------------------------------------------
(* No handle is lost: who closes the wallet, or which close in the queue. *)

Busy(t) == req[t].at \notin {"rest", "start", "listed"}
ClosedIn(q, t) == \E i \in 1 .. Len(q) : q[i] = Close(t)
Kept(m) ==
  opened[m] # None =>
    (Member(opened[m]) = m /\ Busy(opened[m])) \/ ClosedIn(queue[m], opened[m])
AllKept == \A m \in Members : Kept(m)
KeptInv == RegInv /\ AllKept

\* A step of a request that goes on.
LEMMA GoesOn ==
  ASSUME RegInv, AllKept, NEW t \in Threads, OnlyReq(t), UNCHANGED <<opened, queue>>,
         Busy(t) => Busy(t)' /\ Member(t)' = Member(t)
  PROVE  AllKept'
<1> SUFFICES ASSUME NEW m \in Members, opened[m] # None
             PROVE  \/ (Member(opened[m]) = m /\ Busy(opened[m]))'
                    \/ ClosedIn(queue[m], opened[m])
  BY DEF AllKept, Kept
<1>1. (Member(opened[m]) = m /\ Busy(opened[m])) \/ ClosedIn(queue[m], opened[m])
  BY DEF AllKept, Kept
<1>2. CASE opened[m] = t
  BY <1>1, <1>2
<1>3. CASE opened[m] # t
  <2>1. opened[m] \in Threads
    BY DEF RegInv, Typed
  <2> QED
    BY <1>1, <1>3, <2>1 DEF OnlyReq, Member, Busy
<1> QED
  BY <1>2, <1>3

\* One that leaves the close of its wallet behind.
LEMMA LeavesClose ==
  ASSUME RegInv, AllKept, NEW t \in Threads, OnlyReq(t), UNCHANGED opened,
         NEW cs \in Seq(Commands), Leave(t, cs), ClosedIn(cs, t)
  PROVE  AllKept'
<1> SUFFICES ASSUME NEW m \in Members, opened[m] # None
             PROVE  \/ (Member(opened[m]) = m /\ Busy(opened[m]))'
                    \/ ClosedIn(queue'[m], opened[m])
  BY DEF AllKept, Kept
<1> DEFINE q == queue[m]
<1>1. (Member(opened[m]) = m /\ Busy(opened[m])) \/ ClosedIn(q, opened[m])
  BY DEF AllKept, Kept
<1>2. q \in Seq(Commands) /\ opened[m] \in Threads
  BY DEF RegInv, Typed
<1>3. queue'[m] = IF m = Member(t) THEN q \o cs ELSE q
  BY DEF Leave, RegInv, Typed
<1> HIDE DEF q
<1>4. /\ Len(q \o cs) = Len(q) + Len(cs) /\ Len(q) \in Nat /\ Len(cs) \in Nat
      /\ \A i \in 1 .. Len(q) : (q \o cs)[i] = q[i]
      /\ \A i \in 1 .. Len(cs) : (q \o cs)[Len(q) + i] = cs[i]
  BY <1>2, ConcatIs
<1>5. ASSUME NEW o, ClosedIn(q, o) PROVE ClosedIn(queue'[m], o)
  <2>1. PICK i \in 1 .. Len(q) : q[i] = Close(o)
    BY <1>5 DEF ClosedIn
  <2>2. i \in 1 .. Len(q \o cs) /\ (q \o cs)[i] = Close(o)
    BY <1>4, <2>1
  <2> QED
    BY <1>3, <2>1, <2>2 DEF ClosedIn
<1>6. CASE ClosedIn(q, opened[m])
  BY <1>5, <1>6
<1>7. CASE Member(opened[m]) = m /\ Busy(opened[m]) /\ opened[m] = t
  <2>1. PICK i \in 1 .. Len(cs) : cs[i] = Close(t)
    BY DEF ClosedIn
  <2>2. Len(q) + i \in 1 .. Len(q \o cs) /\ (q \o cs)[Len(q) + i] = Close(t)
    BY <1>4, <2>1
  <2> QED
    BY <1>3, <1>7, <2>2 DEF ClosedIn
<1>8. CASE Member(opened[m]) = m /\ Busy(opened[m]) /\ opened[m] # t
  BY <1>2, <1>8 DEF OnlyReq, Member, Busy
<1> QED
  BY <1>1, <1>6, <1>7, <1>8

LEMMA ClosingCloses ==
  ASSUME NEW t \in Threads, NEW cs, Closing(t, cs)
  PROVE  cs \in Seq(Commands) /\ ClosedIn(cs, t)
<1> DEFINE c == Close(t)
<1>1. cs \in Seq(Commands)
  BY ClosingIs
<1> HIDE DEF c
<1>2. cs = <<c>> \/ cs = <<c, c>>
  BY DEF Closing, c
<1>3. 1 \in 1 .. Len(cs) /\ cs[1] = c
  BY <1>2
<1> QED
  BY <1>1, <1>3 DEF ClosedIn, c

\* However a request is answered.
LEMMA EndsClosed ==
  ASSUME RegInv, AllKept, NEW t \in Threads, UNCHANGED opened, Answered(t),
         NEW cs, Closing(t, cs), Leave(t, cs)
  PROVE  AllKept'
<1>1. OnlyReq(t)
  BY RestIs, ReqIs DEF Answered
<1> QED
  BY <1>1, ClosingCloses, LeavesClose

LEMMA FailCloses ==
  ASSUME RegInv, AllKept, NEW t \in Threads, UNCHANGED opened, Fail(t)
  PROVE  AllKept'
BY EndsClosed DEF Fail, Closing

\* The next step of a request that holds its wallet.
LEMMA NextIsBusy ==
  ASSUME RegInv, AllKept, NEW t \in Threads, NEW c, req' = [req EXCEPT ![t] = c],
         c \in ReqRecords, c.member = req[t].member,
         c.at \notin {"rest", "start", "listed"}, UNCHANGED <<opened, queue>>
  PROVE  AllKept'
<1>1. OnlyReq(t) /\ req'[t] = c
  BY ReqIs
<1> QED
  BY <1>1, GoesOn DEF Busy, Member

LEMMA OpenKeeps ==
  ASSUME RegInv, AllKept, NEW t \in Threads, NEW rightPassword \in BOOLEAN,
         OpenUserWallet(t, rightPassword)
  PROVE  AllKept'
<1> DEFINE m == Member(t)
<1>1. req[t].at = "start" /\ m \in Members /\ req[t] \in ReqRecords /\ UNCHANGED queue
  BY DEF OpenUserWallet, RegInv, ReqOK, Typed
<1>2. CASE rightPassword /\ opened[m] = None
  <2> DEFINE c == [req[t] EXCEPT !.at = "opened"]
  <2>1. opened' = [opened EXCEPT ![m] = t] /\ req' = [req EXCEPT ![t] = c]
    BY <1>2 DEF OpenUserWallet, Goto
  <2>2. c \in ReqRecords /\ c.at = "opened" /\ c.member = m
    BY <1>1 DEF ReqRecords, Member
  <2> HIDE DEF c
  <2>3. OnlyReq(t) /\ req'[t] = c
    BY <2>1, <2>2, ReqIs
  <2>4. opened'[m] = t /\ \A o \in Members \ {m} : opened'[o] = opened[o]
    BY <1>1, <2>1 DEF RegInv, Typed
  <2> SUFFICES ASSUME NEW o \in Members PROVE Kept(o)'
    BY DEF AllKept
  <2>5. CASE o = m
    BY <2>2, <2>3, <2>4, <2>5 DEF Kept, Busy, Member
  <2>6. CASE o # m /\ opened[o] # None
    <3>1. opened[o] \in Threads /\ Kept(o) /\ opened'[o] = opened[o]
      BY <2>4, <2>6 DEF RegInv, Typed, AllKept
    <3>2. ~Busy(t)
      BY <1>1 DEF Busy
    <3>3. CASE ClosedIn(queue[o], opened[o])
      BY <1>1, <3>1, <3>3 DEF Kept
    <3>4. CASE Member(opened[o]) = o /\ Busy(opened[o])
      <4>1. opened[o] # t
        BY <3>2, <3>4
      <4> QED
        BY <2>3, <3>1, <3>4, <4>1 DEF Kept, OnlyReq, Member, Busy
    <3> QED
      BY <2>6, <3>1, <3>3, <3>4 DEF Kept
  <2>7. CASE o # m /\ opened[o] = None
    BY <2>4, <2>7 DEF Kept
  <2> QED
    BY <2>5, <2>6, <2>7
<1>3. CASE ~(rightPassword /\ opened[m] = None)
  <2>1. Answered(t) /\ UNCHANGED opened
    BY <1>3 DEF OpenUserWallet
  <2>2. OnlyReq(t)
    BY <2>1, RestIs, ReqIs DEF Answered
  <2>3. ~Busy(t)
    BY <1>1 DEF Busy
  <2> QED
    BY <1>1, <2>1, <2>2, <2>3, GoesOn
<1> QED
  BY <1>2, <1>3

LEMMA StartKeeps ==
  ASSUME RegInv, AllKept, NEW t \in Threads, NEW m \in Members, Request(t, m)
  PROVE  AllKept'
<1>1. PICK op, ref, car : Start(t, op, m, ref, car)
  BY DEF Request
<1>2. UNCHANGED <<opened, queue>> /\ req[t] = Rest
      /\ \A o \in Threads \ {t} : req'[o] = req[o]
  BY <1>1 DEF Start, RegInv, Typed
<1>3. ~Busy(t)
  BY <1>2, RestIs DEF Busy
<1> SUFFICES ASSUME NEW o \in Members, opened[o] # None
             PROVE  \/ (Member(opened[o]) = o /\ Busy(opened[o]))'
                    \/ ClosedIn(queue[o], opened[o])
  BY <1>2 DEF AllKept, Kept
<1>4. Kept(o) /\ opened[o] \in Threads
  BY DEF AllKept, RegInv, Typed
<1> QED
  BY <1>2, <1>3, <1>4 DEF Kept, Member, Busy

LEMMA ServeKeeps ==
  ASSUME RegInv, AllKept, NEW t \in Threads, Serve(t) PROVE AllKept'
<1>1. req[t] \in ReqRecords /\ offers \in [Members -> Defs \cup {None}]
      /\ (req[t].at # "rest" => Member(t) \in Members)
  BY DEF RegInv, Typed, ReqOK
<1>2. ASSUME NEW rightPassword \in BOOLEAN, OpenUserWallet(t, rightPassword) PROVE AllKept'
  BY <1>2, OpenKeeps
<1>3. ASSUME NEW def \in Defs, GetCredentialOffer(t, def) PROVE AllKept'
  <2> DEFINE c == [req[t] EXCEPT !.at = "offered", !.def = def]
  <2>1. req' = [req EXCEPT ![t] = c] /\ UNCHANGED <<opened, queue>>
    BY <1>3 DEF GetCredentialOffer
  <2>2. c \in ReqRecords /\ c.member = req[t].member /\ c.at = "offered"
    BY <1>1 DEF ReqRecords
  <2> HIDE DEF c
  <2> QED
    BY <2>1, <2>2, NextIsBusy
<1>4. ASSUME NEW isCredential \in BOOLEAN, StoreCredential(t, isCredential) PROVE AllKept'
  <2> DEFINE cs == <<Store(t, isCredential), Close(t)>>
  <2>1. OnlyReq(t) /\ UNCHANGED opened /\ Leave(t, cs)
    BY <1>4, RestIs, ReqIs DEF StoreCredential, Answered
  <2>2. Store(t, isCredential) \in Commands
    BY <1>4, StoredIs DEF StoreCredential, Commands
  <2>3. Close(t) \in Commands
    BY DEF Close, Commands, Closes
  <2>4. cs \in Seq(Commands) /\ ClosedIn(cs, t)
    <3> DEFINE s == Store(t, isCredential)
               d == Close(t)
    <3>1. s \in Commands /\ d \in Commands
      BY <2>2, <2>3
    <3> HIDE DEF s, d
    <3>2. <<s, d>> \in Seq(Commands) /\ 2 \in 1 .. Len(<<s, d>>) /\ <<s, d>>[2] = d
      BY <3>1
    <3> QED
      BY <3>2 DEF ClosedIn, s, d
  <2> HIDE DEF cs
  <2> QED
    BY <2>1, <2>4, LeavesClose
<1>5. ASSUME GetCredentials(t) PROVE AllKept'
  <2> DEFINE list == A!indy_prover_get_credentials(creds[Member(t)], Issuer)
             c == [req[t] EXCEPT !.at = "listed", !.list = list]
  <2>1. req' = [req EXCEPT ![t] = c] /\ UNCHANGED opened /\ Leave(t, <<Close(t)>>)
        /\ req[t].at = "opened"
    BY <1>5 DEF GetCredentials, At
  <2>2. list \in SUBSET Held
    BY <1>1, <2>1 DEF RegInv, Typed, A!indy_prover_get_credentials
  <2> HIDE DEF list
  <2>3. c \in ReqRecords
    BY <1>1, <2>2 DEF ReqRecords
  <2> HIDE DEF c
  <2>4. OnlyReq(t)
    BY <2>1, <2>3, ReqIs
  <2>5. <<Close(t)>> \in Seq(Commands) /\ ClosedIn(<<Close(t)>>, t)
    BY ClosingCloses DEF Closing
  <2> QED
    BY <2>1, <2>4, <2>5, LeavesClose
<1>6. ASSUME AnswerList(t) \/ NoProofRequest(t) \/ Throws(t) PROVE AllKept'
  BY <1>6, FailCloses DEF AnswerList, NoProofRequest, Throws
<1>7. ASSUME GetProofRequest(t) PROVE AllKept'
  <2> DEFINE c == [req[t] EXCEPT !.at = "requested", !.def = offers[Member(t)]]
  <2>1. req' = [req EXCEPT ![t] = c] /\ UNCHANGED <<opened, queue>> /\ req[t].at = "opened"
    BY <1>7 DEF GetProofRequest, At
  <2>2. offers[Member(t)] \in Defs \cup {None}
    BY <1>1, <2>1
  <2>3. c \in ReqRecords /\ c.member = req[t].member /\ c.at = "requested"
    BY <1>1, <2>2 DEF ReqRecords
  <2> HIDE DEF c
  <2> QED
    BY <2>1, <2>3, NextIsBusy
<1>8. ASSUME NEW isUpToDate \in BOOLEAN, ReadCredDef(t, isUpToDate) PROVE AllKept'
  <2>1. UNCHANGED opened
    BY <1>8 DEF ReadCredDef
  <2>2. CASE Fail(t)
    BY <2>1, <2>2, FailCloses
  <2>3. CASE Goto(t, "defined") /\ UNCHANGED queue
    <3> DEFINE c == [req[t] EXCEPT !.at = "defined"]
    <3>1. req' = [req EXCEPT ![t] = c]
      BY <2>3 DEF Goto
    <3>2. c \in ReqRecords /\ c.member = req[t].member /\ c.at = "defined"
      BY <1>1 DEF ReqRecords
    <3> HIDE DEF c
    <3> QED
      BY <2>1, <2>3, <3>1, <3>2, NextIsBusy
  <2>4. CASE req' = [req EXCEPT ![t].reads = @ + 1] /\ UNCHANGED queue
    <3> DEFINE c == [req[t] EXCEPT !.reads = @ + 1]
    <3>1. req' = [req EXCEPT ![t] = c]
      BY <2>4
    <3>2. c \in ReqRecords /\ c.member = req[t].member /\ c.at = "offered"
      BY <1>1, <1>8 DEF ReqRecords, ReadCredDef, At
    <3> HIDE DEF c
    <3> QED
      BY <2>1, <2>4, <3>1, <3>2, NextIsBusy
  <2> QED
    BY <1>8, <2>2, <2>3, <2>4 DEF ReadCredDef
<1>9. ASSUME NEW isUpToDate \in BOOLEAN, CreateVP(t, isUpToDate) PROVE AllKept'
  <2>1. UNCHANGED opened
    BY <1>9 DEF CreateVP
  <2>2. CASE Fail(t)
    BY <2>1, <2>2, FailCloses
  <2>3. CASE ~Fail(t)
    <3>1. RegInv'
      BY <1>9, VPInv
    <3>2. req' = [req EXCEPT ![t] = [@ EXCEPT !.at = "presented", !.proof = Proof(t)]]
          /\ UNCHANGED queue
      BY <1>9, <2>3 DEF CreateVP
    <3>3. req' \in [Threads -> ReqRecords]
      BY <3>1 DEF RegInv, Typed
    <3>4. OnlyReq(t)
      BY <3>2, <3>3 DEF OnlyReq, RegInv, Typed
    <3>5. Busy(t)' /\ Member(t)' = Member(t)
      BY <1>1, <3>2 DEF Busy, Member, ReqRecords, RegInv, Typed
    <3> QED
      BY <2>1, <3>2, <3>4, <3>5, GoesOn
  <2> QED
    BY <2>2, <2>3
<1>10. ASSUME VerifyVP(t) PROVE AllKept'
  <2>1. UNCHANGED opened
    BY <1>10 DEF VerifyVP
  <2>2. CASE Answered(t) /\ Leave(t, <<Close(t), Close(t)>>)
    BY <2>1, <2>2, EndsClosed DEF Closing
  <2>3. CASE Goto(t, "verified") /\ UNCHANGED queue
    <3> DEFINE c == [req[t] EXCEPT !.at = "verified"]
    <3>1. req' = [req EXCEPT ![t] = c]
      BY <2>3 DEF Goto
    <3>2. c \in ReqRecords /\ c.member = req[t].member /\ c.at = "verified"
      BY <1>1 DEF ReqRecords
    <3> HIDE DEF c
    <3> QED
      BY <2>1, <2>3, <3>1, <3>2, NextIsBusy
  <2> QED
    BY <1>10, <2>2, <2>3 DEF VerifyVP
<1>11. ASSUME NEW isAnswered \in BOOLEAN, CreateCar(t, isAnswered) PROVE AllKept'
  <2>1. UNCHANGED opened
    BY <1>11 DEF CreateCar
  <2>2. CASE Answered(t) /\ Leave(t, <<Close(t), Close(t)>>)
    BY <2>1, <2>2, EndsClosed DEF Closing
  <2>3. CASE Fail(t)
    BY <2>1, <2>3, FailCloses
  <2> QED
    BY <1>11, <2>2, <2>3 DEF CreateCar
<1> QED
  BY <1>2, <1>3, <1>4, <1>5, <1>6, <1>7, <1>8, <1>9, <1>10, <1>11 DEF Serve

\* Indy runs the first command of a queue: the close, if it is of the handle, closes.
LEMMA IndyKeeps ==
  ASSUME RegInv, AllKept, NEW m \in Members, Indy(m) PROVE AllKept'
<1> DEFINE q == queue[m]
           r == Tail(q)
           c == Head(q)
<1>1. /\ q # <<>> /\ queue' = [queue EXCEPT ![m] = r] /\ UNCHANGED req
      /\ \/ c.op = "store" /\ UNCHANGED opened
         \/ c.op = "close" /\ opened' = [opened EXCEPT ![m] = IF @ = c.by THEN None ELSE @]
  BY DEF Indy, RunStore, RunClose, Drained
<1>2. q \in Seq(Commands)
  BY DEF RegInv, Typed
<1>3. /\ queue'[m] = r /\ \A o \in Members \ {m} : queue'[o] = queue[o]
      /\ \A o \in Members \ {m} : opened'[o] = opened[o]
  BY <1>1 DEF RegInv, Typed
<1>4. /\ opened'[m] = opened[m] \/ opened'[m] = None
      /\ c.op = "close" /\ c.by = opened[m] => opened'[m] = None
  BY <1>1 DEF RegInv, Typed
<1>5. /\ c = q[1] /\ Len(r) = Len(q) - 1 /\ Len(q) \in Nat
      /\ \A i \in 1 .. Len(q) : i = 1 \/ (i - 1 \in 1 .. Len(r) /\ r[i - 1] = q[i])
  BY <1>1, <1>2, TailIs
<1> HIDE DEF q, r, c
<1> SUFFICES ASSUME NEW o \in Members, opened'[o] # None
             PROVE  \/ (Member(opened[o]) = o /\ Busy(opened[o]))'
                    \/ ClosedIn(queue'[o], opened'[o])
  BY DEF AllKept, Kept
<1>6. opened'[o] = opened[o]
  BY <1>3, <1>4
<1>7. (Member(opened[o]) = o /\ Busy(opened[o])) \/ ClosedIn(queue[o], opened[o])
  BY <1>6 DEF AllKept, Kept
<1>8. CASE Member(opened[o]) = o /\ Busy(opened[o])
  BY <1>1, <1>6, <1>8 DEF Member, Busy
<1>9. CASE ClosedIn(queue[o], opened[o]) /\ o # m
  BY <1>3, <1>6, <1>9
<1>10. CASE ClosedIn(queue[o], opened[o]) /\ o = m
  <2>1. PICK i \in 1 .. Len(q) : q[i] = Close(opened[m])
    BY <1>10 DEF ClosedIn, q
  <2>2. Close(opened[m]).op = "close" /\ Close(opened[m]).by = opened[m]
    BY DEF Close
  <2>3. i # 1
    BY <1>4, <1>5, <1>6, <1>10, <2>1, <2>2
  <2>4. i - 1 \in 1 .. Len(r) /\ r[i - 1] = Close(opened[m])
    BY <1>5, <2>1, <2>3
  <2> QED
    BY <1>3, <1>6, <1>10, <2>4 DEF ClosedIn
<1> QED
  BY <1>7, <1>8, <1>9, <1>10

LEMMA KeptHolds == Spec => []KeptInv
<1>1. Init => KeptInv
  BY RegInit DEF Init, KeptInv, AllKept, Kept
<1>2. KeptInv /\ [Next]_vars => KeptInv'
  <2> SUFFICES ASSUME RegInv, AllKept, [Next]_vars PROVE AllKept'
    BY RegStep DEF KeptInv
  <2>1. ASSUME NEW t \in Threads, Serve(t) PROVE AllKept'
    BY <2>1, ServeKeeps
  <2>2. ASSUME NEW t \in Threads, NEW m \in Members, Request(t, m) PROVE AllKept'
    BY <2>2, StartKeeps
  <2>3. ASSUME NEW m \in Members, Indy(m) PROVE AllKept'
    BY <2>3, IndyKeeps
  <2>4. CASE Restart
    BY <2>4 DEF Restart, AllKept, Kept
  <2>5. CASE UNCHANGED <<opened, queue, req>>
    BY <2>5 DEF AllKept, Kept, Member, Busy
  <2>6. CASE PublishSchema \/ \E tag \in Tags, isTaken \in BOOLEAN : PublishDef(tag, isTaken)
    <3>1. UNCHANGED <<opened, queue, req>>
      BY <2>6 DEF PublishSchema, PublishDef, Publish, backend
    <3> QED
      BY <2>5, <3>1
  <2>7. CASE UNCHANGED vars
    BY <2>5, <2>7 DEF vars
  <2> QED
    BY <2>1, <2>2, <2>3, <2>4, <2>6, <2>7 DEF Next
<1> QED
  BY <1>1, <1>2, PTL DEF Spec

-----------------------------------------------------------------------------
(* The theorems. *)

\* However the requests for one wallet overlap, and whichever closes an earlier one
\* left in the queue, a request past openUserWallet has the wallet until it is answered.
THEOREM HandlesStayOpen == Spec => []HandleStaysOpen
<1>1. RegInv => HandleStaysOpen
  BY DEF RegInv, HandleOK, HandleStaysOpen
<1> QED
  BY <1>1, RegHolds, PTL

\* Every registered car is of the credential the member chose, which its wallet holds,
\* whatever was restarted, stored or answered late in between.
THEOREM RegisteredCarsAreHeld == Spec => []RegisteredAsHeld
<1>1. RegInv => RegisteredAsHeld
  BY DEF RegInv
<1> QED
  BY <1>1, RegHolds, PTL

\* No wallet holds a credential of a definition the ledger did not take.
THEOREM HeldArePublished == Spec => []HeldIsPublished
<1>1. RegInv => HeldIsPublished
  BY DEF RegInv
<1> QED
  BY <1>1, RegHolds, PTL

\* A list of credentials misses nothing that createVC answered before it was asked for:
\* an unawaited store finds its handle open, since the close comes after it, and the
\* list waits for the queue.
THEOREM ListsAreComplete == Spec => []ListIsComplete
<1>1. RegInv => ListIsComplete
  <2> SUFFICES ASSUME RegInv, NEW t \in Threads, At(t, "getVC", "listed"),
                      NEW p \in req[t].due
               PROVE  p \in {[def |-> c.def, car |-> c.car] : c \in req[t].list}
    BY DEF ListIsComplete
  <2>1. req[t].due \subseteq Pairs
    BY DEF RegInv, Typed, ReqRecords
  <2>2. PICK c \in req[t].list : c.def = p.def /\ c.car = p.car
    BY DEF RegInv, ReqOK, At, Lists
  <2>3. p = [def |-> c.def, car |-> c.car]
    BY <2>1, <2>2 DEF Pairs
  <2> QED
    BY <2>2, <2>3
<1> QED
  BY <1>1, RegHolds, PTL
\* However many requests, members and credentials there are, and wherever each request
\* fails, an open wallet has a request that will close it or a close in its queue.
THEOREM HandlesAreKept == Spec => []NoHandleIsLost
<1>1. KeptInv => NoHandleIsLost
  <2> SUFFICES ASSUME KeptInv, NEW m \in Members, opened[m] # None
               PROVE  \/ Member(opened[m]) = m
                         /\ req[opened[m]].at \notin {"rest", "start", "listed"}
                      \/ \E i \in DOMAIN queue[m] : queue[m][i] = Close(opened[m])
    BY DEF NoHandleIsLost
  <2>1. queue[m] \in Seq(Commands)
    BY DEF KeptInv, RegInv, Typed
  <2>2. DOMAIN queue[m] = 1 .. Len(queue[m])
    BY <2>1
  <2> QED
    BY <2>2 DEF KeptInv, AllKept, Kept, Busy, ClosedIn
<1> QED
  BY <1>1, KeptHolds, PTL
==============================================================================
