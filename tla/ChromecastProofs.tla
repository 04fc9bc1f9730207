-------------------------- MODULE ChromecastProofs --------------------------
(***************************************************************************)
(* For any number of ccs, addresses, presses and failures of the device: a *)
(* nil connection is written to only after a move that failed, and a call  *)
(* that nobody disturbed does not lose an answer the loop has read.        *)
(***************************************************************************)
EXTENDS Chromecast, SequenceTheorems, TLAPS

-----------------------------------------------------------------------------
(* The inductive invariant. *)

\* where a goroutine sends through its cc, and where it is Busy
Calls == {"store", "header", "length", "data", "wait"}
Sending == Calls \cup {"load"}

Places == Sending \cup {"idle", "lookup", "entries", "drop", "dial", "list", "nil", "fault"}

Kinds == {"status", "volume", "close", "moving", "connect"}

Frames == [at : Places, obj : Objects \cup {Nil}, kind : Kinds, id : Int,
           full : BOOLEAN, found : Addresses \cup {Nil}, arrived : BOOLEAN, overlapped : BOOLEAN]

Mail == [id : Int, by : Callers \cup {"over", "device"}]

CCs == [conn : {"nil", "open", "closed", "lost"}, addr : Addresses \cup {Nil},
        loop : {"ended", "reading", "pong", "pongdata"},
        map : [Ids -> {"none", "room", "full"} \cup Callers],
        half : {"nobody", Loop} \cup Callers, asked : Seq(Mail), inbound : Seq(Mail)]

Types ==
  /\ devices \in Objects \cup {Nil}
  /\ cc \in [Objects -> CCs]
  /\ frame \in [Callers -> Frames]
  /\ address \in Addresses
  /\ unmoved \in BOOLEAN

\* The hub's goroutine uses a cc only to send.
HubShape ==
  LET f == frame[Hub] IN
  /\ f.at \in Sending \cup {"idle", "lookup", "nil", "fault"}
  /\ f.at \in {"nil", "fault"} <=> Crashed
  /\ f.at \in Sending <=> f.obj # Nil
  /\ f.at \in Sending => f.kind \in {"status", "volume"}

\* The check's goroutine works on the listed cc or on a new one, of which
\* nobody knows yet.
CheckShape ==
  LET f == frame[Check] IN
  /\ f.at # "lookup"
  /\ f.at \in Sending \cup {"drop", "dial", "list"} =>
       /\ f.obj # Nil /\ f.kind # "volume"
       /\ \/ devices = f.obj
          \/ devices = Nil /\ f.kind = "connect" /\ frame[Hub].obj # f.obj
  /\ f.at = "entries" => f.obj = Nil
  /\ f.at = "drop" => f.kind = "close"

\* Nobody sends through a nil connection, unless a move has failed.
Connected ==
  /\ devices # Nil => cc[devices].conn # "nil"
  /\ \A p \in Callers : frame[p].at \in Sending => cc[frame[p].obj].conn # "nil"
  /\ frame[Check].at = "list" => cc[frame[Check].obj].conn # "nil"
  /\ frame[Check].at # "nil"

\* The requests and answers a cc holds.
Held(c) == ToSet(c.asked) \cup ToSet(c.inbound)

\* Requests and answers are of goroutines that wait.
Awaited ==
  /\ \A o \in Objects : \A m \in Held(cc[o]) : m.by \in Callers => frame[m.by].at = "wait"
  /\ \A p \in Callers : frame[p].arrived => frame[p].at = "wait"

\* A call of p that nobody overlapped is alone with the latest number, which
\* leads to p, and has the answer that arrived.
Alone(p) ==
  frame[p].at \in Calls /\ ~frame[p].overlapped =>
    /\ \A q \in Callers \ {p} : frame[q].at \notin Calls
    /\ frame[p].at # "wait" => frame[p].id = 0
    /\ frame[p].at \in {"header", "length", "data", "wait"} /\ frame[p].kind = "status" =>
         cc[frame[p].obj].map[0] = p
    /\ \A o \in Objects : \A m \in Held(cc[o]) :
         m.by = p => o = frame[p].obj /\ m.id = 0
    /\ frame[p].arrived => frame[p].full

\* Only a call for the status uses the header and waits; a number is taken
\* from the latest.
Waits ==
  \A p \in Callers : /\ frame[p].at \in {"header", "wait"} => frame[p].kind = "status"
                     /\ frame[p].at = "load" => frame[p].id = 0

IInv ==
  /\ Types
  /\ HubShape /\ CheckShape /\ Waits
  /\ unmoved \/ Connected
  /\ Crashed \/ Awaited
  /\ \A p \in Callers : Alone(p)

-----------------------------------------------------------------------------
(* Sequences of messages. *)

LEMMA SetOfSeq ==
  ASSUME NEW S, NEW s \in Seq(S), NEW m
  PROVE  m \in ToSet(s) <=> \E i \in DOMAIN s : m = s[i]
  BY DEF ToSet

\* A sequence whose elements are replaced one by one.
LEMMA Replaced ==
  ASSUME NEW S, NEW T, NEW s \in Seq(S), NEW r,
         r = [i \in DOMAIN s |-> r[i]], \A i \in DOMAIN s : r[i] \in T
  PROVE  r \in Seq(T) /\ DOMAIN r = DOMAIN s
  <1>1. Len(s) \in Nat /\ DOMAIN s = 1 .. Len(s)
    OBVIOUS
  <1>2. r \in [1 .. Len(s) -> T]
    BY <1>1
  <1> QED
    BY <1>1, <1>2

LEMMA Remaining ==
  ASSUME NEW S, NEW s \in Seq(S), s # <<>>
  PROVE  /\ Head(s) \in S /\ Tail(s) \in Seq(S)
         /\ Head(s) \in ToSet(s) /\ ToSet(Tail(s)) \subseteq ToSet(s)
  <1>1. Len(s) \in Nat \ {0} /\ DOMAIN s = 1 .. Len(s)
    OBVIOUS
  <1>2. /\ Head(s) \in S /\ Tail(s) \in Seq(S) /\ Len(Tail(s)) = Len(s) - 1
        /\ \A i \in 1 .. Len(Tail(s)) : Tail(s)[i] = s[i + 1]
    BY HeadTailProperties
  <1>3. Head(s) = s[1] /\ 1 \in DOMAIN s
    BY <1>1
  <1>4. ASSUME NEW m \in ToSet(Tail(s)) PROVE m \in ToSet(s)
    <2>1. PICK i \in DOMAIN Tail(s) : m = Tail(s)[i]
      BY DEF ToSet
    <2>2. i \in 1 .. Len(Tail(s)) /\ i + 1 \in DOMAIN s
      BY <1>1, <1>2
    <2> QED
      BY <1>2, <2>1, <2>2 DEF ToSet
  <1> QED
    BY <1>2, <1>3, <1>4 DEF ToSet

LEMMA Appended ==
  ASSUME NEW S, NEW s \in Seq(S), NEW e \in S
  PROVE  Append(s, e) \in Seq(S) /\ ToSet(Append(s, e)) = ToSet(s) \cup {e}
  <1>1. Len(s) \in Nat /\ DOMAIN s = 1 .. Len(s)
    OBVIOUS
  <1>2. /\ Append(s, e) \in Seq(S) /\ DOMAIN Append(s, e) = 1 .. Len(s) + 1
        /\ \A i \in 1 .. Len(s) : Append(s, e)[i] = s[i]
        /\ Append(s, e)[Len(s) + 1] = e
    BY <1>1
  <1>3. ToSet(Append(s, e)) \subseteq ToSet(s) \cup {e}
    BY <1>1, <1>2 DEF ToSet
  <1>4. ToSet(s) \cup {e} \subseteq ToSet(Append(s, e))
    BY <1>1, <1>2 DEF ToSet
  <1> QED
    BY <1>2, <1>3, <1>4

LEMMA OneMore ==
  ASSUME NEW S, NEW s \in Seq(S), NEW e \in S
  PROVE  s \o <<e>> \in Seq(S) /\ ToSet(s \o <<e>>) = ToSet(s) \cup {e}
  <1>1. Append(s, e) = s \o <<e>>
    OBVIOUS
  <1>2. Append(s, e) \in Seq(S)
    BY Appended
  <1>3. ToSet(Append(s, e)) = ToSet(s) \cup {e}
    BY Appended
  <1> QED
    BY <1>1, <1>2, <1>3

LEMMA NoneMore ==
  ASSUME NEW S, NEW s \in Seq(S)
  PROVE  s \o <<>> = s /\ ToSet(<<>>) = {}
  BY DEF ToSet

-----------------------------------------------------------------------------
(* What the steps have in common. *)

LEMMA NewObjectType ==
  ASSUME ChromecastAssumption, Types
  PROVE  NewObject \in CCs /\ Held(NewObject) = {}
  <1>1. (CHOOSE a \in Addresses : TRUE) \in Addresses
    BY DEF Types
  <1>2. <<>> \in Seq(Mail) /\ ToSet(<<>>) = {}
    BY DEF ToSet
  <1> QED
    BY <1>1, <1>2 DEF NewObject, CCs, Held

LEMMA IdleFrameType ==
  ASSUME ChromecastAssumption
  PROVE  IdleFrame \in Frames
  BY DEF IdleFrame, Frames, Kinds, Places

\* A process that dies of a nil connection has had a failed move.
LEMMA DeadKept ==
  ASSUME ChromecastAssumption, IInv, NEW why \in {"nil", "fault"}, Dead(why),
         why = "nil" => unmoved, UNCHANGED <<devices, cc, address, unmoved>>
  PROVE  IInv'
  <1>1. /\ frame' \in [Callers -> Frames]
        /\ \A p \in Callers : /\ frame'[p].at = why /\ frame'[p].obj = Nil
                              /\ ~frame'[p].arrived
    <2> DEFINE g == [IdleFrame EXCEPT !.at = why]
    <2>1. g \in Frames /\ g.at = why /\ g.obj = Nil /\ ~g.arrived
      <3>1. why \in Places
        BY DEF Places
      <3>2. IdleFrame \in Frames /\ IdleFrame.obj = Nil /\ ~IdleFrame.arrived
        BY IdleFrameType DEF IdleFrame
      <3> HIDE DEF IdleFrame
      <3> QED
        BY <3>1, <3>2 DEF Frames
    <2> HIDE DEF g
    <2>2. frame' = [p \in Callers |-> g]
      BY DEF Dead, g
    <2> QED
      BY <2>1, <2>2
  <1>2. Check \in Callers /\ Hub \in Callers
    BY DEF Callers
  <1>3. Crashed'
    BY <1>1, <1>2 DEF Crashed
  <1>4. (Types /\ HubShape /\ CheckShape /\ Waits)'
    BY <1>1, <1>2, <1>3 DEF IInv, Types, HubShape, CheckShape, Waits, Sending, Calls
  <1>5. (unmoved \/ Connected)'
    BY <1>1, <1>2 DEF IInv, Connected, Sending, Calls
  <1>6. (\A p \in Callers : Alone(p))'
    BY <1>1 DEF Alone, Calls
  <1> QED
    BY <1>3, <1>4, <1>5, <1>6 DEF IInv

\* Where a goroutine in a call, with the frame f, can be next: with g.
Follows(p, f, g) ==
  \/ g.at = "idle" /\ g.obj = Nil
  \/ p = Check /\ g.at = "entries" /\ g.obj = Nil
  \/ p = Hub /\ g.obj = f.obj /\ g.at = "load" /\ g.kind = "volume" /\ g.id = 0
  \/ /\ p = Check /\ g.obj = f.obj /\ g.at = "load" /\ g.kind = "close" /\ g.id = 0
     /\ f.kind = "status"
  \/ /\ g.obj = f.obj /\ g.kind = f.kind /\ g.at \in Calls
     /\ g.at \in {"header", "wait"} => g.kind = "status"
  \/ /\ p = Check /\ g.obj = f.obj /\ g.kind = f.kind
     /\ \/ g.at = "drop" /\ g.kind = "close"
        \/ g.at = "dial" \/ g.at = "list"

\* The messages of the ccs: p's are there when it waits, the other
\* goroutines' were there before.
Kept(p) ==
  \A o \in Objects : \A m \in Held(cc'[o]) :
    \/ m.by \notin Callers
    \/ m.by = p /\ frame'[p].at = "wait"
    \/ m.by # p /\ \E n \in Held(cc[o]) : n.by = m.by

\* p's call goes on as one that nobody has overlapped.
GoesOn(p) ==
  frame'[p].at \in Calls /\ ~frame'[p].overlapped =>
    /\ ~frame[p].overlapped
    /\ frame'[p].at # "wait" => frame'[p].id = 0
    /\ frame'[p].at \in {"header", "length", "data", "wait"} /\ frame'[p].kind = "status" =>
         cc'[frame'[p].obj].map[0] = p
    /\ \A o \in Objects : \A m \in Held(cc'[o]) :
         m.by = p => o = frame'[p].obj /\ m.id = 0
    /\ ~frame'[p].arrived

\* What the other goroutines see of a step of p: their numbers at most.
Apart(p) ==
  \A q \in Callers \ {p} :
    /\ frame'[q].at = frame[q].at /\ frame'[q].obj = frame[q].obj
    /\ frame'[q].kind = frame[q].kind /\ frame'[q].full = frame[q].full
    /\ frame'[q].arrived = frame[q].arrived
    /\ frame'[q].overlapped = frame[q].overlapped
    /\ frame[q].at = "load" => frame'[q].id = frame[q].id

LEMMA CallStep ==
  ASSUME ChromecastAssumption, IInv, NEW p \in Callers, frame[p].at \in Calls,
         Types', UNCHANGED <<devices, unmoved>>, Apart(p),
         Follows(p, frame[p], frame'[p]),
         \A o \in Objects : cc'[o].conn = "nil" => cc[o].conn = "nil",
         Kept(p), GoesOn(p), frame'[p].arrived => frame'[p].at = "wait"
  PROVE  IInv'
  <1> USE DEF IInv
  <1>0. Callers = {Check, Hub} /\ Check # Hub
    BY DEF Callers, Check, Hub
  <1>1. ~Crashed
    BY <1>0 DEF HubShape, Crashed, Calls
  <1>2. ~Crashed'
    BY <1>0, <1>1 DEF Crashed, Apart, Follows, Calls
  <1>3. frame[p].at \in Sending /\ frame[p].obj # Nil
    BY <1>0 DEF HubShape, CheckShape, Sending
  <1>4. HubShape'
    BY <1>0, <1>1, <1>2, <1>3 DEF HubShape, Apart, Follows, Sending, Calls, Crashed
  <1>5. CheckShape'
    <2>1. CASE p = Check
      BY <1>0, <1>3, <2>1 DEF CheckShape, Apart, Follows, Sending, Calls
    <2>2. CASE p = Hub
      BY <1>0, <1>3, <2>2 DEF CheckShape, Apart, Follows, Sending, Calls
    <2> QED
      BY <1>0, <2>1, <2>2
  <1>6. Waits'
    BY <1>0 DEF Waits, Apart, Follows, Calls
  <1>7. (unmoved \/ Connected)'
    <2> SUFFICES ASSUME ~unmoved
                 PROVE  Connected'
      OBVIOUS
    <2>1. Connected
      OBVIOUS
    <2>2. \A q \in Callers : frame'[q].at \in Sending =>
            frame[q].at \in Sending /\ frame'[q].obj = frame[q].obj
      BY <1>0, <1>3 DEF Apart, Follows, Sending, Calls
    <2>3. frame'[Check].at = "list" =>
            /\ frame'[Check].obj = frame[Check].obj
            /\ frame[Check].at \in Sending \cup {"list"}
      BY <1>0, <1>3 DEF Apart, Follows, Sending, Calls
    <2>4. \A q \in Callers : frame[q].at \in Sending => frame[q].obj \in Objects
      BY <1>0 DEF HubShape, CheckShape, Types, Frames
    <2>5. frame[Check].at = "list" => frame[Check].obj \in Objects
      BY <1>0 DEF CheckShape, Types, Frames
    <2>6. \A q \in Callers : frame'[q].at \in Sending => cc'[frame'[q].obj].conn # "nil"
      BY <2>1, <2>2, <2>4 DEF Connected
    <2>7. frame'[Check].at = "list" => cc'[frame'[Check].obj].conn # "nil"
      BY <1>0, <2>1, <2>3, <2>4, <2>5 DEF Connected
    <2>8. frame'[Check].at # "nil"
      BY <1>2 DEF Crashed
    <2>9. devices' # Nil => cc'[devices'].conn # "nil"
      BY <2>1 DEF Connected, Types
    <2> QED
      BY <2>6, <2>7, <2>8, <2>9 DEF Connected
  <1>8. Awaited'
    <2>1. Awaited
      BY <1>1
    <2>2. ASSUME NEW o \in Objects, NEW m \in Held(cc'[o]), m.by \in Callers
          PROVE  frame'[m.by].at = "wait"
      BY <2>1, <2>2 DEF Kept, Awaited, Apart
    <2>3. \A q \in Callers : frame'[q].arrived => frame'[q].at = "wait"
      BY <2>1 DEF Awaited, Apart
    <2> QED
      BY <2>2, <2>3 DEF Awaited, Held
  <1>9. ASSUME NEW q \in Callers, frame'[q].at \in Calls, ~frame'[q].overlapped
        PROVE  Alone(q)'
    <2>1. CASE q = p
      <3>1. /\ ~frame[p].overlapped
            /\ frame'[p].at # "wait" => frame'[p].id = 0
            /\ frame'[p].at \in {"header", "length", "data", "wait"} /\ frame'[p].kind = "status" =>
                 cc'[frame'[p].obj].map[0] = p
            /\ \A o \in Objects : \A m \in Held(cc'[o]) :
                 m.by = p => o = frame'[p].obj /\ m.id = 0
            /\ ~frame'[p].arrived
        BY <1>9, <2>1 DEF GoesOn
      <3>2. \A r \in Callers \ {p} : frame'[r].at \notin Calls
        BY <3>1 DEF Alone, Apart
      <3> QED
        BY <2>1, <3>1, <3>2 DEF Alone, Held
    <2>2. CASE q # p
      <3>1. frame[q].at \in Calls /\ ~frame[q].overlapped
        BY <1>9, <2>2 DEF Apart
      <3> QED
        BY <2>2, <3>1 DEF Alone
    <2> QED
      BY <2>1, <2>2
  <1> QED
    BY <1>4, <1>5, <1>6, <1>7, <1>8, <1>9 DEF Alone

\* A step of a receive loop or of the device to which no goroutine is a party.
LEMMA QuietStep ==
  ASSUME ChromecastAssumption, IInv, ~Crashed, Types',
         UNCHANGED <<devices, frame, unmoved>>,
         \A o \in Objects :
           /\ cc'[o].conn = "nil" => cc[o].conn = "nil"
           /\ cc'[o].map = cc[o].map
           /\ \A m \in Held(cc'[o]) : m.by \in Callers => m \in Held(cc[o])
  PROVE  IInv'
  <1> USE DEF IInv
  <1>0. Callers = {Check, Hub}
    BY DEF Callers
  <1>1. (HubShape /\ CheckShape /\ Waits)'
    BY DEF HubShape, CheckShape, Waits, Crashed
  <1>2. \A q \in Callers : frame[q].at \in Sending => frame[q].obj \in Objects
    BY <1>0 DEF HubShape, CheckShape, Types, Frames
  <1>3. (unmoved \/ Connected)'
    <2> SUFFICES ASSUME Connected
                 PROVE  Connected'
      OBVIOUS
    <2>1. devices' # Nil => cc'[devices'].conn # "nil"
      BY DEF Connected, Types
    <2>2. \A q \in Callers : frame'[q].at \in Sending => cc'[frame'[q].obj].conn # "nil"
      BY <1>2 DEF Connected
    <2>3. frame[Check].at = "list" => frame[Check].obj \in Objects
      BY <1>0 DEF CheckShape, Types, Frames
    <2>4. frame'[Check].at = "list" => cc'[frame'[Check].obj].conn # "nil"
      BY <2>3 DEF Connected
    <2> QED
      BY <2>1, <2>2, <2>4 DEF Connected
  <1>4. Awaited'
    BY DEF Awaited, Held
  <1>5. ASSUME NEW q \in Callers, frame'[q].at \in Calls, ~frame'[q].overlapped
        PROVE  Alone(q)'
    <2>1. Alone(q) /\ frame[q].at \in Calls /\ ~frame[q].overlapped /\ frame' = frame
      BY <1>5
    <2>2. frame[q].obj \in Objects
      BY <1>2, <2>1 DEF Sending
    <2>3. \A o \in Objects : \A m \in Held(cc'[o]) : m.by = q => m \in Held(cc[o])
      OBVIOUS
    <2>4. \A o \in Objects : \A m \in Held(cc'[o]) : m.by = q => o = frame[q].obj /\ m.id = 0
      BY <2>1, <2>3 DEF Alone
    <2>5. cc'[frame[q].obj].map = cc[frame[q].obj].map
      BY <2>2
    <2> QED
      BY <2>1, <2>4, <2>5 DEF Alone, Held
  <1> QED
    BY <1>1, <1>3, <1>4, <1>5 DEF Alone

\* A step of p outside of a call, to which the other goroutine is no party:
\* what p shows of the invariant's own, and that it leaves the other's call be.
LEMMA OutsideStep ==
  ASSUME ChromecastAssumption, IInv, NEW p \in Callers, ~Crashed,
         frame[p].at \notin Calls, frame'[p].at \notin Calls,
         frame'[p].at = "load" => frame'[p].id = 0, ~frame'[p].arrived,
         \A q \in Callers \ {p} : frame'[q] = frame[q],
         (Types /\ HubShape /\ CheckShape /\ (unmoved \/ Connected))',
         \A o \in Objects : Held(cc'[o]) \subseteq Held(cc[o]),
         \A q \in Callers \ {p} :
           frame[q].at \in Calls => cc'[frame[q].obj].map = cc[frame[q].obj].map
  PROVE  IInv'
  <1> USE DEF IInv
  <1>1. Waits'
    BY DEF Waits, Calls
  <1>2. Awaited'
    <2>1. Awaited
      OBVIOUS
    <2>2. ASSUME NEW o \in Objects, NEW m \in Held(cc'[o]), m.by \in Callers
          PROVE  frame'[m.by].at = "wait"
      <3>1. frame[m.by].at = "wait"
        BY <2>1, <2>2 DEF Awaited
      <3> QED
        BY <2>2, <3>1 DEF Calls
    <2>3. \A q \in Callers : frame'[q].arrived => frame'[q].at = "wait"
      BY <2>1 DEF Awaited
    <2> QED
      BY <2>2, <2>3 DEF Awaited, Held
  <1>3. ASSUME NEW q \in Callers, frame'[q].at \in Calls, ~frame'[q].overlapped
        PROVE  Alone(q)'
    <2>1. q # p /\ frame'[q] = frame[q]
      BY <1>3
    <2>2. /\ \A r \in Callers \ {q} : frame'[r].at \notin Calls
          /\ frame'[q].at # "wait" => frame'[q].id = 0
          /\ frame'[q].at \in {"header", "length", "data", "wait"} /\ frame'[q].kind = "status" =>
               cc'[frame'[q].obj].map[0] = q
          /\ \A o \in Objects : \A m \in Held(cc[o]) :
               m.by = q => o = frame'[q].obj /\ m.id = 0
          /\ frame'[q].arrived => frame'[q].full
      BY <1>3, <2>1 DEF Alone
    <2>3. \A o \in Objects : \A m \in Held(cc'[o]) : m.by = q => o = frame'[q].obj /\ m.id = 0
      BY <2>2
    <2> QED
      BY <2>2, <2>3 DEF Alone, Held
  <1> QED
    BY <1>1, <1>2, <1>3 DEF Alone

-----------------------------------------------------------------------------
(* Sending. *)

LEMMA LoadKeeps ==
  ASSUME ChromecastAssumption, IInv, NEW p \in Callers, Load(p)
  PROVE  IInv'
  <1> USE DEF IInv
  <1>0. Callers = {Check, Hub} /\ Check # Hub
    BY DEF Callers, Check, Hub
  <1>1. /\ frame[p].at = "load" /\ frame[p].id = 0
        /\ frame'[p] = [frame[p] EXCEPT !.at = "store",
                          !.overlapped = \E r \in Callers \ {p} : frame[r].at \in Calls]
        /\ \A q \in Callers \ {p} :
             frame'[q] = [frame[q] EXCEPT !.overlapped = @ \/ frame[q].at \in Calls]
        /\ frame' = [q \in Callers |-> frame'[q]]
        /\ UNCHANGED <<devices, cc, address, unmoved>>
    BY DEF Load, Busy, Calls, Waits
  <1>2. \A q \in Callers : frame[q] \in Frames
    BY DEF Types
  <1> DEFINE other == \E r \in Callers \ {p} : frame[r].at \in Calls
             mixed(q) == frame[q].overlapped \/ frame[q].at \in Calls
  <1>3. /\ frame'[p] = [frame[p] EXCEPT !.at = "store", !.overlapped = other]
        /\ other \in BOOLEAN
        /\ \A q \in Callers \ {p} : /\ frame'[q] = [frame[q] EXCEPT !.overlapped = mixed(q)]
                                    /\ mixed(q) \in BOOLEAN
                                    /\ frame[q].at \in Calls => mixed(q)
    BY <1>1
  <1> HIDE DEF other, mixed
  <1>5. /\ frame'[p].at = "store" /\ frame'[p].obj = frame[p].obj
        /\ frame'[p].kind = frame[p].kind /\ frame'[p].id = frame[p].id
        /\ frame'[p].full = frame[p].full /\ frame'[p].arrived = frame[p].arrived
        /\ frame'[p].overlapped = other /\ frame'[p] \in Frames
    BY <1>2, <1>3 DEF Frames, Places, Sending, Calls
  <1>6. \A q \in Callers \ {p} :
          /\ frame'[q].at = frame[q].at /\ frame'[q].obj = frame[q].obj
          /\ frame'[q].kind = frame[q].kind /\ frame'[q].id = frame[q].id
          /\ frame'[q].full = frame[q].full /\ frame'[q].arrived = frame[q].arrived
          /\ frame'[q].overlapped = mixed(q) /\ frame'[q] \in Frames
    <2> TAKE q \in Callers \ {p}
    <2> DEFINE f == frame[q]
               m == mixed(q)
    <2>1. f \in Frames /\ m \in BOOLEAN /\ frame'[q] = [f EXCEPT !.overlapped = m]
      BY <1>2, <1>3
    <2> HIDE DEF f, m
    <2>2. LET g == [f EXCEPT !.overlapped = m] IN
          /\ g.at = f.at /\ g.obj = f.obj /\ g.kind = f.kind /\ g.id = f.id
          /\ g.full = f.full /\ g.arrived = f.arrived /\ g.overlapped = m /\ g \in Frames
      BY <2>1 DEF Frames
    <2> QED
      BY <2>1, <2>2 DEF f, m
  <1>4. Types'
    <2>1. frame' \in [Callers -> Frames]
      BY <1>1, <1>5, <1>6
    <2> QED
      BY <1>1, <2>1 DEF Types
  <1>a. /\ frame[p].at \in Sending /\ frame'[p].at \in Sending
        /\ \A q \in Callers \ {p} : frame'[q].at = frame[q].at
        /\ \A q \in Callers : frame'[q].obj = frame[q].obj /\ frame'[q].kind = frame[q].kind
    BY <1>1, <1>5, <1>6 DEF Sending, Calls
  <1>7. ~Crashed /\ ~Crashed'
    BY <1>0, <1>1, <1>5, <1>6 DEF HubShape, Crashed
  <1>8. HubShape'
    <2>1. \/ frame'[Hub].at = frame[Hub].at
          \/ p = Hub /\ frame[p].at = "load" /\ frame'[p].at = "store"
      BY <1>0, <1>1, <1>5, <1>6
    <2> QED
      BY <1>0, <1>7, <1>a, <2>1 DEF HubShape, Crashed
  <1>9. CheckShape'
    <2>1. \/ frame'[Check].at = frame[Check].at
          \/ p = Check /\ frame[p].at = "load" /\ frame'[p].at = "store"
      BY <1>0, <1>1, <1>5, <1>6
    <2> QED
      BY <1>0, <1>1, <1>a, <2>1 DEF CheckShape, Sending, Calls
  <1>10. Waits'
    <2> SUFFICES ASSUME NEW q \in Callers
                 PROVE  /\ frame'[q].at \in {"header", "wait"} => frame'[q].kind = "status"
                        /\ frame'[q].at = "load" => frame'[q].id = 0
      BY DEF Waits
    <2>1. CASE q = p
      BY <1>5, <2>1
    <2>2. CASE q # p
      BY <1>6, <2>2 DEF Waits
    <2> QED
      BY <2>1, <2>2
  <1>11. (unmoved \/ Connected)'
    <2>1. frame'[Check].at \in {"list", "nil"} => frame[Check].at = frame'[Check].at
      BY <1>0, <1>5, <1>a
    <2> QED
      BY <1>0, <1>1, <1>a, <2>1 DEF Connected
  <1>12. Awaited'
    <2>1. Awaited
      BY <1>7
    <2>2. \A q \in Callers : frame[q].at = "wait" => frame'[q].at = "wait"
      BY <1>1, <1>6
    <2>3. \A q \in Callers : frame'[q].arrived => frame[q].arrived
      BY <1>5, <1>6
    <2> QED
      BY <1>1, <2>1, <2>2, <2>3 DEF Awaited, Held
  <1>13. ASSUME NEW q \in Callers, frame'[q].at \in Calls, ~frame'[q].overlapped
         PROVE  Alone(q)'
    <2>1. q = p
      BY <1>3, <1>6, <1>13
    <2>2. \A r \in Callers \ {p} : frame'[r].at \notin Calls
      BY <1>5, <1>6, <1>13, <2>1 DEF other
    <2>3. \A o \in Objects : \A m \in Held(cc[o]) : m.by # p
      BY <1>1, <1>7 DEF Awaited
    <2>4. ~frame[p].arrived
      BY <1>1, <1>7 DEF Awaited
    <2> QED
      BY <1>1, <1>5, <2>1, <2>2, <2>3, <2>4 DEF Alone, Held
  <1> QED
    BY <1>4, <1>8, <1>9, <1>10, <1>11, <1>12, <1>13 DEF Alone

-----------------------------------------------------------------------------
(* What becomes of frames. *)

LEMMA GotoForm ==
  ASSUME Types, NEW p \in Callers, NEW l \in Places, Goto(p, l)
  PROVE  /\ frame' \in [Callers -> Frames]
         /\ \A q \in Callers \ {p} : frame'[q] = frame[q]
         /\ frame'[p].at = l /\ frame'[p].obj = frame[p].obj /\ frame'[p].kind = frame[p].kind
         /\ frame'[p].id = frame[p].id /\ frame'[p].full = frame[p].full
         /\ frame'[p].found = frame[p].found /\ frame'[p].arrived = frame[p].arrived
         /\ frame'[p].overlapped = frame[p].overlapped
  <1> DEFINE f == frame[p]
             g == [f EXCEPT !.at = l]
  <1>1. f \in Frames /\ frame' = [frame EXCEPT ![p] = g]
    BY DEF Goto, Types
  <1>2. /\ g \in Frames
        /\ g.at = l /\ g.obj = f.obj /\ g.kind = f.kind /\ g.id = f.id /\ g.full = f.full
        /\ g.found = f.found /\ g.arrived = f.arrived /\ g.overlapped = f.overlapped
    <2> HIDE DEF f
    <2> QED
      BY <1>1 DEF Frames, Places
  <1> HIDE DEF f, g
  <1> QED
    BY <1>1, <1>2 DEF Types, f

LEMMA TurnForm ==
  ASSUME ChromecastAssumption, Types, NEW p \in Callers, NEW l \in Places,
         NEW o \in Objects \cup {Nil}, NEW found \in Addresses \cup {Nil}, NEW kind \in Kinds,
         Turn(p, l, o, found, kind)
  PROVE  /\ frame' \in [Callers -> Frames]
         /\ \A q \in Callers \ {p} : frame'[q] = frame[q]
         /\ frame'[p].at = l /\ frame'[p].obj = o /\ frame'[p].kind = kind
         /\ frame'[p].id = 0 /\ ~frame'[p].arrived /\ frame'[p].found = found
  <1> DEFINE g == [IdleFrame EXCEPT !.at = l, !.obj = o, !.kind = kind, !.found = found]
  <1>1. frame' = [frame EXCEPT ![p] = g]
    BY DEF Turn
  <1>2. g \in Frames /\ g.at = l /\ g.obj = o /\ g.kind = kind /\ g.id = 0 /\ ~g.arrived
        /\ g.found = found
    <2>1. IdleFrame \in Frames /\ IdleFrame.id = 0 /\ ~IdleFrame.arrived
      BY IdleFrameType DEF IdleFrame
    <2> HIDE DEF IdleFrame
    <2> QED
      BY <2>1 DEF Frames, Places
  <1> HIDE DEF g
  <1> QED
    BY <1>1, <1>2 DEF Types

LEMMA BeginForm ==
  ASSUME ChromecastAssumption, Types, NEW p \in Callers, NEW o \in Objects, NEW kind \in Kinds,
         Begin(p, o, kind)
  PROVE  /\ frame' \in [Callers -> Frames]
         /\ \A q \in Callers \ {p} : frame'[q] = frame[q]
         /\ frame'[p].at = "load" /\ frame'[p].obj = o /\ frame'[p].kind = kind
         /\ frame'[p].id = 0 /\ ~frame'[p].arrived
  <1>1. PICK found : found = frame[p].found
    OBVIOUS
  <1>2. frame[p] \in Frames
    BY DEF Types
  <1>3. found \in Addresses \cup {Nil}
    BY <1>1, <1>2 DEF Frames
  <1>4. "load" \in Places /\ o \in Objects \cup {Nil}
    BY DEF Places, Sending
  <1>5. Turn(p, "load", o, found, kind)
    BY <1>1 DEF Begin
  <1> QED
    BY <1>3, <1>4, <1>5, TurnForm

LEMMA ToEntriesForm ==
  ASSUME ChromecastAssumption, Types, NEW found \in Addresses \cup {Nil}, ToEntries(found)
  PROVE  /\ frame' \in [Callers -> Frames]
         /\ frame'[Hub] = frame[Hub]
         /\ frame'[Check].at = "entries" /\ frame'[Check].obj = Nil /\ ~frame'[Check].arrived
  <1>1. "entries" \in Places /\ "status" \in Kinds /\ Nil \in Objects \cup {Nil}
    BY DEF Places, Kinds
  <1>2. Check \in Callers /\ Hub \in Callers \ {Check}
    BY DEF Callers, Check, Hub
  <1>3. Turn(Check, "entries", Nil, found, "status")
    BY DEF ToEntries
  <1> QED
    BY <1>1, <1>2, <1>3, TurnForm

LEMMA FinishForm ==
  ASSUME ChromecastAssumption, Types, NEW p \in Callers, Finish(p)
  PROVE  /\ frame' \in [Callers -> Frames]
         /\ \A q \in Callers \ {p} : frame'[q] = frame[q]
         /\ frame'[p].at = "idle" /\ frame'[p].obj = Nil /\ ~frame'[p].arrived
  BY IdleFrameType DEF Types, Finish, IdleFrame

-----------------------------------------------------------------------------
(* What becomes of ccs. *)

LEMMA AgedMail ==
  ASSUME ChromecastAssumption, NEW s \in Int, NEW ms \in Seq(Mail)
  PROVE  LET aged == [j \in DOMAIN ms |-> Aged(ms[j], s)] IN
         /\ aged \in Seq(Mail)
         /\ \A m \in ToSet(aged) : \E n \in ToSet(ms) : n.by = m.by
  <1> DEFINE aged == [j \in DOMAIN ms |-> Aged(ms[j], s)]
  <1>1. \A j \in DOMAIN ms : ms[j] \in Mail
    OBVIOUS
  <1>2. \A n \in Int : Later(n, s) \in Int
    BY DEF ChromecastAssumption, Later, Old
  <1>3. \A m \in Mail : Aged(m, s) \in Mail /\ Aged(m, s).by = m.by
    BY <1>2 DEF Mail, Aged
  <1>4. \A j \in DOMAIN ms : aged[j] \in Mail /\ aged[j].by = ms[j].by
    BY <1>1, <1>3
  <1>5. aged \in Seq(Mail) /\ DOMAIN aged = DOMAIN ms
    BY <1>4, Replaced
  <1> QED
    BY <1>4, <1>5 DEF ToSet

LEMMA GrownForm ==
  ASSUME ChromecastAssumption, Types, NEW s \in Int
  PROVE  /\ Grown(s) \in [Objects -> CCs]
         /\ \A o \in Objects : /\ Grown(s)[o].conn = cc[o].conn
                               /\ \A m \in Held(Grown(s)[o]) : \E n \in Held(cc[o]) : n.by = m.by
  <1> SUFFICES ASSUME NEW o \in Objects
               PROVE  /\ Grown(s)[o] \in CCs /\ Grown(s)[o].conn = cc[o].conn
                      /\ \A m \in Held(Grown(s)[o]) : \E n \in Held(cc[o]) : n.by = m.by
    BY DEF Grown
  <1> DEFINE c == cc[o]
             map == [i \in Ids |-> IF i # Old /\ i - s \in Ids \ {Old} THEN c.map[i - s] ELSE "none"]
             asked == [j \in DOMAIN c.asked |-> Aged(c.asked[j], s)]
             inbound == [j \in DOMAIN c.inbound |-> Aged(c.inbound[j], s)]
  <1>1. Grown(s)[o] = [c EXCEPT !.map = map, !.asked = asked, !.inbound = inbound]
    BY DEF Grown
  <1>2. c \in CCs
    BY DEF Types
  <1>3. c.asked \in Seq(Mail) /\ c.inbound \in Seq(Mail)
        /\ c.map \in [Ids -> {"none", "room", "full"} \cup Callers]
    BY <1>2 DEF CCs
  <1>4. map \in [Ids -> {"none", "room", "full"} \cup Callers]
    BY <1>3
  <1>5. /\ asked \in Seq(Mail) /\ \A m \in ToSet(asked) : \E n \in ToSet(c.asked) : n.by = m.by
        /\ inbound \in Seq(Mail) /\ \A m \in ToSet(inbound) : \E n \in ToSet(c.inbound) : n.by = m.by
    BY <1>3, AgedMail
  <1> HIDE DEF c, map, asked, inbound
  <1>6. /\ Grown(s)[o] \in CCs /\ Grown(s)[o].conn = c.conn
        /\ Grown(s)[o].asked = asked /\ Grown(s)[o].inbound = inbound
    BY <1>1, <1>2, <1>4, <1>5 DEF CCs
  <1> QED
    BY <1>5, <1>6 DEF Held, c

LEMMA NobodysMail ==
  ASSUME ChromecastAssumption, NEW p \in Callers, NEW ms \in Seq(Mail)
  PROVE  LET left == [j \in DOMAIN ms |-> Nobodys(ms[j], p)] IN
         /\ left \in Seq(Mail)
         /\ \A m \in ToSet(left) : m.by # p /\ (m.by \in Callers => m \in ToSet(ms))
  <1> DEFINE left == [j \in DOMAIN ms |-> Nobodys(ms[j], p)]
  <1>1. \A j \in DOMAIN ms : ms[j] \in Mail
    OBVIOUS
  <1>2. "over" \notin Callers
    BY DEF Callers, Check, Hub
  <1>3. \A m \in Mail : /\ Nobodys(m, p) \in Mail /\ Nobodys(m, p).by # p
                        /\ Nobodys(m, p).by \in Callers => Nobodys(m, p) = m
    BY <1>2 DEF Mail, Nobodys
  <1>4. \A j \in DOMAIN ms : /\ left[j] \in Mail /\ left[j].by # p
                             /\ left[j].by \in Callers => left[j] = ms[j]
    BY <1>1, <1>3
  <1>5. left \in Seq(Mail) /\ DOMAIN left = DOMAIN ms
    BY <1>4, Replaced
  <1> QED
    BY <1>4, <1>5 DEF ToSet

LEMMA EndCallForm ==
  ASSUME ChromecastAssumption, Types, NEW p \in Callers, EndCall(p, cc)
  PROVE  /\ cc' \in [Objects -> CCs]
         /\ \A o \in Objects :
              /\ cc'[o].conn = cc[o].conn
              /\ \A m \in Held(cc'[o]) : m.by # p /\ (m.by \in Callers => m \in Held(cc[o]))
  <1> SUFFICES ASSUME NEW o \in Objects
               PROVE  /\ cc'[o] \in CCs /\ cc'[o].conn = cc[o].conn
                      /\ \A m \in Held(cc'[o]) : m.by # p /\ (m.by \in Callers => m \in Held(cc[o]))
    BY DEF EndCall
  <1> DEFINE c == cc[o]
             map == [i \in Ids |-> IF o = frame[p].obj /\ i = 0 THEN "none"
                                   ELSE IF c.map[i] = p THEN "room" ELSE c.map[i]]
             asked == [j \in DOMAIN c.asked |-> Nobodys(c.asked[j], p)]
             inbound == [j \in DOMAIN c.inbound |-> Nobodys(c.inbound[j], p)]
  <1>1. cc'[o] = [c EXCEPT !.map = map, !.asked = asked, !.inbound = inbound]
    BY DEF EndCall
  <1>2. c \in CCs
    BY DEF Types
  <1>3. c.asked \in Seq(Mail) /\ c.inbound \in Seq(Mail)
        /\ c.map \in [Ids -> {"none", "room", "full"} \cup Callers]
    BY <1>2 DEF CCs
  <1>4. map \in [Ids -> {"none", "room", "full"} \cup Callers]
    BY <1>3
  <1>5. /\ asked \in Seq(Mail)
        /\ \A m \in ToSet(asked) : m.by # p /\ (m.by \in Callers => m \in ToSet(c.asked))
        /\ inbound \in Seq(Mail)
        /\ \A m \in ToSet(inbound) : m.by # p /\ (m.by \in Callers => m \in ToSet(c.inbound))
    <2> HIDE DEF c
    <2>1. /\ asked \in Seq(Mail)
          /\ \A m \in ToSet(asked) : m.by # p /\ (m.by \in Callers => m \in ToSet(c.asked))
      BY <1>3, NobodysMail
    <2>2. /\ inbound \in Seq(Mail)
          /\ \A m \in ToSet(inbound) : m.by # p /\ (m.by \in Callers => m \in ToSet(c.inbound))
      BY <1>3, NobodysMail
    <2> QED
      BY <2>1, <2>2
  <1> HIDE DEF c, map, asked, inbound
  <1>6. /\ cc'[o] \in CCs /\ cc'[o].conn = c.conn
        /\ cc'[o].asked = asked /\ cc'[o].inbound = inbound
    BY <1>1, <1>2, <1>4, <1>5 DEF CCs
  <1> QED
    BY <1>5, <1>6 DEF Held, c

-----------------------------------------------------------------------------
(* The steps of a call. *)

\* What a goroutine in a call knows of itself and of its cc.
LEMMA InCall ==
  ASSUME ChromecastAssumption, IInv, NEW p \in Callers, frame[p].at \in Calls
  PROVE  /\ frame[p] \in Frames /\ frame[p].obj \in Objects /\ cc[frame[p].obj] \in CCs
         /\ ~Crashed /\ frame[p].at \in Sending
         /\ p = Hub => frame[p].kind \in {"status", "volume"}
         /\ unmoved \/ cc[frame[p].obj].conn # "nil"
         /\ frame[p].arrived => frame[p].at = "wait"
         /\ \A o \in Objects : \A m \in Held(cc[o]) : m.by = p => frame[p].at = "wait"
  <1>0. Callers = {Check, Hub}
    BY DEF Callers
  <1>1. ~Crashed /\ frame[p].at \in Sending
    BY <1>0 DEF IInv, HubShape, Crashed, Calls, Sending
  <1>2. frame[p] \in Frames
    BY DEF IInv, Types
  <1>3. frame[p].obj # Nil
    BY <1>0, <1>1 DEF IInv, HubShape, CheckShape
  <1>4. frame[p].obj \in Objects
    BY <1>2, <1>3 DEF Frames
  <1>5. cc[frame[p].obj] \in CCs
    BY <1>4 DEF IInv, Types
  <1>6. p = Hub => frame[p].kind \in {"status", "volume"}
    BY <1>1 DEF IInv, HubShape
  <1>7. unmoved \/ cc[frame[p].obj].conn # "nil"
    BY <1>1 DEF IInv, Connected
  <1>8. Awaited
    BY <1>1 DEF IInv
  <1> QED
    BY <1>1, <1>2, <1>4, <1>5, <1>6, <1>7, <1>8 DEF Awaited

LEMMA StoreKeeps ==
  ASSUME ChromecastAssumption, IInv, NEW p \in Callers, Store(p)
  PROVE  IInv'
  <1> DEFINE f == frame[p]
             s == 1 - f.id
             next == IF f.kind = "status" THEN "header" ELSE "length"
             map == [Grown(s)[f.obj].map EXCEPT ![0] = p]
  <1>1. /\ f.at = "store"
        /\ cc' = IF f.kind = "status" THEN [Grown(s) EXCEPT ![f.obj].map[0] = p] ELSE Grown(s)
        /\ frame' = [GrownFrames(s) EXCEPT ![p].id = 0, ![p].at = next]
        /\ UNCHANGED <<devices, address, unmoved>>
    BY DEF Store
  <1>2. /\ f \in Frames /\ f.obj \in Objects /\ ~f.arrived
        /\ \A o \in Objects : \A m \in Held(cc[o]) : m.by # p
    BY <1>1, InCall DEF Calls
  <1>3. f.id \in Int /\ s \in Int
    BY <1>2 DEF Frames
  <1>4. /\ Grown(s) \in [Objects -> CCs]
        /\ \A o \in Objects : /\ Grown(s)[o].conn = cc[o].conn
                              /\ \A m \in Held(Grown(s)[o]) : \E n \in Held(cc[o]) : n.by = m.by
    BY <1>3, GrownForm DEF IInv
  <1>5. /\ cc' \in [Objects -> CCs]
        /\ \A o \in Objects : cc'[o].conn = Grown(s)[o].conn /\ Held(cc'[o]) = Held(Grown(s)[o])
        /\ f.kind = "status" => cc'[f.obj].map[0] = p
    <2> HIDE DEF s, f
    <2>1. CASE f.kind # "status"
      BY <1>1, <1>4, <2>1
    <2>2. CASE f.kind = "status"
      <3> DEFINE c == Grown(s)[f.obj]
      <3>1. c \in CCs /\ 0 \in Ids /\ c.map \in [Ids -> {"none", "room", "full"} \cup Callers]
        BY <1>2, <1>4 DEF CCs, Ids, Old, ChromecastAssumption, f
      <3>2. cc' = [Grown(s) EXCEPT ![f.obj] = [c EXCEPT !.map = map]]
        BY <1>1, <2>2
      <3>3. map \in [Ids -> {"none", "room", "full"} \cup Callers] /\ map[0] = p
        BY <3>1
      <3> HIDE DEF map
      <3>4. LET d == [c EXCEPT !.map = map] IN
            /\ d \in CCs /\ d.conn = c.conn /\ d.asked = c.asked /\ d.inbound = c.inbound
            /\ d.map[0] = p
        <4> HIDE DEF c
        <4> QED
          BY <3>1, <3>3 DEF CCs
      <3> QED
        BY <1>2, <1>4, <3>2, <3>4 DEF Held, f
    <2> QED
      BY <2>1, <2>2
  <1>6. \A q \in Callers : /\ GrownFrames(s)[q] \in Frames
                           /\ GrownFrames(s)[q] = IF Busy(q) THEN [frame[q] EXCEPT !.id = Later(@, s)]
                                                             ELSE frame[q]
    <2>1. \A q \in Callers : frame[q] \in Frames
      BY DEF IInv, Types
    <2>2. \A n \in Int : Later(n, s) \in Int
      BY <1>3 DEF ChromecastAssumption, Later, Old
    <2>3. \A g \in Frames : [g EXCEPT !.id = Later(@, s)] \in Frames
      BY <2>2 DEF Frames
    <2> QED
      BY <2>1, <2>3 DEF GrownFrames
  <1>7. /\ frame' \in [Callers -> Frames]
        /\ \A q \in Callers \ {p} : frame'[q] = GrownFrames(s)[q]
        /\ frame'[p] = [f EXCEPT !.id = 0, !.at = next]
    <2>1. GrownFrames(s)[p] = [f EXCEPT !.id = Later(@, s)]
      BY <1>1, <1>6 DEF Busy
    <2> DEFINE g == [GrownFrames(s)[p] EXCEPT !.id = 0, !.at = next]
    <2>2. g = [f EXCEPT !.id = 0, !.at = next]
      <3> HIDE DEF f, next, s
      <3> QED
        BY <1>2, <2>1 DEF Frames
    <2>3. next \in {"header", "length"}
      OBVIOUS
    <2>4. g \in Frames
      <3>1. next \in Places
        BY DEF Places, Sending, Calls
      <3>2. f \in Frames
        BY <1>2
      <3>3. ASSUME NEW h \in Frames, NEW l \in Places
            PROVE  [h EXCEPT !.id = 0, !.at = l] \in Frames
        <4>1. [h EXCEPT !.id = 0] \in Frames
          BY DEF Frames
        <4>2. ASSUME NEW k \in Frames PROVE [k EXCEPT !.at = l] \in Frames
          BY DEF Frames
        <4>3. [h EXCEPT !.id = 0, !.at = l] = [[h EXCEPT !.id = 0] EXCEPT !.at = l]
          OBVIOUS
        <4> QED
          BY <4>1, <4>2, <4>3
      <3> HIDE DEF f, next, g
      <3> QED
        BY <2>2, <3>1, <3>2, <3>3
    <2>5. frame' = [GrownFrames(s) EXCEPT ![p] = g]
      BY <1>1
    <2> HIDE DEF f, next, g, s
    <2> QED
      BY <1>6, <2>2, <2>4, <2>5 DEF GrownFrames
  <1>8. /\ frame'[p].at = next /\ frame'[p].obj = f.obj /\ frame'[p].kind = f.kind
        /\ frame'[p].id = 0 /\ frame'[p].arrived = f.arrived
        /\ frame'[p].overlapped = f.overlapped
    <2> HIDE DEF f, next
    <2> QED
      BY <1>2, <1>7 DEF Frames
  <1>9. Apart(p)
    <2> SUFFICES ASSUME NEW q \in Callers \ {p}
                 PROVE  /\ frame'[q].at = frame[q].at /\ frame'[q].obj = frame[q].obj
                        /\ frame'[q].kind = frame[q].kind /\ frame'[q].full = frame[q].full
                        /\ frame'[q].arrived = frame[q].arrived
                        /\ frame'[q].overlapped = frame[q].overlapped
                        /\ frame[q].at = "load" => frame'[q].id = frame[q].id
      BY DEF Apart
    <2>1. /\ frame'[q] = IF Busy(q) THEN [frame[q] EXCEPT !.id = Later(@, s)] ELSE frame[q]
          /\ frame[q] \in Frames
      BY <1>6, <1>7 DEF IInv, Types
    <2> HIDE DEF s
    <2> QED
      BY <2>1 DEF Frames, Busy
  <1>10. Follows(p, f, frame'[p])
    BY <1>8 DEF Follows, Calls
  <1>11. Kept(p)
    BY <1>2, <1>4, <1>5 DEF Kept
  <1>12. GoesOn(p)
    BY <1>2, <1>4, <1>5, <1>8 DEF GoesOn
  <1>13. Types'
    BY <1>1, <1>5, <1>7 DEF IInv, Types
  <1>14. frame[p].at \in Calls /\ ~frame'[p].arrived
    BY <1>1, <1>2, <1>8 DEF Calls
  <1>15. \A o \in Objects : cc'[o].conn = "nil" => cc[o].conn = "nil"
    BY <1>4, <1>5
  <1> HIDE DEF f
  <1> QED
    BY <1>1, <1>9, <1>10, <1>11, <1>12, <1>13, <1>14, <1>15, CallStep DEF f

LEMMA SetRequestIdKeeps ==
  ASSUME ChromecastAssumption, IInv, NEW p \in Callers, SetRequestId(p)
  PROVE  IInv'
  <1>1. /\ frame[p].at = "header"
        /\ frame' = [q \in Callers |-> frame'[q]]
        /\ frame'[p] = [frame[p] EXCEPT !.at = "length"]
        /\ \A q \in Callers \ {p} :
             \/ frame'[q] = frame[q]
             \/ frame[q].at = "length" /\ frame'[q] = [frame[q] EXCEPT !.id = frame[p].id]
        /\ UNCHANGED <<devices, cc, address, unmoved>>
    BY DEF SetRequestId
  <1>2. \A q \in Callers : frame[q] \in Frames
    BY DEF IInv, Types
  <1>3. /\ ~frame[p].arrived /\ frame[p].obj \in Objects
        /\ \A o \in Objects : \A m \in Held(cc[o]) : m.by # p
    BY <1>1, InCall DEF Calls
  <1>4. /\ frame'[p] \in Frames
        /\ frame'[p].at = "length" /\ frame'[p].obj = frame[p].obj
        /\ frame'[p].kind = frame[p].kind /\ frame'[p].id = frame[p].id
        /\ frame'[p].arrived = frame[p].arrived /\ frame'[p].overlapped = frame[p].overlapped
    BY <1>1, <1>2 DEF Frames, Places, Sending, Calls
  <1>5. ASSUME NEW q \in Callers \ {p}
        PROVE  /\ frame'[q] \in Frames
               /\ frame'[q].at = frame[q].at /\ frame'[q].obj = frame[q].obj
               /\ frame'[q].kind = frame[q].kind /\ frame'[q].full = frame[q].full
               /\ frame'[q].arrived = frame[q].arrived
               /\ frame'[q].overlapped = frame[q].overlapped
               /\ frame[q].at = "load" => frame'[q].id = frame[q].id
    BY <1>1, <1>2 DEF Frames
  <1>6. Types'
    <2>1. frame' \in [Callers -> Frames]
      BY <1>1, <1>4, <1>5
    <2> QED
      BY <1>1, <2>1 DEF IInv, Types
  <1>7. Apart(p)
    BY <1>5 DEF Apart
  <1>8. Follows(p, frame[p], frame'[p])
    BY <1>4 DEF Follows, Calls
  <1>9. Kept(p)
    BY <1>1, <1>3 DEF Kept
  <1>10. GoesOn(p)
    <2>1. frame[p].kind = "status"
      BY <1>1 DEF IInv, Waits
    <2>2. ~frame[p].overlapped => frame[p].id = 0 /\ cc[frame[p].obj].map[0] = p
      BY <1>1, <2>1 DEF IInv, Alone, Calls
    <2> QED
      BY <1>1, <1>3, <1>4, <2>2 DEF GoesOn
  <1>11. frame[p].at \in Calls /\ ~frame'[p].arrived
    BY <1>1, <1>3, <1>4 DEF Calls
  <1> QED
    BY <1>1, <1>6, <1>7, <1>8, <1>9, <1>10, <1>11, CallStep

LEMMA ReturnKeeps ==
  ASSUME ChromecastAssumption, IInv, NEW p \in Callers, NEW ok \in BOOLEAN,
         frame[p].at \in Calls, frame[p].kind = "status",
         EndCall(p, cc), Returned(p, ok), UNCHANGED <<devices, address, unmoved>>
  PROVE  IInv'
  <1> DEFINE f == frame[p]
  <1>0. Callers = {Check, Hub} /\ Check # Hub /\ Types
    BY DEF Callers, Check, Hub, IInv
  <1>1. f \in Frames /\ f.obj \in Objects
    BY InCall
  <1>2. f.found \in Addresses \cup {Nil} /\ Nil \in Objects \cup {Nil}
    BY <1>1 DEF Frames
  <1>3. /\ cc' \in [Objects -> CCs]
        /\ \A o \in Objects :
             /\ cc'[o].conn = cc[o].conn
             /\ \A m \in Held(cc'[o]) : m.by # p /\ (m.by \in Callers => m \in Held(cc[o]))
    BY <1>0, EndCallForm
  <1>4. /\ frame' \in [Callers -> Frames]
        /\ \A q \in Callers \ {p} : frame'[q] = frame[q]
        /\ ~frame'[p].arrived /\ frame'[p].at \notin Calls
        /\ Follows(p, f, frame'[p])
    <2>1. CASE Finish(p)
      BY <1>0, <2>1, FinishForm DEF Follows, Calls
    <2>2. CASE p = Hub /\ Begin(p, f.obj, "volume")
      <3>1. PICK o \in Objects : o = f.obj
        BY <1>1
      <3>2. "volume" \in Kinds /\ Begin(p, o, "volume")
        BY <2>2, <3>1 DEF Kinds
      <3>3. /\ frame' \in [Callers -> Frames]
            /\ \A q \in Callers \ {p} : frame'[q] = frame[q]
            /\ frame'[p].at = "load" /\ frame'[p].obj = o /\ frame'[p].kind = "volume"
            /\ frame'[p].id = 0 /\ ~frame'[p].arrived
        BY <1>0, <3>2, BeginForm
      <3> QED
        BY <2>2, <3>1, <3>3 DEF Follows, Calls
    <2>3. CASE p = Check /\ ToEntries(f.found)
      <3>1. PICK found \in Addresses \cup {Nil} : found = f.found
        BY <1>2
      <3>2. /\ frame' \in [Callers -> Frames] /\ frame'[Hub] = frame[Hub]
            /\ frame'[Check].at = "entries" /\ frame'[Check].obj = Nil /\ ~frame'[Check].arrived
        BY <1>0, <2>3, <3>1, ToEntriesForm
      <3> QED
        BY <1>0, <2>3, <3>2 DEF Follows, Calls
    <2>4. CASE p = Check /\ Begin(p, f.obj, "close")
      <3>1. PICK o \in Objects : o = f.obj
        BY <1>1
      <3>2. "close" \in Kinds /\ Begin(p, o, "close")
        BY <2>4, <3>1 DEF Kinds
      <3>3. /\ frame' \in [Callers -> Frames]
            /\ \A q \in Callers \ {p} : frame'[q] = frame[q]
            /\ frame'[p].at = "load" /\ frame'[p].obj = o /\ frame'[p].kind = "close"
            /\ frame'[p].id = 0 /\ ~frame'[p].arrived
        BY <1>0, <3>2, BeginForm
      <3> QED
        BY <2>4, <3>1, <3>3 DEF Follows, Calls
    <2> QED
      BY <1>0, <2>1, <2>2, <2>3, <2>4 DEF Returned
  <1>5. Types'
    BY <1>0, <1>3, <1>4 DEF Types
  <1>6. Apart(p)
    BY <1>4 DEF Apart
  <1>7. Kept(p) /\ GoesOn(p)
    BY <1>3, <1>4 DEF Kept, GoesOn
  <1> HIDE DEF f
  <1> QED
    BY <1>3, <1>4, <1>5, <1>6, <1>7, CallStep DEF f

\* What objs have more than the ccs: a request of p's, if it is out.
Added(p, ok, objs) ==
  \A o \in Objects :
    /\ objs[o].conn = "nil" => cc[o].conn = "nil"
    /\ objs[o].map = cc[o].map
    /\ \A m \in Held(objs[o]) :
         \/ m \in Held(cc[o])
         \/ /\ ok /\ frame[p].kind = "status"
            /\ m.by = p /\ o = frame[p].obj /\ m.id = frame[p].id

\* A message is out or has failed; objs are the ccs by then.
LEMMA SentKeeps ==
  ASSUME ChromecastAssumption, IInv, NEW p \in Callers, NEW ok \in BOOLEAN,
         frame[p].at \in {"length", "data"},
         NEW objs \in [Objects -> CCs],
         Added(p, ok, objs), ok \/ objs = cc,
         Sent(p, ok, objs), UNCHANGED <<devices, address, unmoved>>
  PROVE  IInv'
  <1> DEFINE f == frame[p]
             o == f.obj
             c == [objs[o] EXCEPT !.conn = "closed", !.loop = "ended", !.asked = <<>>, !.inbound = <<>>]
             closed == [objs EXCEPT ![o] = c]
  <1>0. Callers = {Check, Hub} /\ Check # Hub /\ Types
    BY DEF Callers, Check, Hub, IInv
  <1>1. /\ f.at \in Calls /\ f.at # "wait" /\ f \in Frames /\ o \in Objects /\ ~f.arrived
        /\ p = Hub => f.kind \in {"status", "volume"}
        /\ \A x \in Objects : \A m \in Held(cc[x]) : m.by # p
    BY InCall DEF Calls
  <1>a. \A x \in Objects :
          /\ objs[x].conn = "nil" => cc[x].conn = "nil"
          /\ objs[x].map = cc[x].map
          /\ \A m \in Held(objs[x]) :
               \/ m \in Held(cc[x])
               \/ f.kind = "status" /\ ok /\ m.by = p /\ x = o /\ m.id = f.id
    BY DEF Added
  <1>2. f.kind \in Kinds /\ f.found \in Addresses \cup {Nil}
    BY <1>1 DEF Frames
  \* a step that ends the sending, on which no message of p's is left
  <1>3. ASSUME frame' \in [Callers -> Frames], cc' \in [Objects -> CCs],
               \A q \in Callers \ {p} : frame'[q] = frame[q],
               ~frame'[p].arrived, frame'[p].at \notin Calls, Follows(p, f, frame'[p]),
               \A x \in Objects : /\ cc'[x].conn = "nil" => cc[x].conn = "nil"
                                  /\ Held(cc'[x]) \subseteq Held(objs[x]),
               f.kind # "status"
        PROVE  IInv'
    <2>1. Types'
      BY <1>0, <1>3 DEF Types
    <2>2. Apart(p)
      BY <1>3 DEF Apart
    <2>3. \A x \in Objects : Held(cc'[x]) \subseteq Held(cc[x])
      BY <1>3, <1>a
    <2>4. Kept(p) /\ GoesOn(p)
      BY <1>1, <1>3, <2>3 DEF Kept, GoesOn
    <2> HIDE DEF f
    <2> QED
      BY <1>1, <1>3, <2>1, <2>2, <2>4, CallStep DEF f
  <1>4. /\ c \in CCs /\ c.conn = "closed" /\ Held(c) = {}
        /\ closed \in [Objects -> CCs]
    <2>1. objs[o] \in CCs /\ <<>> \in Seq(Mail) /\ ToSet(<<>>) = {}
      BY <1>1 DEF ToSet
    <2> QED
      BY <2>1 DEF CCs, Held
  <1>5. CASE f.kind = "status" /\ ~ok
    <2>1. EndCall(p, cc) /\ Returned(p, FALSE)
      BY <1>5 DEF Sent
    <2> QED
      BY <1>1, <1>5, <2>1, ReturnKeeps
  <1>6. CASE f.kind = "status" /\ ok
    <2>1. cc' = objs /\ frame' = [frame EXCEPT ![p].at = "wait", ![p].id = Old]
      BY <1>6 DEF Sent
    <2> DEFINE g == [f EXCEPT !.at = "wait", !.id = Old]
    <2>2. frame' = [frame EXCEPT ![p] = g]
      BY <2>1
    <2>3. /\ g \in Frames /\ g.at = "wait" /\ g.obj = f.obj /\ g.kind = f.kind
          /\ g.arrived = f.arrived /\ g.overlapped = f.overlapped
      <3>1. "wait" \in Places /\ Old \in Int
        BY DEF Places, Sending, Calls, Old, ChromecastAssumption
      <3> HIDE DEF f
      <3> QED
        BY <1>1, <3>1 DEF Frames
    <2>4. /\ frame' \in [Callers -> Frames] /\ frame'[p] = g
          /\ \A q \in Callers \ {p} : frame'[q] = frame[q]
      <3> HIDE DEF g
      <3> QED
        BY <1>0, <2>2, <2>3 DEF Types
    <2> HIDE DEF g
    <2>5. Types'
      BY <1>0, <2>1, <2>4 DEF Types
    <2>6. Apart(p)
      BY <2>4 DEF Apart
    <2>7. Follows(p, f, frame'[p])
      BY <1>6, <2>3, <2>4 DEF Follows, Calls
    <2>8. Kept(p)
      BY <1>1, <1>a, <2>1, <2>3, <2>4 DEF Kept
    <2>9. GoesOn(p)
      <3>1. ASSUME ~f.overlapped PROVE f.id = 0 /\ cc[o].map[0] = p
        BY <1>1, <1>6, <3>1 DEF IInv, Alone, Calls
      <3>2. cc'[o].map = cc[o].map
        BY <1>1, <1>a, <2>1
      <3> QED
        BY <1>1, <1>a, <2>1, <2>3, <2>4, <3>1, <3>2 DEF GoesOn
    <2> HIDE DEF f
    <2> QED
      BY <1>1, <1>a, <2>1, <2>3, <2>4, <2>5, <2>6, <2>7, <2>8, <2>9, CallStep DEF f
  <1>7. CASE f.kind = "volume"
    <2>1. cc' = objs /\ Finish(p)
      BY <1>7 DEF Sent
    <2> QED
      BY <1>0, <1>3, <1>7, <1>a, <2>1, FinishForm DEF Follows, Calls
  <1>8. CASE f.kind = "close"
    <2>1. cc' = closed /\ Goto(p, "drop") /\ p = Check
      BY <1>0, <1>1, <1>8 DEF Sent
    <2>2. "drop" \in Places
      BY DEF Places
    <2>3. /\ frame' \in [Callers -> Frames]
          /\ \A q \in Callers \ {p} : frame'[q] = frame[q]
          /\ frame'[p].at = "drop" /\ frame'[p].obj = f.obj /\ frame'[p].kind = f.kind
          /\ ~frame'[p].arrived
      BY <1>0, <1>1, <2>1, <2>2, GotoForm
    <2>4. Follows(p, f, frame'[p])
      BY <1>8, <2>1, <2>3 DEF Follows
    <2>5. \A x \in Objects : /\ cc'[x].conn = "nil" => cc[x].conn = "nil"
                             /\ Held(cc'[x]) \subseteq Held(objs[x])
      <3> HIDE DEF c
      <3> QED
        BY <1>1, <1>4, <1>a, <2>1
    <2>6. cc' \in [Objects -> CCs] /\ frame'[p].at \notin Calls
      BY <1>4, <2>1, <2>3 DEF Calls
    <2> QED
      BY <1>3, <1>8, <2>3, <2>4, <2>5, <2>6
  <1>9. CASE f.kind = "moving"
    <2> DEFINE d == [c EXCEPT !.addr = f.found]
    <2>1. cc' = [closed EXCEPT ![o].addr = f.found] /\ Goto(p, "dial") /\ p = Check
      BY <1>0, <1>1, <1>9 DEF Sent
    <2>2. cc' = [objs EXCEPT ![o] = d]
      <3>1. closed[o] = c
        BY <1>1
      <3> HIDE DEF c
      <3>2. cc' = [closed EXCEPT ![o] = d]
        BY <2>1, <3>1
      <3> QED
        BY <3>2
    <2>3. d \in CCs /\ d.conn = "closed" /\ Held(d) = {}
      <3> HIDE DEF c
      <3> QED
        BY <1>2, <1>4 DEF CCs, Held
    <2>4. "dial" \in Places
      BY DEF Places
    <2>5. /\ frame' \in [Callers -> Frames]
          /\ \A q \in Callers \ {p} : frame'[q] = frame[q]
          /\ frame'[p].at = "dial" /\ frame'[p].obj = f.obj /\ frame'[p].kind = f.kind
          /\ ~frame'[p].arrived
      BY <1>0, <1>1, <2>1, <2>4, GotoForm
    <2>6. Follows(p, f, frame'[p])
      BY <1>9, <2>1, <2>5 DEF Follows
    <2>7. /\ cc' \in [Objects -> CCs]
          /\ \A x \in Objects : /\ cc'[x].conn = "nil" => cc[x].conn = "nil"
                                /\ Held(cc'[x]) \subseteq Held(objs[x])
      <3> HIDE DEF d
      <3> QED
        BY <1>1, <1>a, <2>2, <2>3
    <2>8. frame'[p].at \notin Calls
      BY <2>5 DEF Calls
    <2> QED
      BY <1>3, <1>9, <2>5, <2>6, <2>7, <2>8
  <1>10. CASE f.kind = "connect"
    <2>1. cc' = objs /\ (Goto(p, "list") \/ Finish(p)) /\ p = Check
      BY <1>0, <1>1, <1>10 DEF Sent
    <2>2. CASE Finish(p)
      BY <1>0, <1>3, <1>10, <1>a, <2>1, <2>2, FinishForm DEF Follows, Calls
    <2>3. CASE Goto(p, "list")
      <3>1. "list" \in Places
        BY DEF Places
      <3>2. /\ frame' \in [Callers -> Frames]
            /\ \A q \in Callers \ {p} : frame'[q] = frame[q]
            /\ frame'[p].at = "list" /\ frame'[p].obj = f.obj /\ frame'[p].kind = f.kind
            /\ ~frame'[p].arrived
        BY <1>0, <1>1, <2>3, <3>1, GotoForm
      <3>3. Follows(p, f, frame'[p]) /\ frame'[p].at \notin Calls
        BY <2>1, <3>2 DEF Follows, Calls
      <3> QED
        BY <1>3, <1>10, <1>a, <2>1, <3>2, <3>3
    <2> QED
      BY <2>1, <2>2, <2>3
  <1> QED
    BY <1>2, <1>5, <1>6, <1>7, <1>8, <1>9, <1>10 DEF Kinds

LEMMA AfterLengthForm ==
  ASSUME ChromecastAssumption, NEW c \in CCs, NEW w \in {Loop} \cup Callers
  PROVE  /\ AfterLength(c, w) \in CCs /\ AfterLength(c, w).map = c.map
         /\ AfterLength(c, w).conn = "nil" => c.conn = "nil"
         /\ Held(AfterLength(c, w)) = Held(c)
  <1>1. [c EXCEPT !.half = w] \in CCs /\ [c EXCEPT !.conn = "lost"] \in CCs
    BY DEF CCs
  <1>2. \A d \in {c, [c EXCEPT !.half = w], [c EXCEPT !.conn = "lost"]} :
          /\ d.map = c.map /\ d.asked = c.asked /\ d.inbound = c.inbound
          /\ d.conn = "nil" => c.conn = "nil"
    BY DEF CCs
  <1>3. AfterLength(c, w) \in {c, [c EXCEPT !.half = w], [c EXCEPT !.conn = "lost"]}
    BY DEF AfterLength
  <1> QED
    BY <1>1, <1>2, <1>3 DEF Held

LEMMA AfterDataForm ==
  ASSUME ChromecastAssumption, NEW c \in CCs, NEW w \in {Loop} \cup Callers,
         NEW asks, asks = <<>> \/ \E m \in Mail : asks = <<m>>
  PROVE  /\ AfterData(c, w, asks) \in CCs /\ AfterData(c, w, asks).map = c.map
         /\ AfterData(c, w, asks).conn = "nil" => c.conn = "nil"
         /\ Held(AfterData(c, w, asks)) \subseteq Held(c) \cup ToSet(asks)
  <1> DEFINE ms == c.asked \o asks
             whole == [c EXCEPT !.half = "nobody", !.asked = ms]
             lost == [c EXCEPT !.conn = "lost"]
  <1>1. c.asked \in Seq(Mail)
    BY DEF CCs
  <1>2. ms \in Seq(Mail) /\ ToSet(ms) \subseteq ToSet(c.asked) \cup ToSet(asks)
    <2>1. CASE asks = <<>>
      <3>1. ms = c.asked
        BY <1>1, <2>1, NoneMore
      <3> QED
        BY <1>1, <3>1
    <2>2. CASE \E m \in Mail : asks = <<m>>
      <3>1. PICK m \in Mail : asks = <<m>>
        BY <2>2
      <3>2. ToSet(asks) = {m}
        BY <3>1 DEF ToSet
      <3>3. ms \in Seq(Mail) /\ ToSet(ms) = ToSet(c.asked) \cup {m}
        BY <1>1, <3>1, OneMore
      <3> QED
        BY <3>2, <3>3
    <2> QED
      BY <2>1, <2>2
  <1> HIDE DEF ms
  <1>3. /\ whole \in CCs /\ whole.map = c.map /\ whole.conn = c.conn
        /\ whole.asked = ms /\ whole.inbound = c.inbound
        /\ lost \in CCs /\ lost.map = c.map /\ lost.conn = "lost"
        /\ lost.asked = c.asked /\ lost.inbound = c.inbound
    BY <1>2 DEF CCs
  <1>4. AfterData(c, w, asks) \in {c, whole, lost}
    BY DEF AfterData, ms
  <1> HIDE DEF whole, lost
  <1> QED
    BY <1>2, <1>3, <1>4 DEF Held

\* A write that meets no connection, or fails, on the way to what it has in
\* the other cases.
LEMMA WriteKeeps ==
  ASSUME ChromecastAssumption, IInv, NEW p \in Callers, frame[p].at \in {"length", "data"},
         UNCHANGED <<devices, address, unmoved>>,
         \/ cc[frame[p].obj].conn = "nil" /\ Dead("nil") /\ UNCHANGED cc
         \/ Sent(p, FALSE, cc)
  PROVE  IInv'
  <1>1. CASE cc[frame[p].obj].conn = "nil" /\ Dead("nil") /\ UNCHANGED cc
    <2>1. unmoved
      BY <1>1, InCall DEF Calls
    <2> QED
      BY <1>1, <2>1, DeadKept
  <1>2. CASE Sent(p, FALSE, cc)
    <2>1. cc \in [Objects -> CCs] /\ Added(p, FALSE, cc)
      BY DEF IInv, Types, Added
    <2> QED
      BY <1>2, <2>1, SentKeeps
  <1> QED
    BY <1>1, <1>2

LEMMA LengthKeeps ==
  ASSUME ChromecastAssumption, IInv, NEW p \in Callers, Length(p)
  PROVE  IInv'
  <1> DEFINE f == frame[p]
             o == f.obj
             c == AfterLength(cc[o], p)
  <1>1. frame[p].at = "length" /\ UNCHANGED <<devices, address, unmoved>>
    BY DEF Length, Write
  <1>2. CASE ~(cc' = [cc EXCEPT ![o] = c] /\ Goto(p, "data"))
    <2>1. \/ cc[frame[p].obj].conn = "nil" /\ Dead("nil") /\ UNCHANGED cc
          \/ Sent(p, FALSE, cc)
      BY <1>2 DEF Length, Write
    <2> QED
      BY <1>1, <2>1, WriteKeeps
  <1>3. CASE cc' = [cc EXCEPT ![o] = c] /\ Goto(p, "data")
    <2>1. /\ f \in Frames /\ o \in Objects /\ cc[o] \in CCs /\ ~f.arrived
          /\ \A x \in Objects : \A m \in Held(cc[x]) : m.by # p
      BY <1>1, InCall DEF Calls
    <2>2. /\ c \in CCs /\ c.map = cc[o].map /\ Held(c) = Held(cc[o])
          /\ c.conn = "nil" => cc[o].conn = "nil"
      BY <2>1, AfterLengthForm
    <2> HIDE DEF c
    <2>3. /\ cc' \in [Objects -> CCs]
          /\ \A x \in Objects : /\ cc'[x].map = cc[x].map /\ Held(cc'[x]) = Held(cc[x])
                                /\ cc'[x].conn = "nil" => cc[x].conn = "nil"
      BY <1>3, <2>1, <2>2 DEF IInv, Types
    <2>4. "data" \in Places /\ Types
      BY DEF Places, Sending, Calls, IInv
    <2>5. /\ frame' \in [Callers -> Frames]
          /\ \A q \in Callers \ {p} : frame'[q] = frame[q]
          /\ frame'[p].at = "data" /\ frame'[p].obj = frame[p].obj /\ frame'[p].kind = frame[p].kind
          /\ frame'[p].id = frame[p].id /\ frame'[p].arrived = frame[p].arrived
          /\ frame'[p].overlapped = frame[p].overlapped
      BY <1>3, <2>4, GotoForm
    <2>6. Types'
      BY <1>1, <2>3, <2>4, <2>5 DEF Types
    <2>7. Apart(p)
      BY <2>5 DEF Apart
    <2>8. Follows(p, frame[p], frame'[p])
      BY <2>5 DEF Follows, Calls
    <2>9. Kept(p)
      BY <2>1, <2>3 DEF Kept
    <2>10. GoesOn(p)
      <3>1. ASSUME ~f.overlapped PROVE f.id = 0 /\ (f.kind = "status" => cc[o].map[0] = p)
        BY <1>1, <3>1 DEF IInv, Alone, Calls
      <3> QED
        BY <2>1, <2>3, <2>5, <3>1 DEF GoesOn
    <2>11. frame[p].at \in Calls /\ ~frame'[p].arrived
      BY <1>1, <2>1, <2>5 DEF Calls
    <2> QED
      BY <1>1, <2>3, <2>6, <2>7, <2>8, <2>9, <2>10, <2>11, CallStep
  <1> QED
    BY <1>2, <1>3

LEMMA DataKeeps ==
  ASSUME ChromecastAssumption, IInv, NEW p \in Callers, Data(p)
  PROVE  IInv'
  <1> DEFINE f == frame[p]
             o == f.obj
             asks == IF f.kind = "status" THEN <<[id |-> f.id, by |-> p]>> ELSE <<>>
             c == AfterData(cc[o], p, asks)
             objs == [cc EXCEPT ![o] = c]
  <1>1. frame[p].at = "data" /\ UNCHANGED <<devices, address, unmoved>>
    BY DEF Data, Write
  <1>2. \/ cc[frame[p].obj].conn = "nil" /\ Dead("nil") /\ UNCHANGED cc
        \/ Sent(p, FALSE, cc)
        \/ Sent(p, TRUE, objs)
    BY DEF Data, Write
  <1>3. f \in Frames /\ o \in Objects /\ cc[o] \in CCs
    BY <1>1, InCall DEF Calls
  <1>4. /\ asks = <<>> \/ \E m \in Mail : asks = <<m>>
        /\ \A m \in ToSet(asks) : f.kind = "status" /\ m.by = p /\ m.id = f.id
    <2> DEFINE m == [id |-> f.id, by |-> p]
    <2>1. m \in Mail /\ m.by = p /\ m.id = f.id
      BY <1>3 DEF Mail, Frames
    <2>2. ToSet(<<>>) = {} /\ ToSet(<<m>>) = {m}
      BY DEF ToSet
    <2> HIDE DEF m
    <2>3. asks = IF f.kind = "status" THEN <<m>> ELSE <<>>
      BY DEF m
    <2> QED
      BY <2>1, <2>2, <2>3
  <1> HIDE DEF asks
  <1>5. /\ c \in CCs /\ c.map = cc[o].map /\ Held(c) \subseteq Held(cc[o]) \cup ToSet(asks)
        /\ c.conn = "nil" => cc[o].conn = "nil"
    BY <1>3, <1>4, AfterDataForm
  <1> HIDE DEF c
  <1>6. /\ objs \in [Objects -> CCs]
        /\ \A x \in Objects :
             /\ objs[x].conn = "nil" => cc[x].conn = "nil"
             /\ objs[x].map = cc[x].map
             /\ \A m \in Held(objs[x]) :
                  \/ m \in Held(cc[x])
                  \/ f.kind = "status" /\ m.by = p /\ x = f.obj /\ m.id = f.id
    BY <1>3, <1>4, <1>5 DEF IInv, Types
  <1> HIDE DEF objs
  <1>7. CASE Sent(p, TRUE, objs)
    <2>1. PICK ok \in BOOLEAN : ok /\ Sent(p, ok, objs)
      BY <1>7
    <2>2. Added(p, ok, objs)
      BY <1>6, <2>1 DEF Added
    <2>3. objs \in [Objects -> CCs]
      BY <1>6
    <2> QED
      BY <1>1, <2>1, <2>2, <2>3, SentKeeps
  <1> QED
    BY <1>1, <1>2, <1>7, WriteKeeps

LEMMA GotKeeps ==
  ASSUME ChromecastAssumption, IInv, NEW p \in Callers, Got(p)
  PROVE  IInv'
  BY ReturnKeeps DEF Got, IInv, Waits, Calls

LEMMA TimeoutKeeps ==
  ASSUME ChromecastAssumption, IInv, NEW p \in Callers, Timeout(p)
  PROVE  IInv'
  BY ReturnKeeps DEF Timeout, IInv, Waits, Calls

-----------------------------------------------------------------------------
(* The hub's goroutine and the check's, outside of calls. *)

LEMMA TwoCallers ==
  /\ Callers = {Check, Hub} /\ Check # Hub
  /\ Check \in Callers /\ Hub \in Callers
  /\ Callers \ {Check} = {Hub} /\ Callers \ {Hub} = {Check}
  BY DEF Callers, Check, Hub

\* The cc of a goroutine that has one.
LEMMA ItsObject ==
  ASSUME ChromecastAssumption, IInv
  PROVE  /\ \A p \in Callers : frame[p].at \in Sending => frame[p].obj \in Objects
         /\ frame[Check].at \in {"drop", "dial", "list"} => frame[Check].obj \in Objects
  <1>1. \A p \in Callers : frame[p] \in Frames
    BY DEF IInv, Types
  <1>2. \A p \in Callers : frame[p].at \in Sending => frame[p].obj # Nil
    BY TwoCallers DEF IInv, HubShape, CheckShape
  <1>3. frame[Check].at \in {"drop", "dial", "list"} => frame[Check].obj # Nil
    BY DEF IInv, CheckShape
  <1> QED
    BY <1>1, <1>2, <1>3, TwoCallers DEF Frames

LEMMA PressKeeps ==
  ASSUME ChromecastAssumption, IInv, Press
  PROVE  IInv'
  <1> USE TwoCallers
  <1>1. /\ frame[Hub].at = "idle" /\ Goto(Hub, "lookup")
        /\ UNCHANGED <<devices, cc, address, unmoved>>
    BY DEF Press
  <1>2. "lookup" \in Places /\ Types /\ frame[Hub].obj = Nil
    BY <1>1 DEF Places, IInv, HubShape, Sending, Calls
  <1>3. /\ frame' \in [Callers -> Frames] /\ frame'[Check] = frame[Check]
        /\ frame'[Hub].at = "lookup" /\ frame'[Hub].obj = Nil
        /\ frame'[Hub].arrived = frame[Hub].arrived
    BY <1>1, <1>2, GotoForm
  <1>4. ~Crashed /\ ~frame[Hub].arrived
    BY <1>1 DEF IInv, HubShape, Awaited
  <1>5. Types' /\ HubShape' /\ CheckShape' /\ (unmoved \/ Connected)'
    BY <1>1, <1>2, <1>3, <1>4
       DEF IInv, Types, HubShape, CheckShape, Connected, Crashed, Sending, Calls
  <1> QED
    BY <1>1, <1>3, <1>4, <1>5, OutsideStep DEF Calls

LEMMA LookupKeeps ==
  ASSUME ChromecastAssumption, IInv, Lookup
  PROVE  IInv'
  <1> USE TwoCallers
  <1>1. frame[Hub].at = "lookup" /\ UNCHANGED <<devices, cc, address, unmoved>> /\ Types
    BY DEF Lookup, IInv
  <1>2. ~Crashed
    BY <1>1 DEF IInv, HubShape
  <1>3. CASE devices = Nil
    <2>1. Finish(Hub)
      BY <1>3 DEF Lookup
    <2>2. /\ frame' \in [Callers -> Frames] /\ frame'[Check] = frame[Check]
          /\ frame'[Hub].at = "idle" /\ frame'[Hub].obj = Nil /\ ~frame'[Hub].arrived
      BY <1>1, <2>1, FinishForm
    <2>3. Types' /\ HubShape' /\ CheckShape' /\ (unmoved \/ Connected)'
      BY <1>1, <1>2, <2>2
         DEF IInv, Types, HubShape, CheckShape, Connected, Crashed, Sending, Calls
    <2> QED
      BY <1>1, <1>2, <2>2, <2>3, OutsideStep DEF Calls
  <1>4. CASE devices # Nil
    <2>1. "status" \in Kinds /\ devices \in Objects /\ Begin(Hub, devices, "status")
      BY <1>1, <1>4 DEF Kinds, Lookup, Types
    <2>2. /\ frame' \in [Callers -> Frames] /\ frame'[Check] = frame[Check]
          /\ frame'[Hub].at = "load" /\ frame'[Hub].obj = devices
          /\ frame'[Hub].kind = "status" /\ frame'[Hub].id = 0 /\ ~frame'[Hub].arrived
      BY <1>1, <2>1, BeginForm
    <2>3. Types' /\ HubShape'
      BY <1>1, <1>2, <1>4, <2>2 DEF Types, HubShape, Crashed, Sending
    <2>4. CheckShape' /\ (unmoved \/ Connected)'
      BY <1>1, <1>4, <2>2 DEF IInv, CheckShape, Connected
    <2> QED
      BY <1>1, <1>2, <2>2, <2>3, <2>4, OutsideStep DEF Calls
  <1> QED
    BY <1>3, <1>4

\* A step of the check's, which the hub's goroutine does not see.
LEMMA CheckStep ==
  ASSUME ChromecastAssumption, IInv, ~Crashed,
         frame[Check].at \notin Calls, frame'[Check].at \notin Calls \cup {"nil", "fault"},
         frame'[Check].at = "load" => frame'[Check].id = 0, ~frame'[Check].arrived,
         frame' \in [Callers -> Frames], frame'[Hub] = frame[Hub],
         (Types /\ CheckShape /\ (unmoved \/ Connected))',
         \A o \in Objects : Held(cc'[o]) \subseteq Held(cc[o]),
         frame[Hub].at \in Calls => cc'[frame[Hub].obj].map = cc[frame[Hub].obj].map
  PROVE  IInv'
  <1>1. HubShape'
    BY DEF IInv, HubShape, Crashed
  <1> QED
    BY <1>1, TwoCallers, OutsideStep

LEMMA FindEntriesKeeps ==
  ASSUME ChromecastAssumption, IInv, FindEntries
  PROVE  IInv'
  <1> USE TwoCallers
  <1>1. frame[Check].at = "idle" /\ UNCHANGED <<devices, cc, address, unmoved>> /\ Types
    BY DEF FindEntries, IInv
  <1>2. PICK found \in {address, Nil} :
          IF devices = Nil THEN ToEntries(found) ELSE Turn(Check, "load", devices, found, "status")
    BY DEF FindEntries
  <1>3. found \in Addresses \cup {Nil}
    BY <1>1 DEF Types
  <1>4. ~Crashed
    BY <1>1 DEF Crashed
  <1>5. CASE devices = Nil
    <2>1. /\ frame' \in [Callers -> Frames] /\ frame'[Hub] = frame[Hub]
          /\ frame'[Check].at = "entries" /\ frame'[Check].obj = Nil /\ ~frame'[Check].arrived
      BY <1>1, <1>2, <1>3, <1>5, ToEntriesForm
    <2>2. Types' /\ CheckShape'
      BY <1>1, <2>1 DEF Types, CheckShape, Sending, Calls
    <2>3. (unmoved \/ Connected)'
      BY <1>1, <1>5, <2>1 DEF IInv, Connected, Sending, Calls
    <2> QED
      BY <1>1, <1>4, <2>1, <2>2, <2>3, CheckStep DEF Calls
  <1>6. CASE devices # Nil
    <2>1. /\ devices \in Objects \cup {Nil} /\ "load" \in Places /\ "status" \in Kinds
          /\ Turn(Check, "load", devices, found, "status")
      BY <1>1, <1>2, <1>6 DEF Types, Places, Sending, Kinds
    <2>2. /\ frame' \in [Callers -> Frames] /\ frame'[Hub] = frame[Hub]
          /\ frame'[Check].at = "load" /\ frame'[Check].obj = devices
          /\ frame'[Check].kind = "status" /\ frame'[Check].id = 0 /\ ~frame'[Check].arrived
      <3>1. PICK o \in Objects \cup {Nil} : o = devices
        BY <2>1
      <3>2. Types /\ Turn(Check, "load", o, found, "status")
        BY <1>1, <2>1, <3>1
      <3>3. /\ frame' \in [Callers -> Frames] /\ \A q \in Callers \ {Check} : frame'[q] = frame[q]
            /\ frame'[Check].at = "load" /\ frame'[Check].obj = o
            /\ frame'[Check].kind = "status" /\ frame'[Check].id = 0 /\ ~frame'[Check].arrived
        BY <1>3, <2>1, <3>2, TurnForm
      <3> QED
        BY <3>1, <3>3
    <2>3. Types' /\ CheckShape'
      BY <1>1, <1>6, <2>2 DEF Types, CheckShape
    <2>4. (unmoved \/ Connected)'
      BY <1>1, <1>6, <2>2 DEF IInv, Connected
    <2> QED
      BY <1>1, <1>4, <2>2, <2>3, <2>4, CheckStep DEF Calls
  <1> QED
    BY <1>5, <1>6

LEMMA DropKeeps ==
  ASSUME ChromecastAssumption, IInv, Drop
  PROVE  IInv'
  <1> USE TwoCallers
  <1>1. /\ frame[Check].at = "drop" /\ devices' = Nil
        /\ cc' = IF frame[Hub].obj = devices THEN cc ELSE [cc EXCEPT ![devices] = NewObject]
        /\ ToEntries(frame[Check].found) /\ UNCHANGED <<address, unmoved>> /\ Types
    BY DEF Drop, IInv
  <1>2. ~Crashed
    BY <1>1 DEF Crashed
  <1>3. /\ frame' \in [Callers -> Frames] /\ frame'[Hub] = frame[Hub]
        /\ frame'[Check].at = "entries" /\ frame'[Check].obj = Nil /\ ~frame'[Check].arrived
    <2>1. PICK found : found = frame[Check].found
      OBVIOUS
    <2>2. found \in Addresses \cup {Nil}
      BY <1>1, <2>1 DEF Types, Frames
    <2> QED
      BY <1>1, <2>1, <2>2, ToEntriesForm
  <1>4. devices \in Objects
    <2>1. frame[Check].obj \in Objects /\ frame[Check].kind = "close"
      BY <1>1, ItsObject DEF IInv, CheckShape
    <2> QED
      BY <1>1, <2>1 DEF IInv, CheckShape
  <1>5. NewObject \in CCs /\ Held(NewObject) = {}
    BY <1>1, NewObjectType
  <1>6. /\ cc' \in [Objects -> CCs]
        /\ \A o \in Objects : Held(cc'[o]) \subseteq Held(cc[o])
        /\ \A o \in Objects : o = frame[Hub].obj => cc'[o] = cc[o]
    BY <1>1, <1>4, <1>5 DEF Types
  <1>7. frame[Hub].at \in Sending => frame[Hub].obj \in Objects
    BY ItsObject
  <1>8. Types' /\ CheckShape'
    BY <1>1, <1>3, <1>6 DEF Types, CheckShape, Sending, Calls
  <1>9. (unmoved \/ Connected)'
    BY <1>1, <1>3, <1>6, <1>7 DEF IInv, Connected, Sending, Calls
  <1> QED
    BY <1>1, <1>2, <1>3, <1>6, <1>7, <1>8, <1>9, CheckStep DEF Calls, Sending

LEMMA EntriesKeeps ==
  ASSUME ChromecastAssumption, IInv, Entries
  PROVE  IInv'
  <1> USE TwoCallers
  <1> DEFINE found == frame[Check].found
  <1>1. frame[Check].at = "entries" /\ UNCHANGED <<devices, address, unmoved>> /\ Types
    BY DEF Entries, IInv
  <1>2. ~Crashed /\ frame[Check].obj = Nil
    BY <1>1 DEF Crashed, IInv, CheckShape
  <1>3. found \in Addresses \cup {Nil}
    BY <1>1 DEF Types, Frames
  <1>4. frame[Hub].at \in Sending => frame[Hub].obj \in Objects
    BY ItsObject
  <1>5. CASE Finish(Check) /\ UNCHANGED cc
    <2>1. /\ frame' \in [Callers -> Frames] /\ frame'[Hub] = frame[Hub]
          /\ frame'[Check].at = "idle" /\ frame'[Check].obj = Nil /\ ~frame'[Check].arrived
      BY <1>1, <1>5, FinishForm
    <2>2. Types' /\ CheckShape'
      BY <1>1, <1>5, <2>1 DEF Types, CheckShape, Sending, Calls
    <2>3. (unmoved \/ Connected)'
      BY <1>1, <1>5, <2>1 DEF IInv, Connected, Sending, Calls
    <2> QED
      BY <1>1, <1>2, <1>5, <2>1, <2>2, <2>3, CheckStep DEF Calls
  <1>6. CASE found # Nil /\ devices # Nil /\ Begin(Check, devices, "moving") /\ UNCHANGED cc
    <2>1. devices \in Objects /\ "moving" \in Kinds
      BY <1>1, <1>6 DEF Types, Kinds
    <2>2. /\ frame' \in [Callers -> Frames] /\ frame'[Hub] = frame[Hub]
          /\ frame'[Check].at = "load" /\ frame'[Check].obj = devices
          /\ frame'[Check].kind = "moving" /\ frame'[Check].id = 0 /\ ~frame'[Check].arrived
      BY <1>1, <1>6, <2>1, BeginForm
    <2>3. Types' /\ CheckShape'
      BY <1>1, <1>6, <2>2 DEF Types, CheckShape
    <2>4. (unmoved \/ Connected)'
      BY <1>1, <1>6, <2>2 DEF IInv, Connected
    <2> QED
      BY <1>1, <1>2, <1>6, <2>2, <2>3, <2>4, CheckStep DEF Calls
  <1>7. CASE found # Nil /\ devices = Nil
    <2> DEFINE o == CHOOSE x \in Objects : Unused(x)
               c == [NewObject EXCEPT !.addr = found]
    <2>1. cc' = [cc EXCEPT ![o] = c] /\ Turn(Check, "dial", o, found, "connect")
      BY <1>7 DEF Entries
    <2>2. o \in Objects /\ Unused(o)
      <3>1. \E x \in Objects : Unused(x)
        BY <1>2, <1>7 DEF Unused, ChromecastAssumption
      <3> QED
        BY <3>1
    <2>3. o # frame[Hub].obj
      BY <2>2 DEF Unused
    <2>4. c \in CCs /\ Held(c) = {}
      <3>1. NewObject \in CCs /\ Held(NewObject) = {}
        BY <1>1, NewObjectType
      <3> HIDE DEF NewObject, found
      <3> QED
        BY <1>3, <3>1 DEF CCs, Held
    <2> HIDE DEF c, o
    <2>5. /\ cc' \in [Objects -> CCs]
          /\ \A x \in Objects : Held(cc'[x]) \subseteq Held(cc[x])
          /\ \A x \in Objects : x = frame[Hub].obj => cc'[x] = cc[x]
      BY <1>1, <2>1, <2>2, <2>3, <2>4 DEF Types
    <2>6. "dial" \in Places /\ "connect" \in Kinds /\ o \in Objects \cup {Nil}
      BY <2>2 DEF Places, Kinds
    <2>7. /\ frame' \in [Callers -> Frames] /\ frame'[Hub] = frame[Hub]
          /\ frame'[Check].at = "dial" /\ frame'[Check].obj = o
          /\ frame'[Check].kind = "connect" /\ ~frame'[Check].arrived
      <3>1. PICK d \in Addresses \cup {Nil} : d = found
        BY <1>3
      <3>2. Turn(Check, "dial", o, d, "connect")
        BY <2>1, <3>1
      <3> QED
        BY <1>1, <2>6, <3>2, TurnForm
    <2>8. Types'
      BY <1>1, <2>5, <2>7 DEF Types
    <2>9. CheckShape'
      BY <1>1, <1>7, <2>2, <2>3, <2>7 DEF CheckShape, ChromecastAssumption
    <2>10. (unmoved \/ Connected)'
      BY <1>1, <1>4, <1>7, <2>5, <2>7 DEF IInv, Connected, Sending, Calls
    <2> QED
      BY <1>1, <1>2, <1>4, <2>5, <2>7, <2>8, <2>9, <2>10, CheckStep DEF Calls, Sending
  <1>8. \/ Finish(Check) /\ UNCHANGED cc
        \/ found # Nil /\ devices = Nil
        \/ found # Nil /\ devices # Nil /\ Begin(Check, devices, "moving") /\ UNCHANGED cc
    BY DEF Entries
  <1> QED
    BY <1>5, <1>6, <1>7, <1>8

LEMMA DialKeeps ==
  ASSUME ChromecastAssumption, IInv, Dial
  PROVE  IInv'
  <1> USE TwoCallers
  <1> DEFINE o == frame[Check].obj
             c == [NewObject EXCEPT !.addr = cc[o].addr, !.conn = "open", !.loop = "reading",
                                    !.map = cc[o].map]
             d == [cc[o] EXCEPT !.conn = "nil"]
  <1>1. frame[Check].at = "dial" /\ UNCHANGED <<devices, address>> /\ Types
    BY DEF Dial, IInv
  <1>2. ~Crashed
    BY <1>1 DEF Crashed
  <1>3. /\ o \in Objects /\ o # Nil
        /\ \/ devices = o
           \/ devices = Nil /\ frame[Check].kind = "connect" /\ frame[Hub].obj # o
    BY <1>1, ItsObject DEF IInv, CheckShape
  <1>4. cc[o] \in CCs
    BY <1>1, <1>3 DEF Types
  <1>5. frame[Hub].at \in Sending => frame[Hub].obj \in Objects
    BY ItsObject
  <1>6. CASE cc' = [cc EXCEPT ![o] = c] /\ Begin(Check, o, "connect") /\ UNCHANGED unmoved
    <2>1. c \in CCs /\ Held(c) = {} /\ c.conn = "open" /\ c.map = cc[o].map
      <3>1. NewObject \in CCs /\ Held(NewObject) = {}
        BY <1>1, NewObjectType
      <3>2. cc[o].addr \in Addresses \cup {Nil}
            /\ cc[o].map \in [Ids -> {"none", "room", "full"} \cup Callers]
        BY <1>4 DEF CCs
      <3> HIDE DEF NewObject, o
      <3> QED
        BY <3>1, <3>2 DEF CCs, Held
    <2> HIDE DEF c
    <2>2. /\ cc' \in [Objects -> CCs]
          /\ \A x \in Objects : /\ Held(cc'[x]) \subseteq Held(cc[x]) /\ cc'[x].map = cc[x].map
                                /\ cc'[x].conn = "nil" => cc[x].conn = "nil"
          /\ cc'[o].conn # "nil"
      BY <1>1, <1>3, <1>6, <2>1 DEF Types
    <2>3. /\ frame' \in [Callers -> Frames] /\ frame'[Hub] = frame[Hub]
          /\ frame'[Check].at = "load" /\ frame'[Check].obj = o
          /\ frame'[Check].kind = "connect" /\ frame'[Check].id = 0 /\ ~frame'[Check].arrived
      <3>1. PICK x \in Objects : x = o
        BY <1>3
      <3>2. "connect" \in Kinds /\ Begin(Check, x, "connect")
        BY <1>6, <3>1 DEF Kinds
      <3>3. /\ frame' \in [Callers -> Frames] /\ \A q \in Callers \ {Check} : frame'[q] = frame[q]
            /\ frame'[Check].at = "load" /\ frame'[Check].obj = x
            /\ frame'[Check].kind = "connect" /\ frame'[Check].id = 0 /\ ~frame'[Check].arrived
        BY <1>1, <3>2, BeginForm
      <3> QED
        BY <3>1, <3>3
    <2> HIDE DEF o
    <2>4. Types' /\ CheckShape'
      BY <1>1, <1>3, <1>6, <2>2, <2>3 DEF Types, CheckShape
    <2>5. (unmoved \/ Connected)'
      <3> SUFFICES ASSUME Connected
                   PROVE  Connected'
        BY <1>6 DEF IInv
      <3>1. devices' # Nil => cc'[devices'].conn # "nil"
        BY <1>1, <2>2 DEF Connected, Types
      <3>2. frame'[Hub].at \in Sending => cc'[frame'[Hub].obj].conn # "nil"
        BY <1>5, <2>2, <2>3 DEF Connected
      <3> QED
        BY <2>2, <2>3, <3>1, <3>2 DEF Connected
    <2> QED
      BY <1>1, <1>2, <1>5, <2>2, <2>3, <2>4, <2>5, CheckStep DEF Calls, Sending
  <1>7. CASE cc' = [cc EXCEPT ![o].conn = "nil"] /\ unmoved' = (unmoved \/ devices = o) /\ Finish(Check)
    <2>1. d \in CCs /\ d.map = cc[o].map /\ d.asked = cc[o].asked /\ d.inbound = cc[o].inbound
      <3> HIDE DEF o
      <3> QED
        BY <1>4 DEF CCs
    <2>2. cc' = [cc EXCEPT ![o] = d]
      BY <1>7
    <2> HIDE DEF d
    <2>3. /\ cc' \in [Objects -> CCs]
          /\ \A x \in Objects : Held(cc'[x]) = Held(cc[x]) /\ cc'[x].map = cc[x].map
          /\ \A x \in Objects : x # o => cc'[x] = cc[x]
      BY <1>1, <1>3, <2>1, <2>2 DEF Types, Held
    <2>4. /\ frame' \in [Callers -> Frames] /\ frame'[Hub] = frame[Hub]
          /\ frame'[Check].at = "idle" /\ frame'[Check].obj = Nil /\ ~frame'[Check].arrived
      BY <1>1, <1>7, FinishForm
    <2> HIDE DEF o
    <2>5. unmoved' \in BOOLEAN
      <3> DEFINE b == devices = o
      <3>1. unmoved \in BOOLEAN /\ b \in BOOLEAN /\ unmoved' = (unmoved \/ b)
        BY <1>1, <1>7 DEF Types
      <3> HIDE DEF b
      <3> QED
        BY <3>1
    <2>6. Types' /\ CheckShape'
      BY <1>1, <2>3, <2>4, <2>5 DEF Types, CheckShape, Sending, Calls
    <2>7. (unmoved \/ Connected)'
      <3> SUFFICES ASSUME ~unmoved'
                   PROVE  Connected'
        OBVIOUS
      <3>1. ~unmoved /\ devices # o
        BY <1>7
      <3>2. devices' = Nil /\ frame'[Hub].obj # o /\ Connected
        BY <1>1, <1>3, <2>4, <3>1 DEF IInv
      <3> QED
        BY <1>5, <2>3, <2>4, <3>2 DEF Connected, Sending, Calls
    <2> QED
      BY <1>1, <1>2, <1>5, <2>3, <2>4, <2>6, <2>7, CheckStep DEF Calls, Sending
  <1> QED
    BY <1>6, <1>7 DEF Dial

LEMMA ListKeeps ==
  ASSUME ChromecastAssumption, IInv, List
  PROVE  IInv'
  <1> USE TwoCallers
  <1>1. /\ frame[Check].at = "list" /\ devices' = frame[Check].obj /\ Finish(Check)
        /\ UNCHANGED <<cc, address, unmoved>> /\ Types
    BY DEF List, IInv
  <1>2. ~Crashed /\ frame[Check].obj \in Objects
    BY <1>1, ItsObject DEF Crashed
  <1>3. /\ frame' \in [Callers -> Frames] /\ frame'[Hub] = frame[Hub]
        /\ frame'[Check].at = "idle" /\ frame'[Check].obj = Nil /\ ~frame'[Check].arrived
    BY <1>1, FinishForm
  <1>4. Types' /\ CheckShape'
    BY <1>1, <1>2, <1>3 DEF Types, CheckShape, Sending, Calls
  <1>5. (unmoved \/ Connected)'
    BY <1>1, <1>3 DEF IInv, Connected, Sending, Calls
  <1> QED
    BY <1>1, <1>2, <1>3, <1>4, <1>5, CheckStep DEF Calls

-----------------------------------------------------------------------------
(* The receive loop, the device, and the end of the process. *)

LEMMA ReceiveKeeps ==
  ASSUME ChromecastAssumption, IInv, NEW o \in Objects, Receive(o)
  PROVE  IInv'
  <1> USE TwoCallers
  <1> DEFINE c == cc[o]
             m == Head(c.inbound)
             to == c.map[m.id]
             read == [c EXCEPT !.inbound = Tail(@)]
  <1>1. /\ ~Crashed /\ c.inbound # <<>> /\ Types /\ Awaited
        /\ UNCHANGED <<devices, address, unmoved>>
    BY DEF Receive, IInv
  <1>2. c \in CCs /\ c.inbound \in Seq(Mail)
    BY <1>1 DEF Types, CCs
  <1>3. /\ m \in Mail /\ Tail(c.inbound) \in Seq(Mail)
        /\ m \in Held(c) /\ ToSet(Tail(c.inbound)) \subseteq ToSet(c.inbound)
    BY <1>1, <1>2, Remaining DEF Held
  <1>4. /\ read \in CCs /\ read.map = c.map /\ read.conn = c.conn /\ Held(read) \subseteq Held(c)
    <2> DEFINE rest == Tail(c.inbound)
    <2>1. rest \in Seq(Mail) /\ ToSet(rest) \subseteq ToSet(c.inbound)
      BY <1>3
    <2>2. read = [c EXCEPT !.inbound = rest]
      OBVIOUS
    <2> HIDE DEF c, rest, read
    <2> QED
      BY <1>2, <2>1, <2>2 DEF CCs, Held
  <1>5. CASE m.by = "device"
    <2>1. cc' = [cc EXCEPT ![o] = [c EXCEPT !.inbound = Tail(@), !.loop = "pong"]] /\ UNCHANGED frame
      BY <1>5 DEF Receive
    <2> DEFINE d == [c EXCEPT !.inbound = Tail(@), !.loop = "pong"]
    <2>2. d \in CCs /\ d.map = c.map /\ d.conn = c.conn /\ Held(d) \subseteq Held(c)
      <3> DEFINE rest == Tail(c.inbound)
      <3>1. rest \in Seq(Mail) /\ ToSet(rest) \subseteq ToSet(c.inbound)
        BY <1>3
      <3>2. d = [c EXCEPT !.inbound = rest, !.loop = "pong"]
        OBVIOUS
      <3> HIDE DEF c, rest, d
      <3> QED
        BY <1>2, <3>1, <3>2 DEF CCs, Held
    <2> HIDE DEF d
    <2>3. /\ cc' \in [Objects -> CCs]
          /\ \A x \in Objects : /\ cc'[x].conn = cc[x].conn /\ cc'[x].map = cc[x].map
                                /\ Held(cc'[x]) \subseteq Held(cc[x])
      BY <1>1, <2>1, <2>2 DEF Types, d
    <2>4. Types'
      BY <1>1, <2>1, <2>3 DEF Types
    <2> QED
      BY <1>1, <2>1, <2>3, <2>4, QuietStep
  <1>6. CASE m.by # "device"
    <2>1. /\ frame' = [p \in Callers |-> [frame[p] EXCEPT
                         !.full = @ \/ p = to, !.arrived = @ \/ p = m.by]]
          /\ cc' = IF to = "room" THEN [[cc EXCEPT ![o] = read] EXCEPT ![o].map[m.id] = "full"]
                                  ELSE [cc EXCEPT ![o] = read]
      BY <1>6 DEF Receive
    <2> DEFINE map == [c.map EXCEPT ![m.id] = "full"]
               d == [read EXCEPT !.map = map]
    <2>2. cc' = [cc EXCEPT ![o] = IF to = "room" THEN d ELSE read]
      <3> HIDE DEF read, to, m
      <3>1. CASE to # "room"
        BY <2>1, <3>1
      <3>2. CASE to = "room"
        <4> DEFINE e == [cc EXCEPT ![o] = read]
        <4>1. e[o] = read /\ cc' = [e EXCEPT ![o] = [e[o] EXCEPT !.map = [e[o].map EXCEPT ![m.id] = "full"]]]
          BY <1>1, <2>1, <3>2 DEF Types
        <4>2. e[o].map = c.map
          BY <1>4, <4>1
        <4>3. cc' = [e EXCEPT ![o] = d]
          BY <4>1, <4>2
        <4> HIDE DEF d
        <4> QED
          BY <3>2, <4>3
      <3> QED
        BY <3>1, <3>2
    <2>3. /\ map \in [Ids -> {"none", "room", "full"} \cup Callers]
          /\ \A i \in Ids : c.map[i] \in Callers /\ to = "room" => map[i] = c.map[i]
      <3>1. c.map \in [Ids -> {"none", "room", "full"} \cup Callers]
        BY <1>2 DEF CCs
      <3>2. "room" \notin Callers
        BY DEF Callers, Check, Hub
      <3> HIDE DEF c, m
      <3> QED
        BY <3>1, <3>2
    <2>4. /\ d \in CCs /\ d.map = map /\ d.conn = c.conn /\ Held(d) = Held(read)
      <3> HIDE DEF c, map, read
      <3> QED
        BY <1>4, <2>3 DEF CCs, Held
    <2> HIDE DEF d, map
    <2>5. /\ cc' \in [Objects -> CCs]
          /\ \A x \in Objects :
               /\ cc'[x].conn = cc[x].conn
               /\ Held(cc'[x]) \subseteq Held(cc[x])
               /\ \A i \in Ids : cc[x].map[i] \in Callers => cc'[x].map[i] = cc[x].map[i]
      <3> HIDE DEF read, to
      <3> QED
        BY <1>1, <1>4, <2>2, <2>3, <2>4 DEF Types
    <2>6. \A p \in Callers :
            /\ frame'[p] \in Frames
            /\ frame'[p].at = frame[p].at /\ frame'[p].obj = frame[p].obj
            /\ frame'[p].kind = frame[p].kind /\ frame'[p].id = frame[p].id
            /\ frame'[p].overlapped = frame[p].overlapped
            /\ frame'[p].full = (frame[p].full \/ p = to)
            /\ frame'[p].arrived = (frame[p].arrived \/ p = m.by)
      <3> TAKE p \in Callers
      <3> DEFINE f == frame[p]
                 full == f.full \/ p = to
                 arrived == f.arrived \/ p = m.by
      <3>1. /\ f \in Frames /\ full \in BOOLEAN /\ arrived \in BOOLEAN
            /\ frame'[p] = [f EXCEPT !.full = full, !.arrived = arrived]
        BY <1>1, <2>1 DEF Types
      <3> HIDE DEF f, full, arrived
      <3>2. LET g == [f EXCEPT !.full = full, !.arrived = arrived] IN
            /\ g \in Frames /\ g.at = f.at /\ g.obj = f.obj /\ g.kind = f.kind /\ g.id = f.id
            /\ g.overlapped = f.overlapped /\ g.full = full /\ g.arrived = arrived
        BY <3>1 DEF Frames
      <3> QED
        BY <3>1, <3>2 DEF f, full, arrived
    <2>7. frame' \in [Callers -> Frames]
      BY <2>1, <2>6
    <2>8. Types'
      BY <1>1, <2>5, <2>7 DEF Types
    <2>9. HubShape' /\ CheckShape' /\ Waits' /\ ~Crashed'
      BY <1>1, <2>6 DEF IInv, HubShape, CheckShape, Waits, Crashed
    <2>10. (unmoved \/ Connected)'
      BY <1>1, <2>5, <2>6, ItsObject DEF IInv, Connected, Types
    <2>11. Awaited'
      <3>1. m.by \in Callers => frame[m.by].at = "wait"
        BY <1>1, <1>3 DEF Awaited
      <3>2. \A p \in Callers : frame'[p].arrived => frame[p].at = "wait"
        BY <1>1, <2>6, <3>1 DEF Awaited
      <3>3. \A x \in Objects : \A n \in Held(cc'[x]) : n.by \in Callers => frame[n.by].at = "wait"
        BY <1>1, <2>5 DEF Awaited
      <3> QED
        BY <2>6, <3>2, <3>3 DEF Awaited, Held
    <2>12. ASSUME NEW p \in Callers, frame'[p].at \in Calls, ~frame'[p].overlapped
           PROVE  Alone(p)'
      <3>1. Alone(p) /\ frame[p].at \in Calls /\ ~frame[p].overlapped
        BY <2>6, <2>12 DEF IInv
      <3>2. \A q \in Callers \ {p} : frame'[q].at \notin Calls
        BY <2>6, <3>1 DEF Alone
      <3>3. frame'[p].at # "wait" => frame'[p].id = 0
        BY <2>6, <3>1 DEF Alone
      <3>4. 0 \in Ids /\ frame[p].obj \in Objects
        BY <3>1, ItsObject DEF Sending, Ids, Old, ChromecastAssumption
      <3>5. frame'[p].at \in {"header", "length", "data", "wait"} /\ frame'[p].kind = "status" =>
              cc'[frame'[p].obj].map[0] = p
        BY <2>5, <2>6, <3>1, <3>4 DEF Alone
      <3>6. \A x \in Objects : \A n \in Held(cc'[x]) :
              n.by = p => x = frame'[p].obj /\ n.id = 0
        BY <2>5, <2>6, <3>1 DEF Alone
      <3>7. frame'[p].arrived => frame'[p].full
        <4>1. CASE m.by # p
          BY <2>6, <3>1, <4>1 DEF Alone
        <4>2. CASE m.by = p
          <5>1. frame[p].at = "wait" /\ frame[p].kind = "status"
            BY <1>1, <1>3, <4>2 DEF Awaited, IInv, Waits
          <5>2. o = frame[p].obj /\ m.id = 0
            BY <1>3, <3>1, <4>2 DEF Alone
          <5>3. to = p
            BY <3>1, <5>1, <5>2 DEF Alone
          <5> QED
            BY <2>6, <5>3
        <4> QED
          BY <4>1, <4>2
      <3> QED
        BY <3>2, <3>3, <3>5, <3>6, <3>7 DEF Alone, Held
    <2> QED
      BY <2>8, <2>9, <2>10, <2>11, <2>12 DEF IInv, Alone
  <1> QED
    BY <1>5, <1>6

\* A step of a loop or of the device on one cc, which becomes d.
LEMMA OnOneCC ==
  ASSUME ChromecastAssumption, IInv, ~Crashed, NEW o \in Objects, NEW d \in CCs,
         cc' = [cc EXCEPT ![o] = d], UNCHANGED <<devices, frame, address, unmoved>>,
         d.map = cc[o].map, d.conn = "nil" => cc[o].conn = "nil",
         \A m \in Held(d) : m.by \in Callers => m \in Held(cc[o])
  PROVE  IInv'
  <1>1. /\ cc' \in [Objects -> CCs] /\ cc'[o] = d
        /\ \A x \in Objects : x # o => cc'[x] = cc[x]
    BY DEF IInv, Types
  <1>2. Types'
    BY <1>1 DEF IInv, Types
  <1>3. \A x \in Objects :
          /\ cc'[x].conn = "nil" => cc[x].conn = "nil"
          /\ cc'[x].map = cc[x].map
          /\ \A m \in Held(cc'[x]) : m.by \in Callers => m \in Held(cc[x])
    BY <1>1
  <1> QED
    BY <1>2, <1>3, QuietStep

LEMMA LoopKeeps ==
  ASSUME ChromecastAssumption, IInv, NEW o \in Objects,
         ReceiveEnds(o) \/ PongLength(o) \/ PongData(o)
  PROVE  IInv'
  <1> DEFINE c == cc[o]
             long == AfterLength(c, Loop)
             sent == AfterData(c, Loop, <<>>)
  <1>1. ~Crashed /\ UNCHANGED <<devices, frame, address, unmoved>>
    BY DEF ReceiveEnds, PongLength, PongData
  <1>2. c \in CCs
    BY DEF IInv, Types
  <1>3. PICK d \in {[c EXCEPT !.loop = "ended"], [c EXCEPT !.loop = "reading"],
                    [long EXCEPT !.loop = "pongdata"], [sent EXCEPT !.loop = "reading"]} :
          cc' = [cc EXCEPT ![o] = d]
    BY DEF ReceiveEnds, PongLength, PongData
  <1>4. /\ long \in CCs /\ long.map = c.map /\ Held(long) = Held(c)
        /\ long.conn = "nil" => c.conn = "nil"
    BY <1>2, AfterLengthForm
  <1>5. /\ sent \in CCs /\ sent.map = c.map /\ Held(sent) \subseteq Held(c)
        /\ sent.conn = "nil" => c.conn = "nil"
    <2>1. ToSet(<<>>) = {}
      BY DEF ToSet
    <2> QED
      BY <1>2, <2>1, AfterDataForm
  <1>6. \A e \in CCs : \A l \in {"ended", "reading", "pongdata"} :
          LET d2 == [e EXCEPT !.loop = l] IN
          d2 \in CCs /\ d2.map = e.map /\ d2.conn = e.conn /\ Held(d2) = Held(e)
    BY DEF CCs, Held
  <1> HIDE DEF c, long, sent
  <1>7. /\ d \in CCs /\ d.map = c.map /\ Held(d) \subseteq Held(c)
        /\ d.conn = "nil" => c.conn = "nil"
    BY <1>2, <1>4, <1>5, <1>6
  <1>8. \A m \in Held(d) : m.by \in Callers => m \in Held(cc[o])
    BY <1>7 DEF c
  <1> QED
    BY <1>1, <1>3, <1>7, <1>8, OnOneCC DEF c

LEMMA AnswerKeeps ==
  ASSUME ChromecastAssumption, IInv, NEW o \in Objects, Answer(o)
  PROVE  IInv'
  <1> DEFINE c == cc[o]
             m == Head(c.asked)
             rest == Tail(c.asked)
             more == Append(c.inbound, m)
             d == [c EXCEPT !.asked = rest, !.inbound = more]
  <1>1. /\ ~Crashed /\ c.asked # <<>> /\ UNCHANGED <<devices, frame, address, unmoved>>
        /\ cc' = [cc EXCEPT ![o].asked = Tail(@), ![o].inbound = Append(@, Head(cc[o].asked))]
    BY DEF Answer
  <1>2. c \in CCs /\ c.asked \in Seq(Mail) /\ c.inbound \in Seq(Mail)
    BY DEF IInv, Types, CCs
  <1>3. cc' = [cc EXCEPT ![o] = d]
    BY <1>1, <1>2
  <1>4. m \in Mail /\ rest \in Seq(Mail) /\ m \in ToSet(c.asked) /\ ToSet(rest) \subseteq ToSet(c.asked)
    BY <1>1, <1>2, Remaining
  <1>5. more \in Seq(Mail) /\ ToSet(more) = ToSet(c.inbound) \cup {m}
    <2> HIDE DEF c, m
    <2>1. c.inbound \in Seq(Mail) /\ m \in Mail
      BY <1>2, <1>4
    <2>2. Append(c.inbound, m) \in Seq(Mail) /\ ToSet(Append(c.inbound, m)) = ToSet(c.inbound) \cup {m}
      BY <2>1, Appended
    <2> QED
      BY <2>2
  <1>6. d \in CCs /\ d.map = c.map /\ d.conn = c.conn /\ Held(d) \subseteq Held(c)
    <2>1. rest \in Seq(Mail) /\ more \in Seq(Mail)
      BY <1>4, <1>5
    <2> HIDE DEF c, rest, more
    <2>2. /\ d \in CCs /\ d.map = c.map /\ d.conn = c.conn
          /\ d.asked = rest /\ d.inbound = more
      BY <1>2, <2>1 DEF CCs
    <2> HIDE DEF d, m
    <2> QED
      BY <1>4, <1>5, <2>2 DEF Held
  <1> HIDE DEF d
  <1>7. /\ d.map = cc[o].map /\ (d.conn = "nil" => cc[o].conn = "nil")
        /\ \A n \in Held(d) : n.by \in Callers => n \in Held(cc[o])
    BY <1>6
  <1> QED
    BY <1>1, <1>3, <1>6, <1>7, OnOneCC

LEMMA DeviceEventKeeps ==
  ASSUME ChromecastAssumption, IInv, DeviceEvent
  PROVE  IInv'
  <1>1. ~Crashed /\ UNCHANGED <<devices, frame, unmoved>> /\ Types
    BY DEF DeviceEvent, IInv
  <1>2. CASE address' \in Addresses \ {address} /\ UNCHANGED cc
    <2>1. Types'
      BY <1>1, <1>2 DEF Types
    <2> QED
      BY <1>1, <1>2, <2>1, QuietStep
  <1>3. ASSUME NEW o \in Objects, UNCHANGED address,
               \/ cc' = [cc EXCEPT ![o].inbound = Append(@, [id |-> Old, by |-> "device"])]
               \/ cc' = [cc EXCEPT ![o].conn = "lost", ![o].asked = <<>>]
        PROVE  IInv'
    <2> DEFINE c == cc[o]
    <2>1. c \in CCs /\ c.inbound \in Seq(Mail)
      BY <1>1 DEF Types, CCs
    <2>2. CASE cc' = [cc EXCEPT ![o].inbound = Append(@, [id |-> Old, by |-> "device"])]
      <3> DEFINE m == [id |-> Old, by |-> "device"]
                 more == Append(c.inbound, m)
                 d == [c EXCEPT !.inbound = more]
      <3>1. m \in Mail /\ m.by = "device" /\ "device" \notin Callers
        BY DEF Mail, Old, ChromecastAssumption, Callers, Check, Hub
      <3> HIDE DEF m
      <3>2. more \in Seq(Mail) /\ ToSet(more) = ToSet(c.inbound) \cup {m}
        <4> HIDE DEF c
        <4>1. c.inbound \in Seq(Mail) /\ m \in Mail
          BY <2>1, <3>1
        <4>2. Append(c.inbound, m) \in Seq(Mail) /\ ToSet(Append(c.inbound, m)) = ToSet(c.inbound) \cup {m}
          BY <4>1, Appended
        <4> QED
          BY <4>2
      <3>3. cc' = [cc EXCEPT ![o] = d]
        BY <2>2 DEF m
      <3>4. d \in CCs /\ d.map = c.map /\ d.conn = c.conn /\ d.asked = c.asked /\ d.inbound = more
        <4> HIDE DEF c, more
        <4> QED
          BY <2>1, <3>2 DEF CCs
      <3> HIDE DEF d, more
      <3>5. /\ d.map = cc[o].map /\ (d.conn = "nil" => cc[o].conn = "nil")
            /\ \A n \in Held(d) : n.by \in Callers => n \in Held(cc[o])
        BY <3>1, <3>2, <3>4 DEF Held
      <3> QED
        BY <1>1, <1>3, <3>3, <3>4, <3>5, OnOneCC
    <2>3. CASE cc' = [cc EXCEPT ![o].conn = "lost", ![o].asked = <<>>]
      <3> DEFINE d == [c EXCEPT !.conn = "lost", !.asked = <<>>]
      <3>1. cc' = [cc EXCEPT ![o] = d]
        BY <1>1, <2>3 DEF Types
      <3>2. d \in CCs /\ d.map = c.map /\ d.conn = "lost" /\ d.asked = <<>> /\ d.inbound = c.inbound
        <4>1. <<>> \in Seq(Mail)
          OBVIOUS
        <4> HIDE DEF c
        <4> QED
          BY <2>1, <4>1 DEF CCs
      <3> HIDE DEF d
      <3>3. ToSet(<<>>) = {}
        BY DEF ToSet
      <3>4. /\ d.map = cc[o].map /\ (d.conn = "nil" => cc[o].conn = "nil")
            /\ \A n \in Held(d) : n.by \in Callers => n \in Held(cc[o])
        BY <3>2, <3>3 DEF Held
      <3> QED
        BY <1>1, <1>3, <3>1, <3>2, <3>4, OnOneCC
    <2> QED
      BY <1>3, <2>2, <2>3
  <1> QED
    BY <1>2, <1>3 DEF DeviceEvent

LEMMA FaultKeeps ==
  ASSUME ChromecastAssumption, IInv, Fault
  PROVE  IInv'
  <1>1. Dead("fault") /\ UNCHANGED <<devices, cc, address, unmoved>>
    BY DEF Fault
  <1> QED
    BY <1>1, DeadKept

-----------------------------------------------------------------------------
(* The theorems. *)

LEMMA InitIInv ==
  ASSUME ChromecastAssumption, Init
  PROVE  IInv
  <1> USE TwoCallers
  <1>1. /\ devices = Nil /\ cc = [o \in Objects |-> NewObject]
        /\ frame = [p \in Callers |-> IdleFrame] /\ address \in Addresses /\ unmoved = FALSE
    BY DEF Init
  <1>2. NewObject \in CCs /\ Held(NewObject) = {}
    <2>1. (CHOOSE a \in Addresses : TRUE) \in Addresses
      BY <1>1
    <2>2. <<>> \in Seq(Mail) /\ ToSet(<<>>) = {}
      BY DEF ToSet
    <2> QED
      BY <2>1, <2>2 DEF NewObject, CCs, Held
  <1>3. /\ IdleFrame \in Frames /\ IdleFrame.at = "idle" /\ IdleFrame.obj = Nil
        /\ ~IdleFrame.arrived
    BY IdleFrameType DEF IdleFrame
  <1>4. Types
    BY <1>1, <1>2, <1>3 DEF Types
  <1> HIDE DEF IdleFrame, NewObject
  <1>5. HubShape /\ CheckShape /\ Waits /\ Connected /\ Awaited
    BY <1>1, <1>2, <1>3
       DEF HubShape, CheckShape, Waits, Connected, Awaited, Crashed, Sending, Calls
  <1>6. \A p \in Callers : Alone(p)
    BY <1>1, <1>3 DEF Alone, Calls
  <1> QED
    BY <1>4, <1>5, <1>6 DEF IInv

LEMMA NextIInv ==
  ASSUME ChromecastAssumption, IInv, [Next]_vars
  PROVE  IInv'
  <1>1. CASE \E p \in Callers : Call(p)
    BY <1>1, LoadKeeps, StoreKeeps, SetRequestIdKeeps, LengthKeeps, DataKeeps, GotKeeps,
       TimeoutKeeps DEF Call
  <1>2. CASE Connecting
    BY <1>2, FindEntriesKeeps, DropKeeps, EntriesKeeps, DialKeeps, ListKeeps DEF Connecting
  <1>3. CASE Press \/ Lookup
    BY <1>3, PressKeeps, LookupKeeps
  <1>4. CASE \E o \in Objects : ReceiveLoop(o)
    BY <1>4, ReceiveKeeps, LoopKeeps DEF ReceiveLoop
  <1>5. CASE \E o \in Objects : Answer(o)
    BY <1>5, AnswerKeeps
  <1>6. CASE DeviceEvent \/ Fault
    BY <1>6, DeviceEventKeeps, FaultKeeps
  <1>7. CASE UNCHANGED vars
    BY <1>7 DEF vars, IInv, Types, HubShape, CheckShape, Waits, Connected, Awaited, Alone,
                Crashed, Held
  <1> QED
    BY <1>1, <1>2, <1>3, <1>4, <1>5, <1>6, <1>7 DEF Next

\* The invariant the theorems below rest on holds whatever the goroutines, the
\* device and the network do.
THEOREM ChromecastInvariant == Spec => []IInv
  <1>1. Init => IInv
    BY ChromecastAssumption, InitIInv
  <1>2. IInv /\ [Next]_vars => IInv'
    BY ChromecastAssumption, NextIInv
  <1> QED
    BY <1>1, <1>2, PTL DEF Spec

\* The process dies of a write to a nil connection only after a listed device
\* could not be dialled at another address: Connect, connectDevices and the
\* list never leave a goroutine with a nil connection otherwise.
THEOREM NilAfterMove == Spec => []NilOnlyAfterMove
  <1>1. IInv => NilOnlyAfterMove
    BY DEF IInv, Connected, NilOnlyAfterMove
  <1> QED
    BY <1>1, ChromecastInvariant, PTL

\* A call whose answer the receive loop has read, and that no other goroutine
\* has overlapped, ends with that answer and not by its timeout.
THEOREM AnswerIsKept == Spec => LostAnswerNeedsOverlap
  <1> DEFINE Lost(p) == (frame[p].at = "wait" /\ ~frame[p].full /\ frame[p].arrived
                           /\ frame'[p].at # "wait")
                          => frame[p].overlapped \/ Crashed'
  <1>1. ASSUME IInv, NEW p \in Callers, frame[p].at = "wait", ~frame[p].full, frame[p].arrived
        PROVE  frame[p].overlapped
    BY <1>1 DEF IInv, Alone, Calls
  <1>2. IInv => \A p \in Callers : Lost(p)
    BY <1>1
  <1> QED
    BY <1>2, ChromecastInvariant, PTL DEF LostAnswerNeedsOverlap
=============================================================================
