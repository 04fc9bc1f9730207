----------------------------- MODULE Chromecast -----------------------------
(***************************************************************************)
(* The connection to a Chromecast (chromecast/chromecast.go) and the       *)
(* goroutine that keeps it (chromecasts.go).                               *)
(*                                                                         *)
(* Three goroutines use a connection: ccs.Start checks every minute that   *)
(* the device answers and connects it again; the hub's changes the volume  *)
(* when a button is pressed; the connection's own receive loop hands each  *)
(* answer to the call that waits for its request number, and answers the   *)
(* device's pings.  They share, without a lock, the number of the last     *)
(* request, the GET_STATUS header that carries the number, the map from    *)
(* numbers to waiting calls, and the socket, to which a message is written *)
(* in two parts.                                                           *)
(*                                                                         *)
(* One device is modelled; of several, each has its own cc, and only the   *)
(* request numbers and headers are common.  A cc (an object o) is made by  *)
(* New and forgotten when it is dropped from the list.                     *)
(***************************************************************************)
EXTENDS Integers, Sequences, FiniteSets, SequencesExt

CONSTANTS
  Objects,       \* ccs that can exist at a time
  Nil,           \* nil, where an object or an address may be
  Addresses,     \* the device's addresses (IPv4 and IPv6, say)
  MaxAge,        \* bound: requests after which a number is forgotten
  MaxLag,        \* bound: requests numbered while another adds 1 to requestID
  MaxPresses,    \* bound: volume presses
  MaxEvents      \* bound: what the device and the network do amiss, and pings

ASSUME ChromecastAssumption ==
  /\ Nil \notin Objects \cup Addresses
  /\ \E x, y \in Objects : x # y      \* New always has memory for one more
  /\ MaxLag \in Nat \ {0} /\ MaxAge \in Nat /\ MaxLag < MaxAge
  /\ MaxPresses \in Nat /\ MaxEvents \in Nat

VARIABLES
  devices,       \* c.devices: the listed cc, Nil when there is none
  cc,            \* the objects
  frame,         \* where each caller is, with its locals
  address,       \* the address the device announces
  unmoved,       \* a connection to a changed address has failed
  presses, events

vars == <<devices, cc, frame, address, unmoved, presses, events>>

Check == "check"           \* ccs.Start
Hub == "hub"               \* Sound.Receive
Callers == {Check, Hub}
Loop == "loop"             \* the receive loop as a writer

\* Request numbers are counted back from requestID, the latest: 0 is its own,
\* 1 the one before.  A number that is Old leads nowhere
Old == MaxAge
Ids == 1 - MaxLag .. Old

\* the number n after requestID has grown by s
Later(n, s) == IF n = Old \/ n + s > Old THEN Old ELSE n + s

\* conn: nil, open, closed by us, or lost: the device has given it up.
\* map: a number leads to the channel of the caller that waits, or to that of
\* a call that is over, which has room for one more answer or is full.
\* half: who has written the length of a message and not yet the message.
\* asked: requests the device has not answered; inbound: what it has sent
NewObject == [conn |-> "nil", addr |-> CHOOSE a \in Addresses : TRUE,
              loop |-> "ended", map |-> [i \in Ids |-> "none"],
              half |-> "nobody", asked |-> <<>>, inbound |-> <<>>]

\* at: the next step; obj: the cc used; kind: the message; id: its number;
\* full: the result channel holds an answer; found: the address DNS gave.
\* arrived: the receive loop has read the answer to the call; overlapped:
\* another goroutine made a call or sent during it
IdleFrame == [at |-> "idle", obj |-> Nil, kind |-> "status", id |-> 0,
              full |-> FALSE, found |-> Nil, arrived |-> FALSE, overlapped |-> FALSE]

\* the process has died, every goroutine with it: of a write to a nil
\* connection, or of two accesses at once to what they share
Dead(why) == frame' = [p \in Callers |-> [IdleFrame EXCEPT !.at = why]]
Crashed == frame[Check].at \in {"nil", "fault"}

Goto(p, l) == frame' = [frame EXCEPT ![p].at = l]

\* p's next thing is at l, on o
Turn(p, l, o, found, kind) ==
  frame' = [frame EXCEPT ![p] = [IdleFrame EXCEPT !.at = l, !.obj = o, !.kind = kind,
                                                  !.found = found]]

\* p begins to send a message of a kind through o
Begin(p, o, kind) == Turn(p, "load", o, frame[p].found, kind)

\* a caller that is in a call or is sending
Busy(p) == frame[p].at \in {"store", "header", "length", "data", "wait"}

\* requests and answers on their way
OnTheWay(o) == ToSet(cc[o].asked) \cup ToSet(cc[o].inbound)

-----------------------------------------------------------------------------
(* Sending: getNextRequestId, sendAndWait, send and Send. *)

\* requestID += 1 reads it ...
Load(p) ==
  /\ frame[p].at = "load"
  /\ frame' = [q \in Callers |->
       IF q = p THEN [frame[p] EXCEPT !.at = "store",
                                      !.overlapped = \E r \in Callers \ {p} : Busy(r)]
       ELSE [frame[q] EXCEPT !.overlapped = @ \/ Busy(q)]]
  /\ UNCHANGED <<devices, cc, address, unmoved, presses, events>>

\* a message, and everything that holds a number, once requestID has grown by s
Aged(m, s) == [m EXCEPT !.id = Later(@, s)]

Grown(s) ==
  [o \in Objects |-> [cc[o] EXCEPT
    !.map = [i \in Ids |-> IF i # Old /\ i - s \in Ids \ {Old} THEN @[i - s] ELSE "none"],
    !.asked = [j \in DOMAIN @ |-> Aged(@[j], s)],
    !.inbound = [j \in DOMAIN @ |-> Aged(@[j], s)]]]

GrownFrames(s) ==
  [q \in Callers |-> IF Busy(q) THEN [frame[q] EXCEPT !.id = Later(@, s)] ELSE frame[q]]

\* mutant of Store: the call enters under the number before its own
StoreBefore(p) ==
  LET f == frame[p]
      s == 1 - f.id
      call == f.kind = "status"
  IN  /\ f.at = "store"
      /\ \A q \in Callers \ {p} : frame[q].at = "store" => frame[q].id + s <= MaxLag
      /\ cc' = IF call THEN [Grown(s) EXCEPT ![f.obj].map[1] = p] ELSE Grown(s)
      /\ frame' = [GrownFrames(s) EXCEPT
           ![p].id = 0, ![p].at = IF call THEN "header" ELSE "length"]
      /\ UNCHANGED <<devices, address, unmoved, presses, events>>

\* ... and writes the number after the one it read.  A call enters its channel
\* under it
Store(p) ==
  LET f == frame[p]
      s == 1 - f.id
      call == f.kind = "status"
  IN  /\ f.at = "store"
      /\ \A q \in Callers \ {p} : frame[q].at = "store" => frame[q].id + s <= MaxLag
      /\ cc' = IF call THEN [Grown(s) EXCEPT ![f.obj].map[0] = p] ELSE Grown(s)
      /\ frame' = [GrownFrames(s) EXCEPT
           ![p].id = 0, ![p].at = IF call THEN "header" ELSE "length"]
      /\ UNCHANGED <<devices, address, unmoved, presses, events>>

\* SetRequestId on the one GetStatusHeader there is: who has set it before and
\* not yet marshalled it sends this number too
SetRequestId(p) ==
  /\ frame[p].at = "header"
  /\ frame' = [q \in Callers |->
       IF q = p THEN [frame[q] EXCEPT !.at = "length"]
       ELSE IF frame[q].at = "length" /\ frame[q].kind = "status"
         THEN [frame[q] EXCEPT !.id = frame[p].id] ELSE frame[q]]
  /\ UNCHANGED <<devices, cc, address, unmoved, presses, events>>

-----------------------------------------------------------------------------
(* The end of a call or of a sending. *)

\* what becomes of a message when p's call is over
Nobodys(m, p) == IF m.by = p THEN [m EXCEPT !.by = "over"] ELSE m

\* the deferred delete takes the number of the latest request of all, 0.  What
\* else leads to p's channel leads to one nobody reads; an answer to p that
\* is still to come is nobody's
EndCall(p, objs) ==
  cc' = [o \in Objects |-> [objs[o] EXCEPT
    !.map = [i \in Ids |-> IF o = frame[p].obj /\ i = 0 THEN "none"
                           ELSE IF @[i] = p THEN "room" ELSE @[i]],
    !.asked = [j \in DOMAIN @ |-> Nobodys(@[j], p)],
    !.inbound = [j \in DOMAIN @ |-> Nobodys(@[j], p)]]]

Finish(p) == frame' = [frame EXCEPT ![p] = IdleFrame]

ToEntries(found) == Turn(Check, "entries", Nil, found, "status")

\* mutant of Returned: a device that fails its check stays connected and listed
ReturnedKeeps(p, ok) ==
  IF p = Hub THEN \/ ok /\ Begin(p, frame[p].obj, "volume")
                  \/ Finish(p)
  ELSE ToEntries(frame[p].found)

\* GetReceiverStatus returns: the hub sets the volume, unless the level would
\* leave 0 .. 1; the check leaves the device listed or disconnects it
Returned(p, ok) ==
  LET o == frame[p].obj IN
  IF p = Hub THEN \/ ok /\ Begin(p, o, "volume")
                  \/ Finish(p)
  ELSE IF ok THEN ToEntries(frame[p].found) ELSE Begin(p, o, "close")

\* a message is out, or could not be written; objs are the ccs by then
Sent(p, ok, objs) ==
  LET f == frame[p]
      closed == [objs EXCEPT ![f.obj] = [@ EXCEPT !.conn = "closed", !.loop = "ended",
                                           !.asked = <<>>, !.inbound = <<>>]]
  IN  CASE f.kind = "status" ->
             IF ok THEN /\ cc' = objs
                        /\ frame' = [frame EXCEPT ![p].at = "wait", ![p].id = Old]
                   ELSE EndCall(p, objs) /\ Returned(p, FALSE)
        [] f.kind = "volume" -> cc' = objs /\ Finish(p)
        [] f.kind = "close" ->       \* Disconnect, of a device that fails
             cc' = closed /\ Goto(p, "drop")
        [] f.kind = "moving" ->      \* Disconnect, and SetDNSEntry
             cc' = [closed EXCEPT ![f.obj].addr = f.found] /\ Goto(p, "dial")
        [] f.kind = "connect" ->     \* a new device is listed once connected
             /\ cc' = objs
             /\ IF ok /\ devices # f.obj THEN Goto(p, "list") ELSE Finish(p)

\* a write may fail on a connection that is lost, and does on a closed one
Write(p, objs, next) ==
  LET o == frame[p].obj IN
  /\ \/ cc[o].conn = "nil" /\ Dead("nil") /\ UNCHANGED cc
     \/ cc[o].conn \in {"closed", "lost"} /\ Sent(p, FALSE, cc)
     \/ cc[o].conn \in {"open", "lost"} /\ next
  /\ UNCHANGED <<devices, address, unmoved, presses, events>>

\* what the device makes of writer w's length and of its message: it gives up
\* a connection on which two writers mix theirs
AfterLength(o, w) ==
  IF o.conn = "lost" THEN o
  ELSE IF o.half = "nobody" THEN [o EXCEPT !.half = w]
  ELSE [o EXCEPT !.conn = "lost"]

AfterData(o, w, asks) ==
  IF o.conn = "lost" THEN o
  ELSE IF o.half = w THEN [o EXCEPT !.half = "nobody", !.asked = @ \o asks]
  ELSE [o EXCEPT !.conn = "lost"]

\* the payload is marshalled and its length written ...
Length(p) ==
  LET o == frame[p].obj IN
  /\ frame[p].at = "length"
  /\ Write(p, cc,
       cc' = [cc EXCEPT ![o] = AfterLength(@, p)] /\ Goto(p, "data"))

\* ... and the message
Data(p) ==
  LET o == frame[p].obj
      asks == IF frame[p].kind = "status" THEN <<[id |-> frame[p].id, by |-> p]>>
                                          ELSE <<>>
  IN  /\ frame[p].at = "data"
      /\ Write(p, cc, Sent(p, TRUE, [cc EXCEPT ![o] = AfterData(@, p, asks)]))

-----------------------------------------------------------------------------
(* Waiting, and the receive loop. *)

\* the loop waits for room in a channel nobody reads
Stuck(o) ==
  o.inbound # <<>> /\ Head(o.inbound).by # "device" /\ o.map[Head(o.inbound).id] = "full"

\* an answer that leads to p's channel is on its way on a good connection
Coming(p) ==
  LET o == cc[frame[p].obj] IN
  /\ o.conn = "open" /\ o.loop # "ended" /\ ~Stuck(o)
  /\ \E m \in OnTheWay(frame[p].obj) : m.by # "device" /\ o.map[m.id] = p

Got(p) ==
  /\ frame[p].at = "wait" /\ frame[p].full
  /\ EndCall(p, cc) /\ Returned(p, TRUE)
  /\ UNCHANGED <<devices, address, unmoved, presses, events>>

\* five seconds without an answer: none is coming, or it is late
Timeout(p) ==
  /\ frame[p].at = "wait" /\ ~frame[p].full
  /\ IF Coming(p) THEN events < MaxEvents /\ events' = events + 1
                  ELSE UNCHANGED events
  /\ EndCall(p, cc) /\ Returned(p, FALSE)
  /\ UNCHANGED <<devices, address, unmoved, presses>>

\* the loop hands a message to the channel its number leads to, or waits
\* while that is full.  A ping it answers
Receive(o) ==
  LET c == cc[o]
      m == Head(c.inbound)
      to == c.map[m.id]
      read == [cc EXCEPT ![o].inbound = Tail(@)]
  IN  /\ ~Crashed /\ c.loop = "reading" /\ c.inbound # <<>>
      /\ IF m.by = "device"
           THEN cc' = [read EXCEPT ![o].loop = "pong"] /\ UNCHANGED frame
           ELSE /\ ~Stuck(c) /\ (to \in Callers => ~frame[to].full)
                /\ frame' = [p \in Callers |-> [frame[p] EXCEPT
                     !.full = @ \/ p = to, !.arrived = @ \/ p = m.by]]
                /\ cc' = IF to = "room" THEN [read EXCEPT ![o].map[m.id] = "full"]
                                        ELSE read
      /\ UNCHANGED <<devices, address, unmoved, presses, events>>

\* a read fails: the loop ends
ReceiveEnds(o) ==
  /\ ~Crashed /\ cc[o].loop = "reading" /\ cc[o].inbound = <<>>
  /\ cc[o].conn = "lost"
  /\ cc' = [cc EXCEPT ![o].loop = "ended"]
  /\ UNCHANGED <<devices, frame, address, unmoved, presses, events>>

\* handleMessage, PING: Send writes the PONG's length ...
PongLength(o) ==
  /\ ~Crashed /\ cc[o].loop = "pong"
  /\ \/ cc' = [cc EXCEPT ![o] = [AfterLength(@, Loop) EXCEPT !.loop = "pongdata"]]
     \/ cc[o].conn = "lost" /\ cc' = [cc EXCEPT ![o].loop = "reading"]
  /\ UNCHANGED <<devices, frame, address, unmoved, presses, events>>

\* ... and the PONG
PongData(o) ==
  /\ ~Crashed /\ cc[o].loop = "pongdata"
  /\ cc' = [cc EXCEPT ![o] = [AfterData(@, Loop, <<>>) EXCEPT !.loop = "reading"]]
  /\ UNCHANGED <<devices, frame, address, unmoved, presses, events>>

-----------------------------------------------------------------------------
(* The device. *)

Answer(o) ==
  /\ ~Crashed /\ cc[o].conn = "open" /\ cc[o].asked # <<>>
  /\ cc' = [cc EXCEPT ![o].asked = Tail(@), ![o].inbound = Append(@, Head(cc[o].asked))]
  /\ UNCHANGED <<devices, frame, address, unmoved, presses, events>>

\* it pings, gives a connection up, or announces another address
DeviceEvent ==
  /\ ~Crashed /\ events < MaxEvents /\ events' = events + 1
  /\ \/ \E o \in Objects :
          /\ cc[o].conn = "open"
          /\ \/ cc' = [cc EXCEPT ![o].inbound = Append(@, [id |-> Old, by |-> "device"])]
             \/ cc' = [cc EXCEPT ![o].conn = "lost", ![o].asked = <<>>]
          /\ UNCHANGED address
     \/ address' \in Addresses \ {address} /\ UNCHANGED cc
  /\ UNCHANGED <<devices, frame, unmoved, presses>>

-----------------------------------------------------------------------------
(* The hub's goroutine. *)

\* a volume button of the sound bar's zone
Press ==
  /\ frame[Hub].at = "idle" /\ presses < MaxPresses
  /\ presses' = presses + 1
  /\ Goto(Hub, "lookup")
  /\ UNCHANGED <<devices, cc, address, unmoved, events>>

\* ChromecastByDeviceName, and IncVolume on what it finds
Lookup ==
  /\ frame[Hub].at = "lookup"
  /\ IF devices = Nil THEN Finish(Hub) ELSE Begin(Hub, devices, "status")
  /\ UNCHANGED <<devices, cc, address, unmoved, presses, events>>

-----------------------------------------------------------------------------
(* ccs.Start: connectDevices, every minute. *)

\* findCastDNSEntries fails and nothing is checked; it misses the device, or
\* finds it.  Then a listed device is asked for its status
FindEntries ==
  /\ frame[Check].at = "idle"
  /\ \E found \in {address, Nil} :
       /\ IF found = Nil THEN events < MaxEvents /\ events' = events + 1
                        ELSE UNCHANGED events
       /\ IF devices = Nil THEN ToEntries(found)
                          ELSE Turn(Check, "load", devices, found, "status")
  /\ UNCHANGED <<devices, cc, address, unmoved, presses>>

\* c.devices without the device that failed
Drop ==
  /\ frame[Check].at = "drop"
  /\ devices' = Nil
  /\ cc' = IF frame[Hub].obj = devices THEN cc ELSE [cc EXCEPT ![devices] = NewObject]
  /\ ToEntries(frame[Check].found)
  /\ UNCHANGED <<address, unmoved, presses, events>>

\* ccs nobody uses
Unused(o) == devices # o /\ \A p \in Callers : frame[p].obj # o

\* a listed device with the same address is left alone, with another one
\* disconnected; an unlisted one is made by New
Entries ==
  LET found == frame[Check].found IN
  /\ frame[Check].at = "entries"
  /\ IF found = Nil THEN Finish(Check) /\ UNCHANGED cc
     ELSE IF devices = Nil THEN
       LET o == CHOOSE x \in Objects : Unused(x) IN
       /\ cc' = [cc EXCEPT ![o] = [NewObject EXCEPT !.addr = found]]
       /\ Turn(Check, "dial", o, found, "connect")
     ELSE /\ IF cc[devices].addr = found THEN Finish(Check)
                                        ELSE Begin(Check, devices, "moving")
          /\ UNCHANGED cc
  /\ UNCHANGED <<devices, address, unmoved, presses, events>>

\* mutant of Dial: a new device is listed before it is connected
DialLists ==
  LET o == frame[Check].obj
      there == cc[o].addr = address
  IN
  /\ frame[Check].at = "dial"
  /\ devices' = o
  /\ \/ /\ there
        /\ cc' = [cc EXCEPT ![o] = [NewObject EXCEPT !.addr = cc[o].addr,
                                      !.conn = "open", !.loop = "reading",
                                      !.map = cc[o].map]]
        /\ Begin(Check, o, "connect")
        /\ UNCHANGED <<unmoved, events>>
     \/ /\ IF there THEN events < MaxEvents /\ events' = events + 1
                              ELSE UNCHANGED events
        /\ cc' = [cc EXCEPT ![o].conn = "nil"]
        /\ unmoved' = (unmoved \/ devices = o)
        /\ Finish(Check)
  /\ UNCHANGED <<address, presses>>

\* Connect: the connection and its receive loop; CONNECT is sent next.  When
\* the dial fails the connection is nil, and a device of the list stays there
Dial ==
  LET o == frame[Check].obj
      there == cc[o].addr = address
  IN
  /\ frame[Check].at = "dial"
  /\ \/ /\ there
        /\ cc' = [cc EXCEPT ![o] = [NewObject EXCEPT !.addr = cc[o].addr,
                                      !.conn = "open", !.loop = "reading",
                                      !.map = cc[o].map]]
        /\ Begin(Check, o, "connect")
        /\ UNCHANGED <<unmoved, events>>
     \/ /\ IF there THEN events < MaxEvents /\ events' = events + 1
                              ELSE UNCHANGED events
        /\ cc' = [cc EXCEPT ![o].conn = "nil"]
        /\ unmoved' = (unmoved \/ devices = o)
        /\ Finish(Check)
  /\ UNCHANGED <<devices, address, presses>>

\* c.devices with the new device
List ==
  /\ frame[Check].at = "list"
  /\ devices' = frame[Check].obj
  /\ Finish(Check)
  /\ UNCHANGED <<cc, address, unmoved, presses, events>>

-----------------------------------------------------------------------------
(* The data races Go does not let pass: a map written by one goroutine      *)
(* while another accesses it ends the process, and so does a slice read     *)
(* half old, half new.                                                      *)
AtMap(o) ==
  {p \in Callers : /\ frame[p].obj = o
                   /\ \/ frame[p].at = "store" /\ frame[p].kind = "status"
                      \/ frame[p].at = "wait" /\ (frame[p].full \/ ~Coming(p))}
    \cup (IF cc[o].loop = "reading" /\ cc[o].inbound # <<>> THEN {Loop} ELSE {})

Fault ==
  /\ \/ \E o \in Objects : Cardinality(AtMap(o)) > 1
     \/ frame[Hub].at = "lookup" /\ frame[Check].at \in {"drop", "list"}
  /\ Dead("fault")
  /\ UNCHANGED <<devices, cc, address, unmoved, presses, events>>

-----------------------------------------------------------------------------
Init ==
  /\ devices = Nil
  /\ cc = [o \in Objects |-> NewObject]
  /\ frame = [p \in Callers |-> IdleFrame]
  /\ address \in Addresses
  /\ unmoved = FALSE
  /\ presses = 0 /\ events = 0

\* a step of a call or of a sending
Call(p) ==
  \/ Load(p)
  \/ Store(p)
  \/ SetRequestId(p)
  \/ Length(p)
  \/ Data(p)
  \/ Got(p)
  \/ Timeout(p)

Connecting ==
  \/ FindEntries
  \/ Drop
  \/ Entries
  \/ Dial
  \/ List

ReceiveLoop(o) ==
  \/ Receive(o)
  \/ ReceiveEnds(o)
  \/ PongLength(o)
  \/ PongData(o)

Next ==
  \/ \E p \in Callers : Call(p)
  \/ Connecting
  \/ Press
  \/ Lookup
  \/ \E o \in Objects : ReceiveLoop(o)
  \/ \E o \in Objects : Answer(o)
  \/ DeviceEvent
  \/ Fault

Spec == Init /\ [][Next]_vars

\* goroutines go on, the ticker ticks, and the device answers on a connection
\* it has not given up
FairSpec ==
  /\ Spec
  /\ \A p \in Callers : WF_vars(Call(p))
  /\ WF_vars(Connecting)
  /\ WF_vars(Lookup)
  /\ \A o \in Objects : WF_vars(ReceiveLoop(o)) /\ WF_vars(Answer(o))

-----------------------------------------------------------------------------
Messages == [id : Ids, by : Callers \cup {"over", "device"}]

TypeOK ==
  /\ devices \in Objects \cup {Nil}
  /\ \A o \in Objects :
       /\ cc[o].conn \in {"nil", "open", "closed", "lost"}
       /\ cc[o].addr \in Addresses
       /\ cc[o].loop \in {"ended", "reading", "pong", "pongdata"}
       /\ cc[o].map \in [Ids -> {"none", "room", "full"} \cup Callers]
       /\ cc[o].half \in {"nobody", Loop} \cup Callers
       /\ cc[o].asked \in Seq(Messages) /\ cc[o].inbound \in Seq(Messages)
  /\ \A p \in Callers :
       /\ frame[p].obj \in Objects \cup {Nil} /\ frame[p].id \in Ids
       /\ frame[p].kind \in {"status", "volume", "close", "moving", "connect"}
       /\ frame[p].found \in Addresses \cup {Nil}
       /\ {frame[p].full, frame[p].arrived, frame[p].overlapped} \subseteq BOOLEAN
  /\ address \in Addresses
  /\ unmoved \in BOOLEAN
  /\ presses \in 0 .. MaxPresses /\ events \in 0 .. MaxEvents

\* A nil connection is written to, which ends the process, only after a
\* listed device announced another address and could not be dialled there:
\* Connect sets conn to nil and connectDevices keeps the device listed.
NilOnlyAfterMove == frame[Check].at = "nil" => unmoved

\* A call whose answer the receive loop has read does not time out, unless
\* another goroutine used the request number, the header, the map or the
\* socket during the call.
LostAnswerNeedsOverlap ==
  [][\A p \in Callers :
       (frame[p].at = "wait" /\ ~frame[p].full /\ frame[p].arrived
          /\ frame'[p].at # "wait")
         => frame[p].overlapped \/ Crashed']_vars

\* Whatever the device, the network and the button did to a connection, the
\* minute's check brings a listed one back that reads what the device sends,
\* unless the process has died.
Reconnected ==
  []<>(Crashed \/ \E o \in Objects : /\ devices = o /\ cc[o].conn = "open"
                                     /\ cc[o].loop # "ended" /\ ~Stuck(cc[o]))
=============================================================================
