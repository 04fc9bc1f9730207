------------------------- MODULE SoundButtonsProofs -------------------------
(***************************************************************************)
(* For any number of zones, streams, presses and failures: the index of    *)
(* ClientChangeStream leaves the list of the playing streams only when the *)
(* list is empty; muting changes a volume, and a volume step a mute flag,  *)
(* only when somebody else wrote the client in between; and a request from *)
(* the queue unmutes a zone only if somebody muted it after the press. And *)
(* whatever serves a press works off a number that the press has bounded:  *)
(* what its service does, but for whether it is scheduled.                 *)
(***************************************************************************)
EXTENDS SoundButtons, SequenceTheorems, FiniteSetTheorems, WellFoundedInduction, TLAPS

-----------------------------------------------------------------------------
(* The inductive invariant. *)

Places == {"idle", "poll", "wait", "online", "status", "volume", "group",
           "stream", "send", "dead"}

Volumes == 0 .. Top

Frames == [at : Places, job : RequestType, mute : BOOLEAN, volume : Volumes,
           group : Groups \cup {Nobody}, stream : StreamSet, tries : 1 .. RetryMax]

Servers == [muted : [Clients -> BOOLEAN], volume : [Clients -> Volumes],
            group : [Clients -> Groups], stream : [Groups -> StreamSet],
            playing : SUBSET StreamSet]

Types ==
  /\ server \in Servers
  /\ status \in [group : [Clients -> Groups \cup {Nobody}], playing : Seq(StreamSet)]
  /\ IsInjective(status.playing)
  /\ requests \in Seq(RequestType) /\ Len(requests) <= Capacity
  /\ frame \in [Callers -> Frames]
  /\ overlapped \in [Callers -> BOOLEAN]

\* A press leaves the inbox for an output at most: presses bounds both.
ButtonTypes ==
  /\ spotify \in BOOLEAN
  /\ registered \in 0 .. Len(Zones)
  /\ inbox \in Seq([zone : Clients, action : Actions])
  /\ outputs \in Nat /\ presses \in Nat
  /\ outputs + Len(inbox) <= presses /\ presses <= MaxPresses

\* A request that asks for the zone as its button found it: not muted, or
\* muted by somebody since.
Excused(r) == r.muted \/ ~server.muted[r.client]

\* Only the default stream is asked for without reading the mute flag.
Queueable(r) ==
  /\ r.kind \in {"volume", "change", "onoff", "default"}
  /\ r.kind # "default" => Excused(r)

\* The worker reads, and then writes, for a request whose zone is excused;
\* the buttons queue what is.
InShape(p, f) ==
  /\ p = Worker /\ f.at \in {"status", "volume"} =>
       f.job.kind \in {"volume", "change", "onoff"} /\ Excused(f.job)
  /\ p = "hub" /\ f.at = "status" =>
       f.job.kind \in {"none", "toggle", "volume", "change", "onoff", "default"}
  /\ p # Worker /\ f.at = "send" => Queueable(f.job)

\* What p is about to write back is what the server still has.
Fresh(p, f) ==
  f.at = "volume" =>
    IF p = Worker /\ f.job.kind = "volume"
      THEN f.mute = server.muted[f.job.client]
      ELSE f.volume = server.volume[f.job.client]

IInv ==
  /\ Types
  /\ ButtonTypes
  /\ \A i \in DOMAIN requests : Queueable(requests[i])
  /\ \A p \in Callers : InShape(p, frame[p])
  /\ \A p \in Callers : ~overlapped[p] => Fresh(p, frame[p])
  /\ DiesOnlyInSilence

-----------------------------------------------------------------------------
(* Lists of streams. *)

\* A non-empty set of numbers has a least one, so that the CHOOSE of the
\* index picks an index of the list (snapcast/snapcast.go:228).
LEMMA LeastExists ==
  ASSUME NEW S \in SUBSET Nat, S # {}
  PROVE  \E e \in S : \A f \in S : e <= f
  <1> DEFINE R == {p \in Nat \X Nat : p[1] < p[2]}
  <1>1. IsWellFoundedOn(R, Nat)
    <2>1. R = OpToRel(<, Nat)
      BY Zenon DEF OpToRel
    <2> QED
      BY <2>1, NatLessThanWellFounded, Zenon
  <1> HIDE DEF R
  <1>2. PICK e \in S : \A f \in S : ~ (<<f, e>> \in R)
    BY <1>1, WFMin
  <1>3. ASSUME NEW f \in S PROVE e <= f
    <2>1. ~ (f < e)
      BY <1>2 DEF R
    <2> QED
      BY <2>1
  <1> QED
    BY <1>3

\* In a list that is not empty the index is in range (snapcast/snapcast.go:228-249).
LEMMA NextIndexInList ==
  ASSUME NEW S, NEW list \in Seq(S), list # <<>>, NEW s, NEW up \in BOOLEAN
  PROVE  NextIndex(list, s, up) \in DOMAIN list
  <1>1. Len(list) \in Nat \ {0} /\ DOMAIN list = 1 .. Len(list)
    OBVIOUS
  <1> DEFINE I == {i \in 1 .. Len(list) : list[i] = s}
  <1> DEFINE least == IF I # {} THEN CHOOSE x \in I : \A y \in I : x <= y ELSE 0
  <1> DEFINE i == IF Contains(list, s) THEN least ELSE 1
  <1>2. i \in 1 .. Len(list)
    <2>1. CASE I # {}
      <3>1. I \in SUBSET Nat
        OBVIOUS
      <3>2. \E x \in I : \A y \in I : x <= y
        BY <2>1, <3>1, LeastExists
      <3>3. (CHOOSE x \in I : \A y \in I : x <= y) \in I
        BY <3>2
      <3> QED
        BY <1>1, <2>1, <3>3
    <2>2. CASE I = {}
      BY <1>1, <2>2 DEF Contains
    <2> QED
      BY <2>1, <2>2
  <1>3. NextIndex(list, s, up) = IF up THEN IF i + 1 > Len(list) THEN 1 ELSE i + 1
                                       ELSE IF i = 1 THEN Len(list) ELSE i - 1
    BY DEF NextIndex, SelectInSeq, Min
  <1> HIDE DEF i
  <1> QED
    BY <1>1, <1>2, <1>3

\* The polled list names streams of the server, each once.
LEMMA PlayingIsList ==
  ASSUME SnapcastAssumption, server \in Servers, NEW q \in Playing
  PROVE  q \in Seq(StreamSet) /\ IsInjective(q)
  <1>1. Len(Streams) \in Nat /\ DOMAIN Streams = 1 .. Len(Streams)
    BY SnapcastAssumption DEF SnapcastAssumption
  <1>2. IsFiniteSet(StreamSet)
    <2>1. IsFiniteSet(1 .. Len(Streams))
      BY <1>1, FS_Interval
    <2>2. Streams \in Surjection(1 .. Len(Streams), StreamSet)
      BY <1>1 DEF Surjection, StreamSet, ToSet
    <2> QED
      BY <2>1, <2>2, FS_Surjection
  <1>3. server.playing \in SUBSET StreamSet
    BY DEF Servers
  <1>4. Cardinality(server.playing) \in Nat
    BY <1>2, <1>3, FS_Subset, FS_CardinalityType
  <1>5. q \in SetToSeqs(server.playing)
    BY DEF Playing
  <1>6. PICK n \in Nat : n = Cardinality(server.playing)
    BY <1>4
  <1>7. /\ q \in [1 .. n -> server.playing]
        /\ \A i, j \in 1 .. n : i # j => q[i] # q[j]
    BY <1>5, <1>6 DEF SetToSeqs
  <1>8. q \in [1 .. n -> StreamSet]
    BY <1>3, <1>7
  <1> QED
    BY <1>7, <1>8 DEF IsInjective

-----------------------------------------------------------------------------
(* Requests and frames. *)

LEMMA SomeStream ==
  ASSUME SnapcastAssumption, ButtonsAssumption
  PROVE  Head(Streams) \in StreamSet
  <1>1. Streams \in Seq(StreamSet)
    BY SnapcastAssumption DEF SnapcastAssumption, StreamSet
  <1>2. Streams # <<>>
    BY <1>1, ButtonsAssumption DEF ButtonsAssumption, StreamSet, ToSet
  <1> QED
    BY <1>1, <1>2

LEMMA NoRequestType ==
  ASSUME SnapcastAssumption, ButtonsAssumption
  PROVE  NoRequest \in RequestType
  <1>1. (CHOOSE c \in Clients : TRUE) \in Clients
    BY ButtonsAssumption DEF ButtonsAssumption
  <1> QED
    BY <1>1, SomeStream DEF NoRequest, RequestType

\* What a request for c asks, whatever its details.
LEMMA RequestIs ==
  ASSUME SnapcastAssumption, ButtonsAssumption, NEW c \in Clients,
         NEW kind \in {"none", "volume", "change", "onoff", "default", "toggle",
                       "rest", "output"}
  PROVE  /\ Request(kind, c) \in RequestType
         /\ Request(kind, c).kind = kind /\ Request(kind, c).client = c
  <1>1. NoRequest \in RequestType
    BY NoRequestType
  <1> QED
    BY <1>1 DEF Request, RequestType

LEMMA DetailedIs ==
  ASSUME SnapcastAssumption, ButtonsAssumption, NEW c \in Clients
  PROVE  /\ \A step \in {-1, 1} : /\ IncVolumeReq(c, step) \in RequestType
                                  /\ IncVolumeReq(c, step).kind = "volume"
         /\ \A up \in BOOLEAN : /\ ChangeStreamReq(c, up) \in RequestType
                                /\ ChangeStreamReq(c, up).kind = "change"
         /\ \A s \in StreamSet : /\ SetDefaultChannelReq(c, s) \in RequestType
                                 /\ SetDefaultChannelReq(c, s).kind = "default"
  <1>1. Request("volume", c) \in RequestType /\ Request("volume", c).kind = "volume"
    BY RequestIs
  <1>2. Request("change", c) \in RequestType /\ Request("change", c).kind = "change"
    BY RequestIs
  <1>3. Request("default", c) \in RequestType /\ Request("default", c).kind = "default"
    BY RequestIs
  <1>4. ASSUME NEW step \in {-1, 1}
        PROVE  /\ IncVolumeReq(c, step) \in RequestType
               /\ IncVolumeReq(c, step).kind = "volume"
    BY <1>1 DEF IncVolumeReq, RequestType
  <1>5. ASSUME NEW up \in BOOLEAN
        PROVE  /\ ChangeStreamReq(c, up) \in RequestType
               /\ ChangeStreamReq(c, up).kind = "change"
    BY <1>2 DEF ChangeStreamReq, RequestType
  <1>6. ASSUME NEW s \in StreamSet
        PROVE  /\ SetDefaultChannelReq(c, s) \in RequestType
               /\ SetDefaultChannelReq(c, s).kind = "default"
    BY <1>3 DEF SetDefaultChannelReq, RequestType
  <1> QED
    BY <1>4, <1>5, <1>6

\* What a press asks of the hub's goroutine (sound/sound.go:58).
LEMMA AskedIs ==
  ASSUME SnapcastAssumption, ButtonsAssumption, NEW z \in Clients, NEW a \in Actions
  PROVE  /\ Asked(z, a) \in RequestType
         /\ Asked(z, a).kind \in {"none", "toggle", "volume", "change", "onoff", "default"}
  <1> DEFINE Good(r) == /\ r \in RequestType
                        /\ r.kind \in {"none", "toggle", "volume", "change", "onoff", "default"}
  <1>1. Good(Request("none", z)) /\ Good(Request("toggle", z)) /\ Good(Request("onoff", z))
    BY RequestIs
  <1>2. \A step \in {-1, 1} : Good(IncVolumeReq(z, step))
    BY DetailedIs
  <1>3. \A up \in BOOLEAN : Good(ChangeStreamReq(z, up))
    BY DetailedIs
  <1>4. \A s \in StreamSet : Good(SetDefaultChannelReq(z, s))
    BY DetailedIs
  <1>5. ZoneStream[z] \in StreamSet /\ LeftStream \in StreamSet /\ RightStream \in StreamSet
    BY ButtonsAssumption DEF ButtonsAssumption
  <1> HIDE DEF Good
  <1>6. Good(Asked(z, a))
    BY <1>1, <1>2, <1>3, <1>4, <1>5 DEF Asked, HoldRequest, StepRequest, MuteOnOffReq, Actions
  <1> QED
    BY <1>6 DEF Good

LEMMA IdleFrameType ==
  ASSUME SnapcastAssumption, ButtonsAssumption
  PROVE  IdleFrame \in Frames /\ IdleFrame.at = "idle"
  <1>1. NoRequest \in RequestType
    BY NoRequestType
  <1>2. 0 \in Volumes /\ 1 \in 1 .. RetryMax
    BY SnapcastAssumption DEF SnapcastAssumption, Volumes
  <1> HIDE DEF NoRequest
  <1> QED
    BY <1>1, <1>2, SomeStream DEF IdleFrame, Frames, Places

LEMMA DoneIs ==
  ASSUME SnapcastAssumption, ButtonsAssumption, NEW p \in Callers
  PROVE  Done(p) \in Frames /\ Done(p).at \in {"idle", "poll"}
  <1>1. IdleFrame \in Frames
    BY IdleFrameType
  <1> QED
    BY <1>1 DEF Done, Frames, Places

LEMMA AtIs ==
  ASSUME SnapcastAssumption, Types, NEW p \in Callers, NEW l \in Places
  PROVE  At(p, l) \in Frames /\ At(p, l).at = l /\ At(p, l).job = frame[p].job
  <1>1. frame[p] \in Frames
    BY DEF Types
  <1>2. 1 \in 1 .. RetryMax
    BY SnapcastAssumption DEF SnapcastAssumption
  <1> QED
    BY <1>1, <1>2 DEF At, Frames

LEMMA JobIs ==
  ASSUME SnapcastAssumption, NEW f \in Frames, NEW r \in RequestType
  PROVE  [f EXCEPT !.job = r] \in Frames /\ [f EXCEPT !.job = r].at = f.at
         /\ [f EXCEPT !.job = r].job = r
  BY DEF Frames

LEMMA ReadingIs ==
  ASSUME SnapcastAssumption, NEW f \in Frames, NEW r \in RequestType
  PROVE  /\ Reading(f, r) \in Frames
         /\ Reading(f, r).at = "status" /\ Reading(f, r).job = r
  <1>1. 1 \in 1 .. RetryMax
    BY SnapcastAssumption DEF SnapcastAssumption
  <1> QED
    BY <1>1 DEF Reading, Frames, Places

LEMMA WritingIs ==
  ASSUME SnapcastAssumption, Types, NEW p \in Callers, NEW mute \in BOOLEAN,
         NEW volume \in Volumes
  PROVE  LET f == Writing(p, mute, volume) IN
         /\ f \in Frames /\ f.at = "volume" /\ f.job = frame[p].job
         /\ f.mute = mute /\ f.volume = volume
  <1> DEFINE g == At(p, "volume")
  <1>1. g \in Frames /\ g.at = "volume" /\ g.job = frame[p].job
    BY AtIs DEF Places
  <1> HIDE DEF g
  <1>2. Writing(p, mute, volume) = [g EXCEPT !.mute = mute, !.volume = volume]
    BY DEF Writing, g
  <1> QED
    BY <1>1, <1>2 DEF Frames

LEMMA MutingIs ==
  ASSUME SnapcastAssumption, Types, NEW p \in Callers, NEW mute \in BOOLEAN
  PROVE  LET f == Muting(p, mute) IN
         /\ f \in Frames /\ f.at = "volume" /\ f.job = frame[p].job
         /\ f.mute = mute /\ f.volume = server.volume[frame[p].job.client]
  <1>1. frame[p].job.client \in Clients
    BY DEF Types, Frames, RequestType
  <1>2. server.volume[frame[p].job.client] \in Volumes
    BY <1>1 DEF Types, Servers
  <1> QED
    BY <1>2, WritingIs DEF Muting

-----------------------------------------------------------------------------
(* What a write does to the requests that are under way. *)

LEMMA MarkedIs ==
  ASSUME NEW r \in RequestType, NEW c, NEW mute \in BOOLEAN
  PROVE  /\ Marked(r, c, mute) \in RequestType
         /\ Marked(r, c, mute).kind = r.kind /\ Marked(r, c, mute).client = r.client
         /\ Marked(r, c, mute).muted <=> r.muted \/ (mute /\ r.client = c)
  <1> DEFINE b == r.muted \/ (mute /\ r.client = c)
  <1>1. b \in BOOLEAN
    BY DEF RequestType
  <1>2. Marked(r, c, mute) = [r EXCEPT !.muted = b]
    BY DEF Marked
  <1> HIDE DEF b
  <1>3. /\ Marked(r, c, mute) \in RequestType
        /\ Marked(r, c, mute).kind = r.kind /\ Marked(r, c, mute).client = r.client
        /\ Marked(r, c, mute).muted = b
    BY <1>1, <1>2 DEF RequestType
  <1> QED
    BY <1>3 DEF b

LEMMA MarkedFrameIs ==
  ASSUME NEW f \in Frames, NEW c, NEW mute \in BOOLEAN
  PROVE  LET g == MarkedFrame(f, c, mute) IN
         /\ g \in Frames /\ g.job = Marked(f.job, c, mute)
         /\ g.at = f.at /\ g.mute = f.mute /\ g.volume = f.volume /\ g.tries = f.tries
  <1>1. PICK r : r = Marked(f.job, c, mute)
    OBVIOUS
  <1>2. r \in RequestType
    BY <1>1, MarkedIs DEF Frames
  <1>3. MarkedFrame(f, c, mute) = [f EXCEPT !.job = r]
    BY <1>1 DEF MarkedFrame
  <1> QED
    BY <1>1, <1>2, <1>3 DEF Frames

LEMMA Replaced ==
  ASSUME NEW S, NEW T, NEW s \in Seq(S), NEW r,
         r = [i \in DOMAIN s |-> r[i]], \A i \in DOMAIN s : r[i] \in T
  PROVE  r \in Seq(T) /\ DOMAIN r = DOMAIN s /\ Len(r) = Len(s)
  <1>1. Len(s) \in Nat /\ DOMAIN s = 1 .. Len(s)
    OBVIOUS
  <1>2. r \in [1 .. Len(s) -> T]
    BY <1>1
  <1> QED
    BY <1>1, <1>2

LEMMA Written ==
  ASSUME server \in Servers, NEW p \in Callers \cup {"app"},
         NEW c \in Clients, NEW mute \in BOOLEAN, NEW volume \in Volumes,
         SetVolume(p, c, mute, volume)
  PROVE  /\ server' \in Servers
         /\ server'.muted = [server.muted EXCEPT ![c] = mute]
         /\ server'.volume = [server.volume EXCEPT ![c] = volume]
  <1> DEFINE m == [server.muted EXCEPT ![c] = mute]
             v == [server.volume EXCEPT ![c] = volume]
  <1>1. m \in [Clients -> BOOLEAN] /\ v \in [Clients -> Volumes]
    BY DEF Servers
  <1>2. server' = [server EXCEPT !.muted = m, !.volume = v]
    BY DEF SetVolume, Servers
  <1> HIDE DEF m, v
  <1>3. server' \in Servers /\ server'.muted = m /\ server'.volume = v
    BY <1>1, <1>2 DEF Servers
  <1> QED
    BY <1>3 DEF m, v

\* A write leaves every request it marks excused: it either mutes the zone,
\* and the request is marked, or leaves it unmuted.
LEMMA ExcuseKept ==
  ASSUME server \in Servers, NEW p \in Callers \cup {"app"},
         NEW c \in Clients, NEW mute \in BOOLEAN, NEW volume \in Volumes,
         SetVolume(p, c, mute, volume),
         NEW r \in RequestType, Excused(r), NEW s, s = Marked(r, c, mute)
  PROVE  Excused(s)'
  <1>1. /\ s.client = r.client /\ r.client \in Clients
        /\ s.muted <=> r.muted \/ (mute /\ r.client = c)
    BY MarkedIs DEF RequestType
  <1>2. /\ server' \in Servers
        /\ server'.muted = [server.muted EXCEPT ![c] = mute]
        /\ server'.volume = [server.volume EXCEPT ![c] = volume]
    BY Written
  <1>3. server.muted \in [Clients -> BOOLEAN]
    BY DEF Servers
  <1> QED
    BY <1>1, <1>2, <1>3 DEF Excused

-----------------------------------------------------------------------------
(* What the steps have in common. *)

\* p goes on at the frame f; mute flags and volumes stay.
LEMMA GoStep ==
  ASSUME IInv, NEW p \in Callers, NEW f \in Frames, Goto(p, f), f.at # "dead",
         InShape(p, f), ~overlapped'[p] => Fresh(p, f),
         server' \in Servers, server'.muted = server.muted, server'.volume = server.volume,
         overlapped' \in [Callers -> BOOLEAN],
         \A q \in Callers \ {p} : overlapped'[q] = overlapped[q],
         status' \in [group : [Clients -> Groups \cup {Nobody}], playing : Seq(StreamSet)],
         IsInjective(status'.playing), p = Worker \/ status' = status,
         requests' \in Seq(RequestType), Len(requests') <= Capacity,
         \A i \in DOMAIN requests' : Queueable(requests'[i]), ButtonTypes'
  PROVE  IInv'
  <1> USE DEF IInv
  <1>1. /\ frame' \in [Callers -> Frames] /\ frame'[p] = f
        /\ \A q \in Callers \ {p} : frame'[q] = frame[q]
    BY DEF Types, Goto
  <1>2. Types'
    BY <1>1 DEF Types
  <1>3. (\A i \in DOMAIN requests : Queueable(requests[i]))'
    BY DEF Queueable, Excused
  <1>4. (\A q \in Callers : InShape(q, frame[q]))'
    BY <1>1 DEF InShape, Queueable, Excused
  <1>5. (\A q \in Callers : ~overlapped[q] => Fresh(q, frame[q]))'
    BY <1>1 DEF Fresh
  <1>6. DiesOnlyInSilence'
    BY <1>1 DEF DiesOnlyInSilence, Crashed, Worker, Callers
  <1> QED
    BY <1>2, <1>3, <1>4, <1>5, <1>6

\* ... and nothing else changes but what the status or the queue asks for.
LEMMA CallStep ==
  ASSUME IInv, NEW p \in Callers, NEW f \in Frames, Goto(p, f), f.at # "dead",
         InShape(p, f), ~overlapped'[p] => Fresh(p, f), ButtonTypes',
         overlapped' \in {overlapped, [overlapped EXCEPT ![p] = FALSE]},
         UNCHANGED <<server, status, requests>>
  PROVE  IInv'
  <1>1. /\ overlapped' \in [Callers -> BOOLEAN]
        /\ \A q \in Callers \ {p} : overlapped'[q] = overlapped[q]
    BY DEF IInv, Types
  <1>2. /\ server \in Servers
        /\ status \in [group : [Clients -> Groups \cup {Nobody}], playing : Seq(StreamSet)]
        /\ IsInjective(status.playing)
        /\ requests \in Seq(RequestType) /\ Len(requests) <= Capacity
        /\ \A i \in DOMAIN requests : Queueable(requests[i])
    BY DEF IInv, Types
  <1> QED
    BY <1>1, <1>2, GoStep

\* A write of a client's volume and mute flag, by the goroutine p or the app.
LEMMA WriteStep ==
  ASSUME IInv, NEW p \in Callers \cup {"app"}, NEW c \in Clients,
         NEW mute \in BOOLEAN, NEW volume \in Volumes, SetVolume(p, c, mute, volume),
         requests' = [i \in DOMAIN requests |-> Marked(requests[i], c, mute)],
         status' = status, ButtonTypes',
         frame' \in [Callers -> Frames],
         \A q \in Callers \ {p} : frame'[q] = MarkedFrame(frame[q], c, mute),
         p \in Callers => (InShape(p, frame[p]) /\ Fresh(p, frame[p]))',
         p = Worker => frame'[p].at # "dead"
  PROVE  IInv'
  <1> USE DEF IInv
  <1>1. /\ server' \in Servers
        /\ server'.muted = [server.muted EXCEPT ![c] = mute]
        /\ server'.volume = [server.volume EXCEPT ![c] = volume]
    <2>1. server \in Servers
      BY DEF Types
    <2> QED
      BY <2>1, Written
  <1>2. overlapped' = [q \in Callers |->
          overlapped[q] \/ (q # p /\ frame[q].at = "volume" /\ frame[q].job.client = c)]
    BY DEF SetVolume
  <1>3. \A i \in DOMAIN requests : requests[i] \in RequestType
    BY DEF Types
  <1>4. \A i \in DOMAIN requests : Marked(requests[i], c, mute) \in RequestType
    BY <1>3, MarkedIs
  <1>5. requests' \in Seq(RequestType) /\ DOMAIN requests' = DOMAIN requests
        /\ Len(requests') = Len(requests)
    BY <1>4, Replaced DEF Types
  <1>6. \A q \in Callers \ {p} :
          /\ frame[q] \in Frames
          /\ frame'[q].job = Marked(frame[q].job, c, mute)
          /\ frame'[q].at = frame[q].at /\ frame'[q].mute = frame[q].mute
          /\ frame'[q].volume = frame[q].volume
    BY MarkedFrameIs DEF Types
  <1>7. \A r \in RequestType : Queueable(r) => Queueable(Marked(r, c, mute))'
    BY MarkedIs, ExcuseKept DEF Types, Queueable
  <1>8. Types'
    BY <1>1, <1>2, <1>5 DEF Types
  <1>9. (\A i \in DOMAIN requests : Queueable(requests[i]))'
    BY <1>3, <1>5, <1>7
  <1>10. ASSUME NEW q \in Callers PROVE InShape(q, frame[q])'
    <2>1. CASE q = p
      BY <2>1
    <2>2. CASE q # p
      <3>1. PICK r : r = frame[q].job
        OBVIOUS
      <3>2. PICK s : s = Marked(r, c, mute)
        OBVIOUS
      <3>3. r \in RequestType /\ frame'[q].job = s /\ frame'[q].at = frame[q].at
        BY <1>6, <2>2, <3>1, <3>2 DEF Frames
      <3>4. s.kind = r.kind
        BY <3>2, <3>3, MarkedIs
      <3>5. Excused(r) => Excused(s)'
        BY <3>2, <3>3, ExcuseKept DEF Types
      <3>6. InShape(q, frame[q])
        OBVIOUS
      <3> QED
        BY <3>1, <3>3, <3>4, <3>5, <3>6 DEF InShape, Queueable
    <2> QED
      BY <2>1, <2>2
  <1>11. ASSUME NEW q \in Callers, ~overlapped'[q] PROVE Fresh(q, frame[q])'
    <2>1. CASE q = p
      BY <2>1
    <2>2. CASE q # p
      <3>1. PICK r : r = frame[q].job
        OBVIOUS
      <3>2. r \in RequestType /\ frame'[q].job = Marked(r, c, mute)
        BY <1>6, <2>2, <3>1 DEF Frames
      <3>3. Marked(r, c, mute).kind = r.kind /\ Marked(r, c, mute).client = r.client
        BY <3>2, MarkedIs
      <3>4. ~overlapped[q] /\ (frame[q].at = "volume" => r.client # c)
        BY <1>2, <1>11, <2>2, <3>1
      <3>5. Fresh(q, frame[q])
        BY <3>4
      <3>6. server.muted \in [Clients -> BOOLEAN] /\ server.volume \in [Clients -> Volumes]
            /\ r.client \in Clients
        BY <3>2 DEF Types, Servers, RequestType
      <3>7. frame[q].at = "volume" => /\ server'.muted[r.client] = server.muted[r.client]
                                      /\ server'.volume[r.client] = server.volume[r.client]
        BY <1>1, <3>4, <3>6
      <3> QED
        BY <1>6, <2>2, <3>1, <3>2, <3>3, <3>5, <3>7 DEF Fresh
    <2> QED
      BY <2>1, <2>2
  <1>12. DiesOnlyInSilence'
    <2>1. Worker \in Callers
      BY DEF Callers
    <2> QED
      BY <1>6, <2>1 DEF DiesOnlyInSilence, Crashed
  <1> QED
    BY <1>8, <1>9, <1>10, <1>11, <1>12

-----------------------------------------------------------------------------
(* Calls that fail, and the call that writes. *)

LEMMA TriedAgain ==
  ASSUME SnapcastAssumption, NEW f \in Frames, f.tries < RetryMax
  PROVE  LET g == [f EXCEPT !.tries = @ + 1] IN
         /\ g \in Frames /\ g.at = f.at /\ g.job = f.job
         /\ g.mute = f.mute /\ g.volume = f.volume
  <1>1. f.tries + 1 \in 1 .. RetryMax
    BY SnapcastAssumption DEF SnapcastAssumption, Frames
  <1> QED
    BY <1>1 DEF Frames

\* A frame at which a goroutine is between two jobs, or asks the sound bar.
Between(f) == f \in Frames /\ f.at \in {"idle", "poll", "wait", "online"}

\* ... or about to read the status for a job that is fit for it.
OnwardTo(p, f) ==
  /\ f \in Frames /\ f.at \in {"idle", "poll", "wait", "online", "status", "send", "group", "stream"}
  /\ InShape(p, f)

LEMMA BetweenIsOnward ==
  ASSUME NEW p \in Callers, NEW f, Between(f)
  PROVE  OnwardTo(p, f)
  BY DEF Between, OnwardTo, InShape

\* p's attempt fails: it is at the same call, or goes on at f.
LEMMA TryStep ==
  ASSUME SnapcastAssumption, IInv, NEW p \in Callers, NEW f, OnwardTo(p, f),
         TryAgain(p, f), frame[p].at # "dead",
         server' \in Servers, server'.muted = server.muted, server'.volume = server.volume,
         status' \in [group : [Clients -> Groups \cup {Nobody}], playing : Seq(StreamSet)],
         IsInjective(status'.playing), p = Worker \/ status' = status,
         UNCHANGED <<requests, overlapped>>, UNCHANGED buttonVars
  PROVE  IInv'
  <1>1. ButtonTypes'
    BY DEF IInv, ButtonTypes, buttonVars
  <1>2. /\ requests \in Seq(RequestType) /\ Len(requests) <= Capacity
        /\ \A i \in DOMAIN requests : Queueable(requests[i])
        /\ overlapped \in [Callers -> BOOLEAN]
    BY DEF IInv, Types
  <1>3. CASE Goto(p, f)
    <2>1. f \in Frames /\ f.at # "dead" /\ InShape(p, f) /\ Fresh(p, f)
      BY DEF OnwardTo, Fresh
    <2> QED
      BY <1>1, <1>2, <1>3, <2>1, GoStep
  <1>4. CASE frame[p].tries < RetryMax /\ frame' = [frame EXCEPT ![p].tries = @ + 1]
    <2>1. PICK old : old = frame[p]
      OBVIOUS
    <2>2. old \in Frames /\ old.tries < RetryMax
      BY <1>4, <2>1 DEF IInv, Types
    <2>3. PICK g : g = [old EXCEPT !.tries = @ + 1]
      OBVIOUS
    <2>4. /\ g \in Frames /\ g.at = old.at /\ g.job = old.job
          /\ g.mute = old.mute /\ g.volume = old.volume
      BY <2>2, <2>3, TriedAgain
    <2>5. Goto(p, g)
      BY <1>4, <2>1, <2>3 DEF Goto, IInv, Types
    <2>6. InShape(p, g)
      BY <2>1, <2>4 DEF IInv, InShape
    <2>7. ~overlapped'[p] => Fresh(p, g)
      BY <2>1, <2>4 DEF IInv, Fresh
    <2>8. g.at # "dead"
      BY <2>1, <2>4
    <2> QED
      BY <1>1, <1>2, <2>4, <2>5, <2>6, <2>7, <2>8, GoStep
  <1> QED
    BY <1>3, <1>4 DEF TryAgain

LEMMA UnservedStep ==
  ASSUME SnapcastAssumption, IInv, NEW p \in Callers, NEW f, OnwardTo(p, f),
         Unserved(p, f), frame[p].at # "dead", UNCHANGED buttonVars
  PROVE  IInv'
  <1>1. TryAgain(p, f) /\ UNCHANGED <<server, status, requests, overlapped>>
    BY DEF Unserved
  <1>2. /\ server \in Servers
        /\ status \in [group : [Clients -> Groups \cup {Nobody}], playing : Seq(StreamSet)]
        /\ IsInjective(status.playing)
    BY DEF IInv, Types
  <1> QED
    BY <1>1, <1>2, TryStep

\* A step of p to f that leaves the server, the status and the queue alone.
LEMMA OnwardStep ==
  ASSUME IInv, NEW p \in Callers, NEW f, OnwardTo(p, f), Goto(p, f), ButtonTypes',
         overlapped' \in {overlapped, [overlapped EXCEPT ![p] = FALSE]},
         UNCHANGED <<server, status, requests>>
  PROVE  IInv'
  <1>1. f \in Frames /\ f.at # "dead" /\ InShape(p, f) /\ Fresh(p, f)
    BY DEF OnwardTo, Fresh
  <1> QED
    BY <1>1, CallStep

LEMMA RefusedStep ==
  ASSUME IInv, NEW p \in Callers, NEW f, OnwardTo(p, f), Refused(p, f),
         UNCHANGED buttonVars
  PROVE  IInv'
  <1>1. ButtonTypes'
    BY DEF IInv, ButtonTypes, buttonVars
  <1>2. Goto(p, f) /\ UNCHANGED <<server, status, requests, overlapped>>
    BY DEF Refused
  <1> QED
    BY <1>1, <1>2, OnwardStep

\* The status is answered: p writes back what it has just read, or goes on.
LEMMA StatusStep ==
  ASSUME IInv, NEW p \in Callers, NEW f, StatusCall(p, f), UNCHANGED buttonVars,
         \/ OnwardTo(p, f)
         \/ f \in Frames /\ f.at = "volume" /\ InShape(p, f) /\ Fresh(p, f)
  PROVE  IInv'
  <1>1. ButtonTypes'
    BY DEF IInv, ButtonTypes, buttonVars
  <1>2. /\ Goto(p, f) /\ overlapped' = [overlapped EXCEPT ![p] = FALSE]
        /\ UNCHANGED <<server, status, requests>>
    BY DEF StatusCall
  <1>3. f \in Frames /\ f.at # "dead" /\ InShape(p, f) /\ Fresh(p, f)
    BY DEF OnwardTo, Fresh
  <1> QED
    BY <1>1, <1>2, <1>3, CallStep

\* SetVolume, served or not, by a goroutine that goes on between two jobs.
LEMMA VolumeStep ==
  ASSUME SnapcastAssumption, IInv, NEW p \in Callers, NEW f, Between(f),
         VolumeCall(p, f), UNCHANGED buttonVars
  PROVE  IInv'
  <1>0. ButtonTypes'
    BY DEF IInv, ButtonTypes, buttonVars
  <1> DEFINE old == frame[p]
             c == old.job.client
  <1>1. old \in Frames /\ c \in Clients /\ old.mute \in BOOLEAN /\ old.volume \in Volumes
    BY DEF IInv, Types, Frames, RequestType
  <1>2. old.at = "volume"
    BY DEF VolumeCall
  <1>3. OnwardTo(p, f)
    BY BetweenIsOnward
  <1>4. CASE Unserved(p, f)
    BY <1>2, <1>3, <1>4, UnservedStep
  <1>5. CASE Refused(p, f)
    BY <1>3, <1>5, RefusedStep
  <1>6. ASSUME SetVolume(p, c, old.mute, old.volume),
               requests' = [i \in DOMAIN requests |-> Marked(requests[i], c, old.mute)],
               status' = status,
               NEW g, frame' = [q \in Callers |-> IF q = p THEN g
                                                  ELSE MarkedFrame(frame[q], c, old.mute)],
               \/ g = f
               \/ /\ old.tries # RetryMax
                  /\ g = [MarkedFrame(old, c, old.mute) EXCEPT !.tries = @ + 1]
        PROVE  IInv'
    <2>1. \A q \in Callers : MarkedFrame(frame[q], c, old.mute) \in Frames
      BY <1>1, MarkedFrameIs DEF IInv, Types
    <2>2. \/ g = f
          \/ /\ g \in Frames /\ g.at = "volume" /\ g.job = Marked(old.job, c, old.mute)
             /\ g.mute = old.mute /\ g.volume = old.volume
      <3> SUFFICES ASSUME g # f
                   PROVE  /\ g \in Frames /\ g.at = "volume"
                          /\ g.job = Marked(old.job, c, old.mute)
                          /\ g.mute = old.mute /\ g.volume = old.volume
        OBVIOUS
      <3>1. PICK h : h = MarkedFrame(old, c, old.mute)
        OBVIOUS
      <3>2. /\ h \in Frames /\ h.job = Marked(old.job, c, old.mute) /\ h.at = old.at
            /\ h.mute = old.mute /\ h.volume = old.volume /\ h.tries = old.tries
        BY <1>1, <3>1, MarkedFrameIs
      <3>3. h.tries < RetryMax
        BY <1>6, <1>1, <3>2, SnapcastAssumption DEF SnapcastAssumption, Frames
      <3>4. g = [h EXCEPT !.tries = @ + 1]
        BY <1>6, <3>1
      <3> HIDE DEF old, c
      <3> QED
        BY <1>2, <3>2, <3>3, <3>4, TriedAgain
    <2>3. g \in Frames /\ g.at # "dead"
      BY <2>2 DEF Between
    <2>4. frame' \in [Callers -> Frames] /\ frame'[p] = g
          /\ \A q \in Callers \ {p} : frame'[q] = MarkedFrame(frame[q], c, old.mute)
      BY <1>6, <2>1, <2>3
    <2>5. /\ server'.muted = [server.muted EXCEPT ![c] = old.mute]
          /\ server'.volume = [server.volume EXCEPT ![c] = old.volume]
          /\ server.muted \in [Clients -> BOOLEAN]
          /\ server.volume \in [Clients -> Volumes]
      <3>1. server \in Servers
        BY DEF IInv, Types
      <3>2. /\ server' \in Servers
            /\ server'.muted = [server.muted EXCEPT ![c] = old.mute]
            /\ server'.volume = [server.volume EXCEPT ![c] = old.volume]
        BY <1>1, <1>6, <3>1, Written
      <3> QED
        BY <3>1, <3>2 DEF Servers
    <2>6. (InShape(p, frame[p]) /\ Fresh(p, frame[p]))'
      <3>1. CASE g = f
        BY <2>4, <3>1 DEF Between, InShape, Fresh
      <3>2. CASE g # f
        <4>1. PICK r : r = old.job
          OBVIOUS
        <4>2. PICK s : s = Marked(r, c, old.mute)
          OBVIOUS
        <4>3. /\ r \in RequestType /\ s.kind = r.kind /\ s.client = c
          BY <1>1, <4>1, <4>2, MarkedIs DEF Frames
        <4>4. g.at = "volume" /\ g.job = s /\ g.mute = old.mute /\ g.volume = old.volume
          BY <2>2, <3>2, <4>1, <4>2
        <4>5. Excused(r) => Excused(s)'
          BY <1>1, <1>6, <4>2, <4>3, ExcuseKept DEF IInv, Types
        <4>6. p = Worker => r.kind \in {"volume", "change", "onoff"} /\ Excused(r)
          BY <1>2, <4>1 DEF IInv, InShape
        <4>7. InShape(p, frame[p])'
          BY <2>4, <4>3, <4>4, <4>5, <4>6 DEF InShape, Worker
        <4>8. Fresh(p, frame[p])'
          BY <1>1, <2>4, <2>5, <4>3, <4>4 DEF Fresh
        <4> QED
          BY <4>7, <4>8
      <3> QED
        BY <3>1, <3>2
    <2> HIDE DEF old, c
    <2> QED
      BY <1>0, <1>1, <1>6, <2>3, <2>4, <2>6, WriteStep
  <1> QED
    <2>1. ASSUME ~Unserved(p, f), ~Refused(p, f)
          PROVE  IInv'
      <3>1. /\ SetVolume(p, c, old.mute, old.volume)
            /\ requests' = [i \in DOMAIN requests |-> Marked(requests[i], c, old.mute)]
            /\ status' = status
            /\ \/ frame' = [q \in Callers |-> IF q = p THEN f
                              ELSE MarkedFrame(frame[q], c, old.mute)]
               \/ frame' = [q \in Callers |->
                    IF q # p THEN MarkedFrame(frame[q], c, old.mute)
                    ELSE IF old.tries = RetryMax THEN f
                    ELSE [MarkedFrame(old, c, old.mute) EXCEPT !.tries = @ + 1]]
        BY <2>1 DEF VolumeCall
      <3>2. PICK h : h = [MarkedFrame(old, c, old.mute) EXCEPT !.tries = @ + 1]
        OBVIOUS
      <3>3. \E g : /\ frame' = [q \in Callers |-> IF q = p THEN g
                                   ELSE MarkedFrame(frame[q], c, old.mute)]
                   /\ g = f \/ (old.tries # RetryMax /\ g = h)
        <4>1. CASE frame' = [q \in Callers |-> IF q = p THEN f
                              ELSE MarkedFrame(frame[q], c, old.mute)]
          BY <4>1
        <4>2. CASE frame' = [q \in Callers |->
                    IF q # p THEN MarkedFrame(frame[q], c, old.mute)
                    ELSE IF old.tries = RetryMax THEN f ELSE h]
          <5> DEFINE g == IF old.tries = RetryMax THEN f ELSE h
          <5>1. frame' = [q \in Callers |-> IF q = p THEN g
                                   ELSE MarkedFrame(frame[q], c, old.mute)]
            BY <4>2
          <5> QED
            BY <5>1
        <4> QED
          BY <3>1, <3>2, <4>1, <4>2
      <3> QED
        BY <1>6, <3>1, <3>2, <3>3
    <2> QED
      BY <1>4, <1>5, <2>1

-----------------------------------------------------------------------------
(* The initial states, and the steps of the house and the app. *)

LEMMA InitInv == ASSUME SnapcastAssumption, ButtonsAssumption, Init PROVE IInv
  <1>1. IdleFrame \in Frames /\ IdleFrame.at = "idle"
    BY IdleFrameType
  <1> HIDE DEF IdleFrame
  <1>2. [IdleFrame EXCEPT !.at = "poll"] \in Frames
        /\ [IdleFrame EXCEPT !.at = "poll"].at = "poll"
    BY <1>1 DEF Frames, Places
  <1>3. \A p \in Callers : /\ frame[p] \in Frames /\ frame[p].at \in {"idle", "poll"}
                           /\ overlapped[p] = FALSE
    BY <1>1, <1>2 DEF Init, SnapInit
  <1>4. server \in Servers
    <2>1. (CHOOSE g \in Groups : TRUE) \in Groups
      BY SnapcastAssumption DEF SnapcastAssumption
    <2>2. Top \in Volumes /\ AtStart \subseteq [Clients -> BOOLEAN]
      BY SnapcastAssumption DEF SnapcastAssumption, Volumes
    <2> QED
      BY <2>1, <2>2, SomeStream DEF Init, SnapInit, Servers
  <1>5. /\ status \in [group : [Clients -> Groups \cup {Nobody}], playing : Seq(StreamSet)]
        /\ status.playing = <<>> /\ IsInjective(status.playing)
    BY DEF Init, SnapInit, Cleared, IsInjective
  <1>6. requests \in Seq(RequestType) /\ Len(requests) = 0 /\ DOMAIN requests = {}
    BY DEF Init, SnapInit
  <1>7. frame \in [Callers -> Frames] /\ overlapped \in [Callers -> BOOLEAN]
    BY <1>3 DEF Init, SnapInit
  <1>8. Types
    BY <1>4, <1>5, <1>6, <1>7, SnapcastAssumption DEF Types, SnapcastAssumption
  <1>9. ButtonTypes
    <2>1. Len(Zones) \in Nat /\ MaxPresses \in Nat
      BY ButtonsAssumption DEF ButtonsAssumption
    <2> QED
      BY <2>1 DEF Init, ButtonTypes
  <1> QED
    BY <1>3, <1>5, <1>6, <1>8, <1>9 DEF IInv, InShape, Fresh, DiesOnlyInSilence

LEMMA PressStep ==
  ASSUME SnapcastAssumption, ButtonsAssumption, IInv, Press
  PROVE  IInv'
  <1>1. UNCHANGED snapVars
    BY DEF Press
  <1>2. ButtonTypes'
    <2>1. PICK z \in Clients, a \in Actions :
            inbox' = Append(inbox, [zone |-> z, action |-> a])
      BY DEF Press
    <2>2. PICK e \in [zone : Clients, action : Actions] : inbox' = Append(inbox, e)
      BY <2>1
    <2>3. inbox' \in Seq([zone : Clients, action : Actions]) /\ Len(inbox') = Len(inbox) + 1
      BY <2>2 DEF IInv, ButtonTypes
    <2>4. presses < MaxPresses /\ presses' = presses + 1
          /\ UNCHANGED <<spotify, registered, outputs>>
      BY DEF Press
    <2>5. Len(inbox) \in Nat
      BY DEF IInv, ButtonTypes
    <2>6. MaxPresses \in Nat
      BY ButtonsAssumption DEF ButtonsAssumption
    <2> QED
      BY <2>3, <2>4, <2>5, <2>6 DEF IInv, ButtonTypes
  <1>3. UNCHANGED <<server, status, requests, frame, overlapped>>
    BY <1>1 DEF snapVars
  <1> QED
    BY <1>2, <1>3 DEF IInv, Types, Queueable, Excused, InShape, Fresh, DiesOnlyInSilence, Crashed

LEMMA AppStep ==
  ASSUME SnapcastAssumption, ButtonsAssumption, IInv, App, UNCHANGED buttonVars
  PROVE  IInv'
  <1>0. ButtonTypes'
    BY DEF IInv, ButtonTypes, buttonVars
  <1>1. CASE AppSetsVolume
    <2>1. PICK c \in Clients, mute \in BOOLEAN, volume \in {0, Top} :
            /\ SetVolume("app", c, mute, volume)
            /\ requests' = [i \in DOMAIN requests |-> Marked(requests[i], c, mute)]
            /\ frame' = [q \in Callers |-> MarkedFrame(frame[q], c, mute)]
            /\ UNCHANGED status
      BY <1>1 DEF AppSetsVolume
    <2>2. volume \in Volumes
      BY SnapcastAssumption DEF SnapcastAssumption, Volumes
    <2>3. "app" \notin Callers /\ "app" # Worker
      BY DEF Callers, Worker
    <2>4. \A q \in Callers : MarkedFrame(frame[q], c, mute) \in Frames
      BY MarkedFrameIs DEF IInv, Types
    <2>5. frame' \in [Callers -> Frames]
          /\ \A q \in Callers \ {"app"} : frame'[q] = MarkedFrame(frame[q], c, mute)
      BY <2>1, <2>4
    <2> QED
      BY <1>0, <2>1, <2>2, <2>3, <2>5, WriteStep
  <1>2. CASE AppMoves
    <2>1. UNCHANGED <<status, requests, frame, overlapped>>
      BY <1>2 DEF AppMoves
    <2>2. server' \in Servers /\ server'.muted = server.muted
          /\ server'.volume = server.volume
      <3>1. server \in Servers
        BY DEF IInv, Types
      <3>2. CASE \E c \in Clients, g \in Groups : server' = [server EXCEPT !.group[c] = g]
        <4>1. PICK c \in Clients, g \in Groups : server' = [server EXCEPT !.group[c] = g]
          BY <3>2
        <4>2. [server.group EXCEPT ![c] = g] \in [Clients -> Groups]
          BY <3>1 DEF Servers
        <4> QED
          BY <3>1, <4>1, <4>2 DEF Servers
      <3>3. CASE \E g \in Groups, s \in StreamSet : server' = [server EXCEPT !.stream[g] = s]
        <4>1. PICK g \in Groups, s \in StreamSet : server' = [server EXCEPT !.stream[g] = s]
          BY <3>3
        <4>2. [server.stream EXCEPT ![g] = s] \in [Groups -> StreamSet]
          BY <3>1 DEF Servers
        <4> QED
          BY <3>1, <4>1, <4>2 DEF Servers
      <3>4. CASE \E playing \in SUBSET StreamSet : server' = [server EXCEPT !.playing = playing]
        BY <3>1, <3>4 DEF Servers
      <3> QED
        BY <1>2, <3>2, <3>3, <3>4 DEF AppMoves
    <2> QED
      BY <1>0, <2>1, <2>2
         DEF IInv, Types, Queueable, Excused, InShape, Fresh, DiesOnlyInSilence, Crashed
  <1> QED
    BY <1>1, <1>2 DEF App

\* HandleSnapcastClientMute (rest/snapcast.go:9): its reading begins, is answered, or
\* is not.
LEMMA RestRequestStep ==
  ASSUME SnapcastAssumption, ButtonsAssumption, IInv, RestRequest
  PROVE  IInv'
  <1>1. PICK c \in Clients, mute \in BOOLEAN :
          Goto("rest", [Reading(frame["rest"], Request("rest", c)) EXCEPT !.mute = mute])
    BY DEF RestRequest
  <1>2. PICK f : f = [Reading(frame["rest"], Request("rest", c)) EXCEPT !.mute = mute]
    OBVIOUS
  <1>3. Request("rest", c) \in RequestType
    BY RequestIs
  <1>4. frame["rest"] \in Frames
    BY DEF IInv, Types, Callers
  <1>5. PICK g : g = Reading(frame["rest"], Request("rest", c))
    OBVIOUS
  <1>6. g \in Frames /\ g.at = "status"
    BY <1>3, <1>4, <1>5, ReadingIs
  <1>7. f \in Frames /\ f.at = "status"
    BY <1>2, <1>5, <1>6 DEF Frames
  <1>8. OnwardTo("rest", f)
    BY <1>7 DEF OnwardTo, InShape, Worker
  <1>9. ButtonTypes'
    <2>1. presses < MaxPresses /\ presses' = presses + 1
          /\ UNCHANGED <<spotify, registered, inbox, outputs>>
      BY DEF RestRequest
    <2>2. MaxPresses \in Nat /\ Len(inbox) \in Nat
      BY ButtonsAssumption DEF ButtonsAssumption, IInv, ButtonTypes
    <2> QED
      BY <2>1, <2>2 DEF IInv, ButtonTypes
  <1>10. "rest" \in Callers /\ UNCHANGED <<server, status, requests, overlapped>>
    BY DEF RestRequest, Callers
  <1> QED
    BY <1>1, <1>2, <1>8, <1>9, <1>10, OnwardStep

LEMMA RestStep ==
  ASSUME SnapcastAssumption, ButtonsAssumption, IInv, Rest
  PROVE  IInv'
  <1>0. "rest" \in Callers /\ "rest" # Worker
    BY DEF Callers, Worker
  <1>1. PICK f : f = Done("rest")
    OBVIOUS
  <1>2. f \in Frames /\ f.at \in {"idle", "poll"}
    BY <1>0, <1>1, DoneIs
  <1>3. Between(f) /\ OnwardTo("rest", f)
    BY <1>0, <1>2, BetweenIsOnward DEF Between
  <1>4. CASE RestVolume
    BY <1>0, <1>1, <1>3, <1>4, VolumeStep DEF RestVolume
  <1>5. CASE RestStatus
    <2>1. frame["rest"].at = "status" /\ UNCHANGED buttonVars
      BY <1>5 DEF RestStatus
    <2>2. CASE Unserved("rest", f)
      BY <1>0, <1>3, <2>1, <2>2, UnservedStep
    <2>3. CASE Refused("rest", f)
      BY <1>0, <1>3, <2>1, <2>3, RefusedStep
    <2>4. CASE StatusCall("rest", Muting("rest", frame["rest"].mute))
      <3>1. PICK g : g = Muting("rest", frame["rest"].mute)
        OBVIOUS
      <3>2. frame["rest"].mute \in BOOLEAN
        BY <1>0 DEF IInv, Types, Frames
      <3>3. /\ g \in Frames /\ g.at = "volume" /\ g.job = frame["rest"].job
            /\ g.volume = server.volume[frame["rest"].job.client]
        BY <1>0, <3>1, <3>2, MutingIs DEF IInv
      <3>4. InShape("rest", g) /\ Fresh("rest", g)
        BY <1>0, <3>3 DEF InShape, Fresh
      <3> QED
        BY <1>0, <2>1, <2>4, <3>1, <3>3, <3>4, StatusStep
    <2> QED
      BY <1>1, <1>5, <2>2, <2>3, <2>4 DEF RestStatus
  <1> QED
    BY <1>4, <1>5 DEF Rest

-----------------------------------------------------------------------------
(* The steps of the hub's goroutine and of spotifyOutputOn. *)

\* ensureOnline asks for a stream in the morning, or p goes on at f.
LEMMA OnlineStep ==
  ASSUME SnapcastAssumption, ButtonsAssumption, IInv, NEW p \in Callers, NEW f,
         OnwardTo(p, f), Online(p, f)
  PROVE  IInv'
  <1>1. ButtonTypes'
    BY DEF Online, IInv, ButtonTypes, buttonVars
  <1>2. UNCHANGED <<server, status, requests, overlapped>>
    BY DEF Online
  <1>3. CASE Goto(p, f)
    BY <1>1, <1>2, <1>3, OnwardStep
  <1>4. CASE Goto(p, [At(p, "send") EXCEPT !.job = SetDefaultChannelReq(TvZone, MorningStream)])
    <2>1. PICK r : r = SetDefaultChannelReq(TvZone, MorningStream)
      OBVIOUS
    <2>2. r \in RequestType /\ r.kind = "default"
      BY <2>1, DetailedIs, ButtonsAssumption DEF ButtonsAssumption
    <2>3. PICK g : g = At(p, "send")
      OBVIOUS
    <2>4. g \in Frames /\ g.at = "send"
      BY <2>3, AtIs DEF IInv, Places
    <2>5. PICK h : h = [g EXCEPT !.job = r]
      OBVIOUS
    <2>6. h \in Frames /\ h.at = "send" /\ h.job = r
      BY <2>2, <2>4, <2>5, JobIs
    <2>7. OnwardTo(p, h)
      BY <2>2, <2>6 DEF OnwardTo, InShape, Queueable
    <2>8. Goto(p, h)
      BY <1>4, <2>1, <2>3, <2>5
    <2> QED
      BY <1>1, <1>2, <2>7, <2>8, OnwardStep
  <1> QED
    BY <1>3, <1>4 DEF Online

\* SendRequest: what the caller queues may be queued.
LEMMA SendStep ==
  ASSUME SnapcastAssumption, ButtonsAssumption, IInv, NEW p \in Callers, p # Worker,
         frame[p].at = "send", NEW f, OnwardTo(p, f), Send(p, frame[p].job, f),
         UNCHANGED buttonVars
  PROVE  IInv'
  <1>1. ButtonTypes'
    BY DEF IInv, ButtonTypes, buttonVars
  <1>2. PICK r : r = frame[p].job
    OBVIOUS
  <1>3. r \in RequestType /\ Queueable(r)
    BY <1>2 DEF IInv, InShape, Types, Frames
  <1>4. /\ Len(requests) < Capacity /\ requests' = Append(requests, r) /\ Goto(p, f)
        /\ UNCHANGED <<server, status, overlapped>>
    BY <1>2 DEF Send
  <1>5. requests \in Seq(RequestType) /\ Len(requests) \in Nat /\ Capacity \in Nat
        /\ DOMAIN requests = 1 .. Len(requests)
    BY SnapcastAssumption DEF IInv, Types, SnapcastAssumption
  <1>6. /\ requests' \in Seq(RequestType) /\ Len(requests') = Len(requests) + 1
        /\ DOMAIN requests' = 1 .. Len(requests) + 1
        /\ \A i \in 1 .. Len(requests) : requests'[i] = requests[i]
        /\ requests'[Len(requests) + 1] = r
    BY <1>3, <1>4, <1>5
  <1>7. \A i \in DOMAIN requests : Queueable(requests[i])
    BY DEF IInv
  <1>8. Len(requests') <= Capacity /\ \A i \in DOMAIN requests' : Queueable(requests'[i])
    BY <1>3, <1>4, <1>5, <1>6, <1>7
  <1>9. f \in Frames /\ f.at # "dead" /\ InShape(p, f) /\ Fresh(p, f)
    BY DEF OnwardTo, Fresh
  <1>10. /\ server \in Servers /\ overlapped \in [Callers -> BOOLEAN]
         /\ status \in [group : [Clients -> Groups \cup {Nobody}], playing : Seq(StreamSet)]
         /\ IsInjective(status.playing)
    BY DEF IInv, Types
  <1> QED
    BY <1>1, <1>4, <1>6, <1>8, <1>9, <1>10, GoStep

LEMMA BroadcastStep ==
  ASSUME SnapcastAssumption, ButtonsAssumption, IInv, Broadcast
  PROVE  IInv'
  <1>0. "hub" \in Callers /\ "hub" # Worker
    BY DEF Callers, Worker
  <1>1. /\ inbox # <<>> /\ inbox' = Tail(inbox)
        /\ UNCHANGED <<server, status, requests, overlapped>>
        /\ UNCHANGED <<spotify, registered, presses>>
    BY DEF Broadcast
  <1>2. PICK z, a : z = Head(inbox).zone /\ a = Head(inbox).action
    OBVIOUS
  <1>3. z \in Clients /\ a \in Actions
    <2>1. PICK S : S = [zone : Clients, action : Actions]
      OBVIOUS
    <2>2. inbox \in Seq(S)
      BY <2>1 DEF IInv, ButtonTypes
    <2>3. Head(inbox) \in S
      BY <1>1, <2>2
    <2> QED
      BY <1>2, <2>1, <2>3
  <1>4. \/ outputs' \in {outputs, outputs + 1} /\ UNCHANGED frame
        \/ Goto("hub", Reading(frame["hub"], Asked(z, a))) /\ UNCHANGED outputs
    BY <1>2 DEF Broadcast, Delivered
  <1>5. ButtonTypes'
    <2>1. /\ inbox' \in Seq([zone : Clients, action : Actions])
          /\ Len(inbox') = Len(inbox) - 1 /\ Len(inbox) \in Nat \ {0}
      BY <1>1 DEF IInv, ButtonTypes
    <2>2. outputs' \in {outputs, outputs + 1}
      BY <1>4
    <2>3. MaxPresses \in Nat
      BY ButtonsAssumption DEF ButtonsAssumption
    <2> QED
      BY <1>1, <2>1, <2>2, <2>3 DEF IInv, ButtonTypes
  <1>6. CASE UNCHANGED frame
    BY <1>1, <1>5, <1>6
       DEF IInv, Types, Queueable, Excused, InShape, Fresh, DiesOnlyInSilence, Crashed
  <1>7. CASE Goto("hub", Reading(frame["hub"], Asked(z, a)))
    <2>1. PICK r : r = Asked(z, a)
      OBVIOUS
    <2>2. /\ r \in RequestType
          /\ r.kind \in {"none", "toggle", "volume", "change", "onoff", "default"}
      BY <1>3, <2>1, AskedIs
    <2>3. frame["hub"] \in Frames
      BY <1>0 DEF IInv, Types
    <2>4. PICK f : f = Reading(frame["hub"], r)
      OBVIOUS
    <2>5. f \in Frames /\ f.at = "status" /\ f.job = r
      BY <2>2, <2>3, <2>4, ReadingIs
    <2>6. OnwardTo("hub", f)
      BY <1>0, <2>2, <2>5 DEF OnwardTo, InShape
    <2>7. Goto("hub", f)
      BY <1>7, <2>1, <2>4
    <2> QED
      BY <1>0, <1>1, <1>5, <2>6, <2>7, OnwardStep
  <1> QED
    BY <1>4, <1>6, <1>7

\* What the hub's goroutine does with the status: a zone that is muted is
\* unmuted, and only one that is not is asked for.
LEMMA ReceiveStatusStep ==
  ASSUME SnapcastAssumption, ButtonsAssumption, IInv, ReceiveStatus
  PROVE  IInv'
  <1>0. "hub" \in Callers /\ "hub" # Worker
    BY DEF Callers, Worker
  <1>1. frame["hub"].at = "status" /\ UNCHANGED buttonVars
    BY DEF ReceiveStatus
  <1>2. PICK d : d = Done("hub")
    OBVIOUS
  <1>3. d \in Frames /\ d.at \in {"idle", "poll"}
    BY <1>0, <1>2, DoneIs
  <1>4. OnwardTo("hub", d)
    BY <1>0, <1>3, BetweenIsOnward DEF Between
  <1>5. CASE Unserved("hub", d)
    BY <1>0, <1>1, <1>4, <1>5, UnservedStep
  <1>6. CASE Refused("hub", d)
    BY <1>0, <1>1, <1>4, <1>6, RefusedStep
  <1>7. CASE StatusCall("hub", Unmuted)
    <2>1. PICK r : r = frame["hub"].job
      OBVIOUS
    <2>2. /\ r \in RequestType
          /\ r.kind \in {"none", "toggle", "volume", "change", "onoff", "default"}
      BY <1>0, <1>1, <2>1 DEF IInv, Types, Frames, InShape
    <2>3. PICK f : f = Unmuted
      OBVIOUS
    <2>4. \/ f = Muting("hub", FALSE) \/ f = Muting("hub", TRUE)
          \/ f = d
          \/ f = At("hub", "send") /\ ~server.muted[r.client] /\ r.kind \notin {"none", "toggle"}
      BY <1>2, <2>1, <2>3 DEF Unmuted
    <2>5. ASSUME NEW mute \in BOOLEAN, f = Muting("hub", mute)
          PROVE  f \in Frames /\ f.at = "volume" /\ InShape("hub", f) /\ Fresh("hub", f)
      <3>1. f \in Frames /\ f.at = "volume" /\ f.job = r
            /\ f.volume = server.volume[r.client]
        BY <1>0, <2>1, <2>5, MutingIs DEF IInv
      <3> QED
        BY <1>0, <3>1 DEF InShape, Fresh
    <2>6. ASSUME f = At("hub", "send"), ~server.muted[r.client], r.kind \notin {"none", "toggle"}
          PROVE  OnwardTo("hub", f)
      <3>1. f \in Frames /\ f.at = "send" /\ f.job = r
        BY <1>0, <2>1, <2>6, AtIs DEF IInv, Places
      <3>2. Queueable(r)
        BY <2>2, <2>6 DEF Queueable, Excused
      <3> QED
        BY <1>0, <3>1, <3>2 DEF OnwardTo, InShape
    <2>7. \/ OnwardTo("hub", f)
          \/ f \in Frames /\ f.at = "volume" /\ InShape("hub", f) /\ Fresh("hub", f)
      BY <1>4, <2>4, <2>5, <2>6
    <2> QED
      BY <1>0, <1>1, <1>7, <2>3, <2>7, StatusStep
  <1> QED
    BY <1>2, <1>5, <1>6, <1>7 DEF ReceiveStatus

LEMMA HubStep ==
  ASSUME SnapcastAssumption, ButtonsAssumption, IInv, Hub
  PROVE  IInv'
  <1>0. "hub" \in Callers /\ "hub" # Worker
    BY DEF Callers, Worker
  <1>1. PICK d : d = Done("hub")
    OBVIOUS
  <1>2. d \in Frames /\ d.at \in {"idle", "poll"}
    BY <1>0, <1>1, DoneIs
  <1>3. Between(d) /\ OnwardTo("hub", d)
    BY <1>0, <1>2, BetweenIsOnward DEF Between
  <1>4. CASE Register
    <2>1. /\ registered < Len(Zones) /\ registered' = registered + 1
          /\ UNCHANGED <<snapVars, spotify, inbox, outputs, presses>>
      BY <1>4 DEF Register
    <2>2. Len(Zones) \in Nat
      BY ButtonsAssumption DEF ButtonsAssumption
    <2>3. ButtonTypes'
      BY <2>1, <2>2 DEF IInv, ButtonTypes
    <2> QED
      BY <2>1, <2>3
         DEF IInv, Types, Queueable, Excused, InShape, Fresh, DiesOnlyInSilence, Crashed, snapVars
  <1>5. CASE Broadcast
    BY <1>5, BroadcastStep
  <1>6. CASE ReceiveStatus
    BY <1>6, ReceiveStatusStep
  <1>7. CASE ReceiveVolume
    <2>1. VolumeCall("hub", d) \/ VolumeCall("hub", At("hub", "online"))
      BY <1>1, <1>7 DEF ReceiveVolume
    <2>2. Between(At("hub", "online"))
      BY <1>0, AtIs DEF IInv, Places, Between
    <2>3. UNCHANGED buttonVars
      BY <1>7 DEF ReceiveVolume
    <2> QED
      BY <1>0, <1>3, <2>1, <2>2, <2>3, VolumeStep
  <1>8. CASE Online("hub", Done("hub"))
    BY <1>0, <1>1, <1>3, <1>8, OnlineStep
  <1>9. CASE ReceiveSend
    BY <1>0, <1>1, <1>3, <1>9, SendStep DEF ReceiveSend
  <1> QED
    BY <1>4, <1>5, <1>6, <1>7, <1>8, <1>9 DEF Hub

LEMMA OutputStep ==
  ASSUME SnapcastAssumption, ButtonsAssumption, IInv, Output
  PROVE  IInv'
  <1>0. "output" \in Callers /\ "output" # Worker /\ "output" # "hub"
    BY DEF Callers, Worker
  <1>1. PICK d : d = Done("output")
    OBVIOUS
  <1>2. d \in Frames /\ d.at \in {"idle", "poll"}
    BY <1>0, <1>1, DoneIs
  <1>3. Between(d) /\ OnwardTo("output", d)
    BY <1>0, <1>2, BetweenIsOnward DEF Between
  <1>4. OnwardTo("output", OutputReading)
    <2>1. PICK r : r = Request("output", TvZone)
      OBVIOUS
    <2>2. r \in RequestType
      BY <2>1, RequestIs, ButtonsAssumption DEF ButtonsAssumption
    <2>3. frame["output"] \in Frames
      BY <1>0 DEF IInv, Types
    <2>4. PICK f : f = Reading(frame["output"], r)
      OBVIOUS
    <2>5. f \in Frames /\ f.at = "status"
      BY <2>2, <2>3, <2>4, ReadingIs
    <2>6. OnwardTo("output", f)
      BY <1>0, <2>5 DEF OnwardTo, InShape
    <2> QED
      BY <2>1, <2>4, <2>6 DEF OutputReading
  <1>5. CASE OutputStart
    <2>1. PICK f : f = At("output", "online")
      OBVIOUS
    <2>2. f \in Frames /\ f.at = "online"
      BY <1>0, <2>1, AtIs DEF IInv, Places
    <2>3. OnwardTo("output", f)
      BY <1>0, <2>2, BetweenIsOnward DEF Between
    <2>4. /\ outputs > 0 /\ outputs' = outputs - 1 /\ Goto("output", f)
          /\ UNCHANGED <<server, status, requests, overlapped>>
          /\ UNCHANGED <<spotify, registered, inbox, presses>>
      BY <1>5, <2>1 DEF OutputStart
    <2>5. Len(inbox) \in Nat /\ MaxPresses \in Nat
      BY ButtonsAssumption DEF ButtonsAssumption, IInv, ButtonTypes
    <2>6. ButtonTypes'
      BY <2>4, <2>5 DEF IInv, ButtonTypes
    <2> QED
      BY <1>0, <2>3, <2>4, <2>6, OnwardStep
  <1>6. CASE Online("output", OutputReading)
    BY <1>0, <1>4, <1>6, OnlineStep
  <1>7. CASE OutputSend
    BY <1>0, <1>4, <1>7, SendStep DEF OutputSend
  <1>8. CASE OutputStatus
    <2>1. frame["output"].at = "status" /\ UNCHANGED buttonVars
      BY <1>8 DEF OutputStatus
    <2>2. CASE Unserved("output", d)
      BY <1>0, <1>3, <2>1, <2>2, UnservedStep
    <2>3. CASE Refused("output", d)
      BY <1>0, <1>3, <2>1, <2>3, RefusedStep
    <2>4. CASE StatusCall("output", d)
      BY <1>0, <1>3, <2>1, <2>4, StatusStep
    <2>5. CASE StatusCall("output", Muting("output", TRUE))
      <3>1. PICK g : g = Muting("output", TRUE)
        OBVIOUS
      <3>2. /\ g \in Frames /\ g.at = "volume" /\ g.job = frame["output"].job
            /\ g.volume = server.volume[frame["output"].job.client]
        BY <1>0, <3>1, MutingIs DEF IInv
      <3>3. InShape("output", g) /\ Fresh("output", g)
        BY <1>0, <3>2 DEF InShape, Fresh
      <3> QED
        BY <1>0, <2>1, <2>5, <3>1, <3>2, <3>3, StatusStep
    <2> QED
      BY <1>1, <1>8, <2>2, <2>3, <2>4, <2>5 DEF OutputStatus
  <1>9. CASE VolumeCall("output", Done("output")) /\ UNCHANGED buttonVars
    BY <1>0, <1>1, <1>3, <1>9, VolumeStep
  <1> QED
    BY <1>5, <1>6, <1>7, <1>8, <1>9 DEF Output

-----------------------------------------------------------------------------
(* The steps of Run's goroutine. *)

LEMMA ToGroupIs ==
  ASSUME SnapcastAssumption, ButtonsAssumption, NEW f \in Frames
  PROVE  OnwardTo(Worker, ToGroup(f))
  <1>1. Worker \in Callers /\ Worker # "hub"
    BY DEF Callers, Worker
  <1>2. OnwardTo(Worker, Done(Worker))
    BY <1>1, DoneIs, BetweenIsOnward DEF Between
  <1>3. OnwardTo(Worker, [f EXCEPT !.at = "group"])
    <2>1. /\ [f EXCEPT !.at = "group"] \in Frames
          /\ [f EXCEPT !.at = "group"].at = "group"
      BY DEF Frames, Places
    <2> QED
      BY <1>1, <2>1 DEF OnwardTo, InShape
  <1> QED
    BY <1>2, <1>3 DEF ToGroup

LEMMA PollStep ==
  ASSUME SnapcastAssumption, ButtonsAssumption, IInv, Poll, UNCHANGED buttonVars
  PROVE  IInv'
  <1>0. Worker \in Callers /\ Worker # "hub"
    BY DEF Callers, Worker
  <1>1. PICK f : f = At(Worker, "wait")
    OBVIOUS
  <1>2. OnwardTo(Worker, f)
    BY <1>0, <1>1, AtIs, BetweenIsOnward DEF IInv, Places, Between
  <1>3. /\ server \in Servers /\ requests \in Seq(RequestType) /\ Len(requests) <= Capacity
        /\ status \in [group : [Clients -> Groups \cup {Nobody}], playing : Seq(StreamSet)]
        /\ IsInjective(status.playing) /\ overlapped \in [Callers -> BOOLEAN]
        /\ \A i \in DOMAIN requests : Queueable(requests[i])
    BY DEF IInv, Types
  <1>4. ButtonTypes'
    BY DEF IInv, ButtonTypes, buttonVars
  <1>5. UNCHANGED <<server, requests, overlapped>> /\ frame[Worker].at = "poll"
    BY DEF Poll
  <1>6. CASE Goto(Worker, f) /\ status' \in [group : {server.group}, playing : Playing]
    <2>1. server.group \in [Clients -> Groups \cup {Nobody}]
      BY <1>3 DEF Servers
    <2>2. status'.playing \in Playing
      BY <1>6
    <2>3. status'.playing \in Seq(StreamSet) /\ IsInjective(status'.playing)
      BY <1>3, <2>2, PlayingIsList
    <2>4. status' \in [group : [Clients -> Groups \cup {Nobody}], playing : Seq(StreamSet)]
      BY <1>6, <2>1, <2>3
    <2>5. f \in Frames /\ f.at # "dead" /\ InShape(Worker, f) /\ Fresh(Worker, f)
      BY <1>2 DEF OnwardTo, Fresh
    <2> QED
      BY <1>0, <1>3, <1>4, <1>5, <1>6, <2>3, <2>4, <2>5, GoStep
  <1>7. CASE TryAgain(Worker, f) /\ status' \in {status, Cleared}
    <2>1. /\ Cleared \in [group : [Clients -> Groups \cup {Nobody}], playing : Seq(StreamSet)]
          /\ IsInjective(Cleared.playing)
      BY DEF Cleared, IsInjective
    <2>2. /\ status' \in [group : [Clients -> Groups \cup {Nobody}], playing : Seq(StreamSet)]
          /\ IsInjective(status'.playing)
      BY <1>3, <1>7, <2>1
    <2>3. server' \in Servers /\ server'.muted = server.muted
          /\ server'.volume = server.volume
      BY <1>3, <1>5
    <2> QED
      BY <1>0, <1>2, <1>5, <1>7, <2>2, <2>3, TryStep
  <1> QED
    BY <1>1, <1>6, <1>7 DEF Poll

LEMMA TakeRequestStep ==
  ASSUME SnapcastAssumption, ButtonsAssumption, IInv, TakeRequest, UNCHANGED buttonVars
  PROVE  IInv'
  <1>0. Worker \in Callers /\ Worker # "hub"
    BY DEF Callers, Worker
  <1>1. requests # <<>> /\ requests' = Tail(requests)
        /\ UNCHANGED <<server, status, overlapped>>
    BY DEF TakeRequest
  <1>2. PICK r : r = Head(requests)
    OBVIOUS
  <1>3. requests \in Seq(RequestType) /\ Len(requests) <= Capacity
        /\ \A i \in DOMAIN requests : Queueable(requests[i])
    BY DEF IInv, Types
  <1>4. r \in RequestType /\ r = requests[1] /\ 1 \in DOMAIN requests
    BY <1>1, <1>2, <1>3
  <1>5. Queueable(r)
    BY <1>3, <1>4
  <1>6. /\ requests' \in Seq(RequestType) /\ Len(requests') = Len(requests) - 1
        /\ \A i \in 1 .. Len(requests') : requests'[i] = requests[i + 1]
    BY <1>1, <1>3, HeadTailProperties
  <1>7. Len(requests') <= Capacity /\ \A i \in DOMAIN requests' : Queueable(requests'[i])
    <2>1. Len(requests) \in Nat /\ Len(requests') \in Nat /\ Capacity \in Nat
          /\ DOMAIN requests' = 1 .. Len(requests') /\ DOMAIN requests = 1 .. Len(requests)
      BY <1>3, <1>6, SnapcastAssumption DEF SnapcastAssumption
    <2>2. \A i \in 1 .. Len(requests') : i + 1 \in DOMAIN requests
      BY <1>6, <2>1
    <2>3. Len(requests') <= Capacity
      BY <1>3, <1>6, <2>1
    <2>4. ASSUME NEW i \in DOMAIN requests' PROVE Queueable(requests'[i])
      <3>1. i \in 1 .. Len(requests')
        BY <2>1
      <3>2. Queueable(requests[i + 1])
        BY <1>3, <2>2, <3>1
      <3> QED
        BY <1>6, <3>1, <3>2
    <2> QED
      BY <2>3, <2>4
  <1>8. PICK g : g = At(Worker, "status")
    OBVIOUS
  <1>9. g \in Frames /\ g.at = "status"
    BY <1>0, <1>8, AtIs DEF IInv, Places
  <1>10. PICK f : f = [g EXCEPT !.job = r]
    OBVIOUS
  <1>11. f \in Frames /\ f.at = "status" /\ f.job = r
    BY <1>4, <1>9, <1>10, JobIs
  <1>12. PICK h : h = IF r.kind = "default" THEN ToGroup(f) ELSE f
    OBVIOUS
  <1>13. OnwardTo(Worker, h)
    <2>1. CASE r.kind = "default"
      BY <1>11, <1>12, <2>1, ToGroupIs
    <2>2. CASE r.kind # "default"
      BY <1>0, <1>5, <1>11, <1>12, <2>2 DEF OnwardTo, InShape, Queueable
    <2> QED
      BY <2>1, <2>2
  <1>14. Goto(Worker, h)
    BY <1>2, <1>8, <1>10, <1>11, <1>12 DEF TakeRequest
  <1>15. h \in Frames /\ h.at # "dead" /\ InShape(Worker, h) /\ Fresh(Worker, h)
    BY <1>13 DEF OnwardTo, Fresh
  <1>16. ButtonTypes'
    BY DEF IInv, ButtonTypes, buttonVars
  <1>17. /\ server \in Servers /\ overlapped \in [Callers -> BOOLEAN]
         /\ status \in [group : [Clients -> Groups \cup {Nobody}], playing : Seq(StreamSet)]
         /\ IsInjective(status.playing)
    BY DEF IInv, Types
  <1> QED
    BY <1>0, <1>1, <1>6, <1>7, <1>14, <1>15, <1>16, <1>17, GoStep

\* What follows the status: the worker writes back the one of volume and mute
\* flag that it does not change.
LEMMA WorkerStatusStep ==
  ASSUME SnapcastAssumption, ButtonsAssumption, IInv, WorkerStatus, UNCHANGED buttonVars
  PROVE  IInv'
  <1>0. Worker \in Callers /\ Worker # "hub"
    BY DEF Callers, Worker
  <1>1. frame[Worker].at = "status"
    BY DEF WorkerStatus
  <1>2. PICK d : d = Done(Worker)
    OBVIOUS
  <1>3. OnwardTo(Worker, d)
    BY <1>0, <1>2, DoneIs, BetweenIsOnward DEF Between
  <1>4. CASE Unserved(Worker, d)
    BY <1>0, <1>1, <1>3, <1>4, UnservedStep
  <1>5. CASE Refused(Worker, d)
    BY <1>0, <1>3, <1>5, RefusedStep
  <1>6. CASE StatusCall(Worker, AfterStatus)
    <2>1. PICK j : j = frame[Worker].job
      OBVIOUS
    <2>2. /\ j \in RequestType /\ j.kind \in {"volume", "change", "onoff"} /\ Excused(j)
      BY <1>0, <1>1, <2>1 DEF IInv, Types, Frames, InShape
    <2>3. PICK muted, volume : muted = server.muted[j.client]
                               /\ volume = server.volume[j.client] + j.step
      OBVIOUS
    <2>4. muted \in BOOLEAN
      BY <2>2, <2>3 DEF IInv, Types, Servers, RequestType
    <2>5. PICK f : f = AfterStatus
      OBVIOUS
    <2>6. \/ f = d
          \/ j.kind = "volume" /\ volume \in Volumes /\ f = Writing(Worker, muted, volume)
          \/ j.kind = "change" /\ f = Muting(Worker, FALSE)
          \/ f = ToGroup(At(Worker, "status"))
          \/ j.kind = "onoff" /\ f = Muting(Worker, ~muted)
      BY <1>2, <2>1, <2>2, <2>3, <2>5 DEF AfterStatus, Volumes
    <2>7. ASSUME j.kind = "volume", volume \in Volumes, f = Writing(Worker, muted, volume)
          PROVE  f \in Frames /\ f.at = "volume" /\ InShape(Worker, f) /\ Fresh(Worker, f)
      <3>1. f \in Frames /\ f.at = "volume" /\ f.job = j /\ f.mute = muted
        BY <1>0, <2>1, <2>4, <2>7, WritingIs DEF IInv
      <3> QED
        BY <1>0, <2>2, <2>3, <2>7, <3>1 DEF InShape, Fresh
    <2>8. ASSUME NEW mute \in BOOLEAN, f = Muting(Worker, mute), j.kind # "volume"
          PROVE  f \in Frames /\ f.at = "volume" /\ InShape(Worker, f) /\ Fresh(Worker, f)
      <3>1. f \in Frames /\ f.at = "volume" /\ f.job = j
            /\ f.volume = server.volume[j.client]
        BY <1>0, <2>1, <2>8, MutingIs DEF IInv
      <3> QED
        BY <1>0, <2>2, <2>8, <3>1 DEF InShape, Fresh
    <2>9. OnwardTo(Worker, ToGroup(At(Worker, "status")))
      <3>1. At(Worker, "status") \in Frames
        BY <1>0, AtIs DEF IInv, Places
      <3> QED
        BY <3>1, ToGroupIs
    <2>10. \/ OnwardTo(Worker, f)
           \/ f \in Frames /\ f.at = "volume" /\ InShape(Worker, f) /\ Fresh(Worker, f)
      <3>1. (~muted) \in BOOLEAN /\ FALSE \in BOOLEAN
        OBVIOUS
      <3>2. CASE j.kind = "change" /\ f = Muting(Worker, FALSE)
        BY <2>8, <3>1, <3>2
      <3>3. CASE j.kind = "onoff" /\ f = Muting(Worker, ~muted)
        BY <2>8, <3>1, <3>3
      <3> QED
        BY <1>3, <2>6, <2>7, <2>9, <3>2, <3>3
    <2> QED
      BY <1>0, <1>6, <2>5, <2>10, StatusStep
  <1> QED
    BY <1>2, <1>4, <1>5, <1>6 DEF WorkerStatus

\* Group.GetStatus: the process dies of the index only when nothing plays.
LEMMA WorkerGroupStep ==
  ASSUME SnapcastAssumption, ButtonsAssumption, IInv, WorkerGroup, UNCHANGED buttonVars
  PROVE  IInv'
  <1>0. Worker \in Callers /\ Worker # "hub"
    BY DEF Callers, Worker
  <1>1. frame[Worker].at = "group"
    BY DEF WorkerGroup
  <1>2. PICK d : d = Done(Worker)
    OBVIOUS
  <1>3. OnwardTo(Worker, d)
    BY <1>0, <1>2, DoneIs, BetweenIsOnward DEF Between
  <1>4. CASE Unserved(Worker, d)
    BY <1>0, <1>1, <1>3, <1>4, UnservedStep
  <1>5. CASE Refused(Worker, d)
    BY <1>0, <1>3, <1>5, RefusedStep
  <1>6. CASE GroupAnswered
    <2> DEFINE j == frame[Worker].job
               g == status.group[j.client]
               i == NextIndex(status.playing, server.stream[g], j.up)
               Setting(s) == [At(Worker, "stream") EXCEPT !.group = g, !.stream = s]
    <2>1. UNCHANGED <<server, status, requests, overlapped>>
      BY <1>6 DEF GroupAnswered
    <2>2. ButtonTypes'
      BY DEF IInv, ButtonTypes, buttonVars
    <2>3. j \in RequestType /\ g \in Groups \cup {Nobody} /\ j.up \in BOOLEAN
          /\ j.stream \in StreamSet
      BY <1>0 DEF IInv, Types, Frames, RequestType
    <2>4. \A s \in StreamSet : OnwardTo(Worker, Setting(s))
      <3>1. PICK h : h = At(Worker, "stream")
        OBVIOUS
      <3>2. h \in Frames /\ h.at = "stream"
        BY <1>0, <3>1, AtIs DEF IInv, Places
      <3> HIDE DEF j, g
      <3>3. ASSUME NEW s \in StreamSet
            PROVE  /\ [h EXCEPT !.group = g, !.stream = s] \in Frames
                   /\ [h EXCEPT !.group = g, !.stream = s].at = "stream"
        BY <2>3, <3>2 DEF Frames
      <3> QED
        BY <1>0, <3>1, <3>3 DEF OnwardTo, InShape
    <2>5. \/ \E s \in StreamSet : Goto(Worker, Setting(s))
          \/ Goto(Worker, d)
          \/ i \notin DOMAIN status.playing /\ frame' = [p \in Callers |-> At(p, "dead")]
      <3>1. status.playing \in Seq(StreamSet)
        BY DEF IInv, Types
      <3>2. \A k \in DOMAIN status.playing : status.playing[k] \in StreamSet
        BY <3>1
      <3>3. \/ Goto(Worker, IF Contains(status.playing, j.stream) THEN Setting(j.stream)
                                                                ELSE d)
            \/ i \in DOMAIN status.playing /\ Goto(Worker, Setting(status.playing[i]))
            \/ i \notin DOMAIN status.playing /\ frame' = [p \in Callers |-> At(p, "dead")]
        BY <1>2, <1>6, Zenon DEF GroupAnswered
      <3> HIDE DEF j, i, Setting
      <3> QED
        BY <2>3, <3>2, <3>3
    <2>6. ASSUME NEW f, OnwardTo(Worker, f), Goto(Worker, f) PROVE IInv'
      BY <1>0, <2>1, <2>2, <2>6, OnwardStep
    <2>7. CASE i \notin DOMAIN status.playing /\ frame' = [p \in Callers |-> At(p, "dead")]
      <3>1. status.playing = <<>>
        <4>1. status.playing \in Seq(StreamSet)
          BY DEF IInv, Types
        <4> HIDE DEF j, g
        <4> QED
          BY <2>3, <2>7, <4>1, NextIndexInList
      <3>2. \A p \in Callers : frame'[p] \in Frames /\ frame'[p].at = "dead"
        BY <2>7, AtIs DEF IInv, Places
      <3>3. Types'
        BY <2>1, <2>7, <3>2 DEF IInv, Types
      <3>4. DiesOnlyInSilence'
        BY <2>1, <3>1 DEF DiesOnlyInSilence
      <3> QED
        BY <2>1, <2>2, <3>2, <3>3, <3>4 DEF IInv, Queueable, Excused, InShape, Fresh
    <2> HIDE DEF i, Setting
    <2> QED
      BY <1>3, <2>4, <2>5, <2>6, <2>7
  <1> QED
    BY <1>2, <1>4, <1>5, <1>6 DEF WorkerGroup

LEMMA WorkerStreamStep ==
  ASSUME SnapcastAssumption, ButtonsAssumption, IInv, WorkerStream, UNCHANGED buttonVars
  PROVE  IInv'
  <1>0. Worker \in Callers /\ Worker # "hub"
    BY DEF Callers, Worker
  <1>1. frame[Worker].at = "stream"
    BY DEF WorkerStream
  <1>2. PICK d : d = Done(Worker)
    OBVIOUS
  <1>3. OnwardTo(Worker, d)
    BY <1>0, <1>2, DoneIs, BetweenIsOnward DEF Between
  <1>4. CASE Unserved(Worker, d)
    BY <1>0, <1>1, <1>3, <1>4, UnservedStep
  <1>5. CASE Refused(Worker, d)
    BY <1>0, <1>3, <1>5, RefusedStep
  <1>6. CASE /\ server' = [server EXCEPT !.stream[frame[Worker].group] = frame[Worker].stream]
             /\ Goto(Worker, d) \/ TryAgain(Worker, d)
             /\ UNCHANGED <<status, requests, overlapped>>
    <2>1. PICK s : s = [server.stream EXCEPT ![frame[Worker].group] = frame[Worker].stream]
      OBVIOUS
    <2>2. server \in Servers /\ frame[Worker].stream \in StreamSet
      BY <1>0 DEF IInv, Types, Frames
    <2>3. s \in [Groups -> StreamSet]
      BY <2>1, <2>2 DEF Servers
    <2>4. server' = [server EXCEPT !.stream = s]
      BY <1>6, <2>1
    <2>5. server' \in Servers /\ server'.muted = server.muted
          /\ server'.volume = server.volume
      BY <2>2, <2>3, <2>4 DEF Servers
    <2>6. /\ requests \in Seq(RequestType) /\ Len(requests) <= Capacity
          /\ status \in [group : [Clients -> Groups \cup {Nobody}], playing : Seq(StreamSet)]
          /\ IsInjective(status.playing) /\ overlapped \in [Callers -> BOOLEAN]
          /\ \A i \in DOMAIN requests : Queueable(requests[i])
      BY DEF IInv, Types
    <2>7. ButtonTypes'
      BY DEF IInv, ButtonTypes, buttonVars
    <2>8. CASE Goto(Worker, d)
      <3>1. d \in Frames /\ d.at # "dead" /\ InShape(Worker, d) /\ Fresh(Worker, d)
        BY <1>3 DEF OnwardTo, Fresh
      <3> QED
        BY <1>0, <1>6, <2>5, <2>6, <2>7, <2>8, <3>1, GoStep
    <2>9. CASE TryAgain(Worker, d)
      BY <1>0, <1>1, <1>3, <1>6, <2>5, <2>6, <2>9, TryStep
    <2> QED
      BY <1>6, <2>8, <2>9
  <1> QED
    BY <1>2, <1>4, <1>5, <1>6 DEF WorkerStream

-----------------------------------------------------------------------------
(* The invariant. *)

LEMMA NextInv ==
  ASSUME SnapcastAssumption, ButtonsAssumption, IInv, [Next]_vars
  PROVE  IInv'
  <1>0. Worker \in Callers
    BY DEF Callers
  <1>1. CASE Press
    BY <1>1, PressStep
  <1>2. CASE App /\ UNCHANGED buttonVars
    BY <1>2, AppStep
  <1>3. CASE RestRequest
    BY <1>3, RestRequestStep
  <1>4. CASE Rest
    BY <1>4, RestStep
  <1>5. CASE Hub
    BY <1>5, HubStep
  <1>6. CASE Output
    BY <1>6, OutputStep
  <1>7. CASE Run /\ UNCHANGED buttonVars
    <2>1. CASE Poll
      BY <1>7, <2>1, PollStep
    <2>2. CASE Tick
      <3>1. PICK f : f = At(Worker, "poll")
        OBVIOUS
      <3>2. OnwardTo(Worker, f)
        BY <1>0, <3>1, AtIs, BetweenIsOnward DEF IInv, Places, Between
      <3>3. ButtonTypes'
        BY <1>7 DEF IInv, ButtonTypes, buttonVars
      <3>4. Goto(Worker, f) /\ UNCHANGED <<server, status, requests, overlapped>>
        BY <2>2, <3>1 DEF Tick
      <3> QED
        BY <1>0, <3>2, <3>3, <3>4, OnwardStep
    <2>3. CASE TakeRequest
      BY <1>7, <2>3, TakeRequestStep
    <2>4. CASE WorkerStatus
      BY <1>7, <2>4, WorkerStatusStep
    <2>5. CASE VolumeCall(Worker, Done(Worker))
      <3>1. PICK d : d = Done(Worker)
        OBVIOUS
      <3>2. Between(d)
        BY <1>0, <3>1, DoneIs DEF Between
      <3> QED
        BY <1>0, <1>7, <2>5, <3>1, <3>2, VolumeStep
    <2>6. CASE WorkerGroup
      BY <1>7, <2>6, WorkerGroupStep
    <2>7. CASE WorkerStream
      BY <1>7, <2>7, WorkerStreamStep
    <2> QED
      BY <1>7, <2>1, <2>2, <2>3, <2>4, <2>5, <2>6, <2>7 DEF Run
  <1>8. CASE UNCHANGED vars
    BY <1>8 DEF vars, snapVars, buttonVars, IInv, Types, ButtonTypes, Queueable, Excused,
                InShape, Fresh, DiesOnlyInSilence, Crashed
  <1> QED
    BY <1>1, <1>2, <1>3, <1>4, <1>5, <1>6, <1>7, <1>8 DEF Next

\* The invariant of the buttons and their snapcast client holds in every state.
THEOREM SoundButtonsInvariant == Spec => []IInv
  <1>1. SnapcastAssumption /\ ButtonsAssumption
    BY SnapcastAssumption, ButtonsAssumption
  <1>2. Init => IInv
    BY <1>1, InitInv
  <1>3. IInv /\ [Next]_vars => IInv'
    BY <1>1, NextInv
  <1> QED
    BY <1>2, <1>3, PTL DEF Spec

\* The types of the server, the status, the queue and every goroutine's locals
\* are kept: the queue is no longer than its channel, a call is not tried more
\* often than the client allows, no volume leaves its range.
THEOREM TypesAreKept == Spec => []TypeOK
  <1>1. IInv => TypeOK
    <2> SUFFICES ASSUME IInv PROVE TypeOK
      OBVIOUS
    <2>1. /\ status.group \in [Clients -> Groups \cup {Nobody}]
          /\ ToSet(status.playing) \subseteq StreamSet /\ IsInjective(status.playing)
      BY DEF IInv, Types, ToSet
    <2>2. ToSet(requests) \subseteq RequestType /\ Len(requests) <= Capacity
      BY DEF IInv, Types, ToSet
    <2>3. server \in [muted : [Clients -> BOOLEAN], volume : [Clients -> 0 .. Top],
                      group : [Clients -> Groups], stream : [Groups -> StreamSet],
                      playing : SUBSET StreamSet]
      BY DEF IInv, Types, Servers, Volumes
    <2>4. \A p \in Callers : /\ frame[p].at \in Places /\ frame[p].job \in RequestType
                             /\ frame[p].volume \in 0 .. Top
                             /\ frame[p].tries \in 1 .. RetryMax
      BY DEF IInv, Types, Frames, Volumes
    <2>5. outputs \in 0 .. MaxPresses
      <3>1. Len(inbox) \in Nat /\ MaxPresses \in Nat
        BY ButtonsAssumption DEF ButtonsAssumption, IInv, ButtonTypes
      <3> QED
        BY <3>1 DEF IInv, ButtonTypes
    <2> QED
      BY <2>1, <2>2, <2>3, <2>4, <2>5 DEF TypeOK, IInv, Types, ButtonTypes, Places
  <1> QED
    BY <1>1, SoundButtonsInvariant, PTL

\* ClientChangeStream's index leaves the list of the playing streams, and the
\* process dies of it, only when the last poll found nothing playing
\* (snapcast/snapcast.go:228-250).
THEOREM IndexInRange == Spec => []DiesOnlyInSilence
  <1>1. IInv => DiesOnlyInSilence
    BY DEF IInv
  <1> QED
    BY <1>1, SoundButtonsInvariant, PTL

-----------------------------------------------------------------------------
(* What a write may change. *)

\* SetVolume is p's own in a step in which p is served.
LEMMA VolumeCallWrites ==
  ASSUME IInv, NEW p \in Callers, Writes(p), NEW q \in Callers, NEW f, VolumeCall(q, f)
  PROVE  SetVolume(p, frame[p].job.client, frame[p].mute, frame[p].volume)
  <1>1. server' # server
    BY DEF Writes
  <1>2. SetVolume(q, frame[q].job.client, frame[q].mute, frame[q].volume)
    BY <1>1 DEF VolumeCall, Unserved, Refused
  <1>3. ASSUME q # p PROVE FALSE
    <2> DEFINE c == frame[q].job.client
               mute == frame[q].mute
    <2>1. frame'[p] = MarkedFrame(frame[p], c, mute)
      BY <1>1, <1>3 DEF VolumeCall, Unserved, Refused
    <2>2. frame[p] \in Frames /\ mute \in BOOLEAN
      BY DEF IInv, Types, Frames
    <2> HIDE DEF c, mute
    <2>3. frame'[p].at = frame[p].at /\ frame'[p].tries = frame[p].tries
      BY <2>1, <2>2, MarkedFrameIs
    <2> QED
      BY <2>3 DEF Writes
  <1> QED
    BY <1>2, <1>3

LEMMA WriterStep ==
  ASSUME SnapcastAssumption, ButtonsAssumption, IInv, Next, NEW p \in Callers, Writes(p)
  PROVE  SetVolume(p, frame[p].job.client, frame[p].mute, frame[p].volume)
  <1>0. {Worker, "hub", "output", "rest"} \subseteq Callers
    BY DEF Callers
  <1>1. /\ server' # server /\ frame[p].at = "volume"
        /\ frame'[p].at # "volume" \/ frame'[p].tries # frame[p].tries
    BY DEF Writes
  <1>2. ~Press /\ ~RestRequest
    BY <1>1 DEF Press, RestRequest, snapVars
  <1>3. ~App
    <2>1. ~AppMoves
      BY <1>1 DEF AppMoves
    <2>2. ASSUME AppSetsVolume PROVE FALSE
      <3>1. PICK c \in Clients, mute \in BOOLEAN :
              frame' = [q \in Callers |-> MarkedFrame(frame[q], c, mute)]
        BY <2>2 DEF AppSetsVolume
      <3>2. frame'[p].at = frame[p].at /\ frame'[p].tries = frame[p].tries
        BY <3>1, MarkedFrameIs DEF IInv, Types
      <3> QED
        BY <1>1, <3>2
    <2> QED
      BY <2>1, <2>2 DEF App
  <1>4. CASE Rest
    <2>1. ~RestStatus
      BY <1>1 DEF RestStatus, StatusCall, Unserved, Refused
    <2> QED
      BY <1>0, <1>4, <2>1, VolumeCallWrites DEF Rest, RestVolume
  <1>5. CASE Hub
    <2>1. ~Register /\ ~Broadcast /\ ~Online("hub", Done("hub"))
      BY <1>1 DEF Register, Broadcast, Online, snapVars
    <2>2. ~ReceiveStatus /\ ~ReceiveSend
      BY <1>1 DEF ReceiveStatus, ReceiveSend, Send, StatusCall, Unserved, Refused
    <2> QED
      BY <1>0, <1>5, <2>1, <2>2, VolumeCallWrites DEF Hub, ReceiveVolume
  <1>6. CASE Output
    <2>1. ~OutputStart /\ ~Online("output", OutputReading)
      BY <1>1 DEF OutputStart, Online
    <2>2. ~OutputStatus /\ ~OutputSend
      BY <1>1 DEF OutputStatus, OutputSend, Send, StatusCall, Unserved, Refused
    <2> QED
      BY <1>0, <1>6, <2>1, <2>2, VolumeCallWrites DEF Output
  <1>7. CASE Run
    <2>1. ~Poll /\ ~Tick /\ ~TakeRequest
      BY <1>1 DEF Poll, Tick, TakeRequest
    <2>2. ~WorkerStatus
      BY <1>1 DEF WorkerStatus, StatusCall, Unserved, Refused
    <2>3. ~WorkerGroup
      BY <1>1, Zenon DEF WorkerGroup, GroupAnswered, Unserved, Refused
    <2>4. ASSUME WorkerStream PROVE FALSE
      <3>1. frame[Worker].at = "stream"
        BY <2>4 DEF WorkerStream
      <3>2. p # Worker
        BY <1>1, <3>1
      <3>3. frame'[p] = frame[p]
        BY <1>1, <2>4, <3>2 DEF WorkerStream, Unserved, Refused, TryAgain, Goto, IInv, Types
      <3> QED
        BY <1>1, <3>3
    <2> QED
      BY <1>0, <1>7, <2>1, <2>2, <2>3, <2>4, VolumeCallWrites DEF Run
  <1> QED
    BY <1>2, <1>3, <1>4, <1>5, <1>6, <1>7 DEF Next

\* What p wrote is what its frame says.
LEMMA WriterLeaves ==
  ASSUME SnapcastAssumption, ButtonsAssumption, IInv, Next, NEW p \in Callers, Writes(p)
  PROVE  /\ frame[p].at = "volume" /\ frame[p].job.client \in Clients
         /\ server'.muted[frame[p].job.client] = frame[p].mute
         /\ server'.volume[frame[p].job.client] = frame[p].volume
  <1> DEFINE c == frame[p].job.client
  <1>1. frame[p].at = "volume"
    BY DEF Writes
  <1>2. c \in Clients /\ frame[p].mute \in BOOLEAN /\ frame[p].volume \in Volumes
    BY DEF IInv, Types, Frames, RequestType
  <1>3. SetVolume(p, c, frame[p].mute, frame[p].volume)
    BY WriterStep
  <1>4. server \in Servers
    BY DEF IInv, Types
  <1>5. /\ server' \in Servers
        /\ server'.muted = [server.muted EXCEPT ![c] = frame[p].mute]
        /\ server'.volume = [server.volume EXCEPT ![c] = frame[p].volume]
    BY <1>2, <1>3, <1>4, Written
  <1> QED
    BY <1>1, <1>2, <1>4, <1>5 DEF Servers

\* Muting changes a volume, and a volume step mutes or unmutes, only when
\* another goroutine or the app wrote the client between the read and the
\* write (snapcast/snapcast.go:158-200).
THEOREM UpdatesAreKept == Spec => UpdateLostOnlyByOverlap
  <1> DEFINE Kept(p) ==
        LET c == frame[p].job.client
            step == p = Worker /\ frame[p].job.kind = "volume"
        IN  Writes(p) /\ ~overlapped[p] =>
              /\ step => server'.muted[c] = server.muted[c]
              /\ ~step => server'.volume[c] = server.volume[c]
  <1>1. IInv /\ [Next]_vars => [\A p \in Callers : Kept(p)]_vars
    <2> SUFFICES ASSUME IInv, Next, NEW p \in Callers, Writes(p), ~overlapped[p]
                 PROVE  LET c == frame[p].job.client
                            step == p = Worker /\ frame[p].job.kind = "volume"
                        IN  /\ step => server'.muted[c] = server.muted[c]
                            /\ ~step => server'.volume[c] = server.volume[c]
      OBVIOUS
    <2>1. /\ frame[p].at = "volume"
          /\ server'.muted[frame[p].job.client] = frame[p].mute
          /\ server'.volume[frame[p].job.client] = frame[p].volume
      BY WriterLeaves, SnapcastAssumption, ButtonsAssumption
    <2>2. Fresh(p, frame[p])
      BY DEF IInv
    <2> QED
      BY <2>1, <2>2 DEF Fresh
  <1> QED
    BY <1>1, SoundButtonsInvariant, PTL DEF Spec, UpdateLostOnlyByOverlap

\* A request from the queue unmutes its zone only if somebody muted it after
\* the button found it unmuted (sound/sound.go, unmuteIfMuted).
THEOREM UnmutedWhenOvertaken == Spec => UnmutedOnlyIfOvertaken
  <1>1. IInv /\ [Next]_vars =>
          [Writes(Worker) =>
             LET j == frame[Worker].job
             IN  server.muted[j.client] /\ ~server'.muted[j.client] => j.muted]_vars
    <2> SUFFICES ASSUME IInv, Writes(Worker)
                 PROVE  LET j == frame[Worker].job
                        IN  server.muted[j.client] => j.muted
      OBVIOUS
    <2>1. Worker \in Callers /\ frame[Worker].at = "volume"
      BY DEF Writes, Callers
    <2>2. Excused(frame[Worker].job)
      BY <2>1 DEF IInv, InShape
    <2> QED
      BY <2>2 DEF Excused
  <1> QED
    BY <1>1, SoundButtonsInvariant, PTL DEF Spec, UnmutedOnlyIfOvertaken
-----------------------------------------------------------------------------
(* What is left to do: every press costs a bounded number of steps. *)

\* The attempts a call still has, this one included.
Attempts(f) == RetryMax - f.tries + 1

\* What a request in the queue costs the worker at most: it is taken, and a
\* read, the group and the write are each tried RetryMax times; what a goroutine
\* of spotifyOutputOn costs, and what a press.
RequestCost == 3 * RetryMax + 1
OutputCost == RequestCost + 2 * RetryMax + 3
PressCost == OutputCost + 1

\* What p still costs at most, with what it will have queued.
CostAt(p, place, tries) ==
  CASE p = Worker /\ place = "status" -> 2 * RetryMax + tries
    [] p = Worker /\ place = "group" -> RetryMax + tries
    [] p = Worker /\ place \in {"volume", "stream"} -> tries
    [] p = "hub" /\ place = "status" -> RequestCost + 2 + RetryMax + tries
    [] p = "hub" /\ place = "volume" -> RequestCost + 2 + tries
    [] p = "hub" /\ place = "online" -> RequestCost + 2
    [] p = "hub" /\ place = "send" -> RequestCost + 1
    [] p = "output" /\ place = "online" -> RequestCost + 2 * RetryMax + 2
    [] p = "output" /\ place = "send" -> RequestCost + 2 * RetryMax + 1
    [] p \in {"output", "rest"} /\ place = "status" -> RetryMax + tries
    [] p \in {"output", "rest"} /\ place = "volume" -> tries
    [] OTHER -> IF p = Worker \/ place \in {"idle", "dead"} THEN 0 ELSE 1

Cost(p, f) == CostAt(p, f.at, Attempts(f))

\* The work: of the goroutines, and of what waits for them.
Calls == Cost(Worker, frame[Worker]) + Cost("hub", frame["hub"])
           + Cost("output", frame["output"]) + Cost("rest", frame["rest"])
PressWork == PressCost * Len(inbox)
OutputWork == OutputCost * outputs
RequestWork == RequestCost * Len(requests)
Waiting == PressWork + OutputWork + RequestWork + (Len(Zones) - registered)
Work == Waiting + Calls

\* The steps that work something off, and those of the poll and of the app.
Serving ==
  TakeRequest \/ WorkerStatus \/ VolumeCall(Worker, Done(Worker)) \/ WorkerGroup \/ WorkerStream
Working == Hub \/ Output \/ Rest \/ (Serving /\ UNCHANGED buttonVars)
Resting == (Poll \/ Tick \/ App) /\ UNCHANGED buttonVars

\* There are no other steps.
WorkedOff ==
  /\ Working \/ Resting \/ Press \/ RestRequest
  /\ Working => Work' < Work
  /\ Resting => Work' = Work
  /\ Press => Work' = Work + PressCost
  /\ RestRequest => Work' = Work + 2 * RetryMax

\* A call p makes is tried again.
Calling(p, place) ==
  place \in {"status", "volume"} \/ (p = Worker /\ place \in {"group", "stream"})

\* The costs at each place.
LEMMA Costs ==
  ASSUME SnapcastAssumption, NEW n \in 1 .. RetryMax
  PROVE  /\ CostAt(Worker, "status", n) = 2 * RetryMax + n
         /\ CostAt(Worker, "group", n) = RetryMax + n
         /\ CostAt(Worker, "volume", n) = n /\ CostAt(Worker, "stream", n) = n
         /\ CostAt("hub", "status", n) = RequestCost + 2 + RetryMax + n
         /\ CostAt("hub", "volume", n) = RequestCost + 2 + n
         /\ CostAt("hub", "online", n) = RequestCost + 2
         /\ CostAt("hub", "send", n) = RequestCost + 1
         /\ CostAt("output", "online", n) = RequestCost + 2 * RetryMax + 2
         /\ CostAt("output", "send", n) = RequestCost + 2 * RetryMax + 1
         /\ CostAt("output", "status", n) = RetryMax + n
         /\ CostAt("output", "volume", n) = n
         /\ CostAt("rest", "status", n) = RetryMax + n
         /\ CostAt("rest", "volume", n) = n
  BY DEF CostAt, Worker

LEMMA NoCost ==
  ASSUME NEW p \in Callers, NEW place, NEW n,
         place \in {"idle", "dead"} \/ (p = Worker /\ place \in {"poll", "wait"})
  PROVE  CostAt(p, place, n) = 0
  BY DEF CostAt, Callers, Worker

LEMMA CostsAreNat ==
  ASSUME SnapcastAssumption, NEW p \in Callers, NEW place \in Places, NEW n \in 1 .. RetryMax
  PROVE  CostAt(p, place, n) \in Nat
  <1>1. RetryMax \in Nat /\ n \in Nat /\ RequestCost \in Nat
    BY DEF SnapcastAssumption, RequestCost
  <1>2. /\ 2 * RetryMax + n \in Nat /\ RetryMax + n \in Nat /\ RequestCost + 2 \in Nat
        /\ RequestCost + 2 + RetryMax + n \in Nat /\ RequestCost + 2 + n \in Nat
        /\ RequestCost + 1 \in Nat /\ RequestCost + 2 * RetryMax + 2 \in Nat
        /\ RequestCost + 2 * RetryMax + 1 \in Nat
    BY <1>1
  <1>3. (IF p = Worker \/ place \in {"idle", "dead"} THEN 0 ELSE 1) \in Nat
    OBVIOUS
  <1> QED
    BY <1>1, <1>2, <1>3, Zenon DEF CostAt

\* An attempt less is a step less.
LEMMA CallCosts ==
  ASSUME SnapcastAssumption, NEW p \in Callers, NEW place \in Places, Calling(p, place),
         NEW n \in 1 .. RetryMax
  PROVE  CostAt(p, place, n) = CostAt(p, place, 1) + n - 1
  <1>1. RetryMax \in Nat \ {0} /\ n \in Nat
    BY DEF SnapcastAssumption
  <1> QED
    BY <1>1 DEF CostAt, Callers, Worker, RequestCost, Calling

LEMMA AttemptsLeft ==
  ASSUME SnapcastAssumption, NEW f \in Frames
  PROVE  /\ Attempts(f) \in 1 .. RetryMax
         /\ f.tries = 1 => Attempts(f) = RetryMax
         /\ f.at \in Places
  BY DEF SnapcastAssumption, Frames, Attempts

LEMMA CostIsNat ==
  ASSUME SnapcastAssumption, NEW p \in Callers, NEW f \in Frames
  PROVE  Cost(p, f) \in Nat
  BY AttemptsLeft, CostsAreNat DEF Cost

\* p comes nearer to its end, and the others stay where they are.
StaysAt(q) == frame'[q].at = frame[q].at /\ frame'[q].tries = frame[q].tries
Nears(p) ==
  /\ Cost(p, frame'[p]) < Cost(p, frame[p])
  /\ \A q \in Callers \ {p} : StaysAt(q)

LEMMA CallsMove ==
  ASSUME SnapcastAssumption, Types, Types', NEW p \in Callers,
         \A q \in Callers \ {p} : StaysAt(q)
  PROVE  /\ Calls \in Nat /\ Calls' \in Nat
         /\ Calls' + Cost(p, frame[p]) = Calls + Cost(p, frame'[p])
  <1>1. \A q \in Callers \ {p} : Cost(q, frame'[q]) = Cost(q, frame[q])
    BY DEF Cost, Attempts, StaysAt
  <1>2. \A q \in Callers : Cost(q, frame[q]) \in Nat /\ Cost(q, frame'[q]) \in Nat
    BY CostIsNat DEF Types
  <1>3. PICK old : old = [q \in Callers |-> Cost(q, frame[q])]
    OBVIOUS
  <1>4. PICK new : new = [q \in Callers |-> Cost(q, frame'[q])]
    OBVIOUS
  <1>5. Callers = {"worker", "hub", "output", "rest"}
    BY DEF Callers, Worker
  <1>6. /\ old \in [Callers -> Nat] /\ new \in [Callers -> Nat]
        /\ \A q \in Callers \ {p} : new[q] = old[q]
    BY <1>1, <1>2, <1>3, <1>4
  <1>7. /\ Calls = old["worker"] + old["hub"] + old["output"] + old["rest"]
        /\ Calls' = new["worker"] + new["hub"] + new["output"] + new["rest"]
    BY <1>3, <1>4, <1>5 DEF Calls, Worker
  <1>8. \A q \in {"worker", "hub", "output", "rest"} : old[q] \in Nat /\ new[q] \in Nat
    BY <1>5, <1>6
  <1>9. PICK a \in Nat, b \in Nat, c \in Nat, d \in Nat :
          a = old["worker"] /\ b = old["hub"] /\ c = old["output"] /\ d = old["rest"]
    BY <1>8
  <1>10. PICK e \in Nat, f \in Nat, g \in Nat, h \in Nat :
          e = new["worker"] /\ f = new["hub"] /\ g = new["output"] /\ h = new["rest"]
    BY <1>8
  <1>11. PICK x \in Nat, y \in Nat : x = old[p] /\ y = new[p]
    BY <1>6
  <1>12. \/ b = f /\ c = g /\ d = h /\ x = a /\ y = e
         \/ a = e /\ c = g /\ d = h /\ x = b /\ y = f
         \/ a = e /\ b = f /\ d = h /\ x = c /\ y = g
         \/ a = e /\ b = f /\ c = g /\ x = d /\ y = h
    BY <1>5, <1>6, <1>9, <1>10, <1>11
  <1>13. e + f + g + h + x = a + b + c + d + y
    BY <1>12
  <1>14. Calls = a + b + c + d /\ Calls' = e + f + g + h
    BY <1>7, <1>9, <1>10
  <1>15. a + b + c + d \in Nat /\ e + f + g + h \in Nat
    OBVIOUS
  <1>16. Cost(p, frame[p]) = x /\ Cost(p, frame'[p]) = y
    BY <1>3, <1>4, <1>11
  <1> QED
    BY <1>13, <1>14, <1>15, <1>16, Zenon

\* What waits, with one more or less of it.
LEMMA WeightOf ==
  ASSUME NEW k \in Nat, NEW m \in Nat, NEW n \in Nat
  PROVE  /\ k * m \in Nat
         /\ n = m => k * n = k * m
         /\ n = m + 1 => k * n = k * m + k
         /\ m = n + 1 => k * m = k * n + k
  OBVIOUS

LEMMA WeightsAreNat ==
  ASSUME SnapcastAssumption
  PROVE  RequestCost \in Nat /\ OutputCost \in Nat /\ PressCost \in Nat /\ RetryMax \in Nat \ {0}
  BY DEF SnapcastAssumption, RequestCost, OutputCost, PressCost

LEMMA WaitingIsNat ==
  ASSUME SnapcastAssumption, ButtonsAssumption, Types, ButtonTypes
  PROVE  /\ Waiting \in Nat
         /\ PressWork \in Nat /\ OutputWork \in Nat /\ RequestWork \in Nat
         /\ Len(Zones) - registered \in Nat
  <1>1. Len(inbox) \in Nat /\ outputs \in Nat /\ Len(requests) \in Nat
    BY DEF Types, ButtonTypes
  <1>2. Len(Zones) - registered \in Nat
    BY DEF ButtonsAssumption, ButtonTypes
  <1>3. PressWork \in Nat /\ OutputWork \in Nat /\ RequestWork \in Nat
    BY <1>1, WeightsAreNat, WeightOf DEF PressWork, OutputWork, RequestWork
  <1> QED
    BY <1>2, <1>3 DEF Waiting

\* A call of p brings it nearer to its end, and the queues are as long as before.
LEMMA NearsWork ==
  ASSUME SnapcastAssumption, ButtonsAssumption, Types, ButtonTypes, Types', ButtonTypes',
         NEW p \in Callers, Nears(p), Len(requests') = Len(requests), UNCHANGED buttonVars
  PROVE  Work' < Work
  <1>1. Waiting' = Waiting /\ Waiting \in Nat
    BY WaitingIsNat DEF Waiting, PressWork, OutputWork, RequestWork, buttonVars
  <1>2. /\ Calls \in Nat /\ Calls' \in Nat
        /\ Calls' + Cost(p, frame[p]) = Calls + Cost(p, frame'[p])
    BY CallsMove DEF Nears
  <1>3. PICK old : old = Cost(p, frame[p])
    OBVIOUS
  <1>4. PICK new : new = Cost(p, frame'[p])
    OBVIOUS
  <1>5. old \in Nat /\ new \in Nat
    BY <1>3, <1>4, CostIsNat DEF Types
  <1>6. new < old
    BY <1>3, <1>4 DEF Nears
  <1>7. Calls' + old = Calls + new
    BY <1>2, <1>3, <1>4
  <1>8. PICK w : w = Waiting
    OBVIOUS
  <1>9. PICK c : c = Calls
    OBVIOUS
  <1>10. PICK d : d = Calls'
    OBVIOUS
  <1>11. /\ w \in Nat /\ c \in Nat /\ d \in Nat /\ d + old = c + new
         /\ Work = w + c /\ Work' = w + d
    BY <1>1, <1>2, <1>7, <1>8, <1>9, <1>10 DEF Work
  <1>12. w + d < w + c
    BY <1>5, <1>6, <1>11
  <1> QED
    BY <1>11, <1>12

\* f is less work than p's call, however often it has been tried.
Cheaper(p, f) ==
  /\ Calling(p, frame[p].at)
  /\ f \in Frames /\ Cost(p, f) < CostAt(p, frame[p].at, 1)

\* p's frame becomes f, and nobody else's changes.
LEMMA GotoFrames ==
  ASSUME Types, NEW p \in Callers, NEW f, Goto(p, f)
  PROVE  frame'[p] = f /\ \A q \in Callers \ {p} : frame'[q] = frame[q]
  BY DEF Types, Goto

LEMMA CheaperIs ==
  ASSUME SnapcastAssumption, Types, NEW p \in Callers, NEW f, Cheaper(p, f)
  PROVE  Cost(p, f) < Cost(p, frame[p])
  <1>1. PICK n \in 1 .. RetryMax : n = Attempts(frame[p])
    BY AttemptsLeft DEF Types
  <1>2. PICK place \in Places : place = frame[p].at
    BY AttemptsLeft DEF Types
  <1>3. 1 \in 1 .. RetryMax
    BY DEF SnapcastAssumption
  <1>4. PICK c : c = CostAt(p, place, 1)
    OBVIOUS
  <1>5. CostAt(p, place, n) = c + n - 1
    BY <1>2, <1>4, CallCosts DEF Cheaper
  <1>6. c \in Nat
    BY <1>3, <1>4, CostsAreNat
  <1>7. PICK d : d = Cost(p, f)
    OBVIOUS
  <1>8. d \in Nat /\ d < c
    BY <1>2, <1>4, <1>7, CostIsNat DEF Cheaper
  <1>9. Cost(p, frame[p]) = c + n - 1
    BY <1>1, <1>2, <1>5 DEF Cost
  <1>10. n \in Nat /\ 1 <= n
    BY <1>1, <1>3
  <1>11. d < c + n - 1
    BY <1>6, <1>8, <1>10
  <1> QED
    BY <1>7, <1>9, <1>11

\* One attempt more made is one less to make.
LEMMA TriedCosts ==
  ASSUME SnapcastAssumption, NEW p \in Callers, NEW f \in Frames, Calling(p, f.at),
         NEW g \in Frames, g.at = f.at, g.tries = f.tries + 1
  PROVE  Cost(p, g) < Cost(p, f)
  <1>1. PICK n \in 1 .. RetryMax : n = Attempts(f)
    BY AttemptsLeft
  <1>2. PICK m \in 1 .. RetryMax : m = Attempts(g)
    BY AttemptsLeft
  <1>3. m + 1 = n
    BY <1>1, <1>2 DEF Attempts, Frames, SnapcastAssumption
  <1>4. PICK place \in Places : place = f.at
    BY AttemptsLeft
  <1>5. 1 \in 1 .. RetryMax
    BY DEF SnapcastAssumption
  <1>6. PICK c : c = CostAt(p, place, 1)
    OBVIOUS
  <1>7. CostAt(p, place, n) = c + n - 1 /\ CostAt(p, place, m) = c + m - 1
    BY <1>4, <1>6, CallCosts
  <1>8. c \in Nat
    BY <1>5, <1>6, CostsAreNat
  <1>9. Cost(p, f) = c + n - 1 /\ Cost(p, g) = c + m - 1
    BY <1>1, <1>2, <1>4, <1>7 DEF Cost
  <1>10. c + m - 1 < c + n - 1
    BY <1>3, <1>8, SnapcastAssumption DEF SnapcastAssumption
  <1> QED
    BY <1>9, <1>10

\* A call of p is answered, refused, or tried again.
LEMMA CallNears ==
  ASSUME SnapcastAssumption, Types, Types', NEW p \in Callers, NEW f, Cheaper(p, f),
         Goto(p, f) \/ TryAgain(p, f)
  PROVE  Nears(p)
  <1>1. CASE Goto(p, f)
    BY <1>1, GotoFrames, CheaperIs DEF Nears, StaysAt
  <1>2. CASE frame[p].tries < RetryMax /\ frame' = [frame EXCEPT ![p].tries = @ + 1]
    <2>1. PICK old : old = frame[p]
      OBVIOUS
    <2>2. PICK g : g = [old EXCEPT !.tries = @ + 1]
      OBVIOUS
    <2>3. old \in Frames /\ old.tries < RetryMax
      BY <1>2, <2>1 DEF Types
    <2>4. g.at = old.at /\ g.tries = old.tries + 1
      BY <2>2, <2>3 DEF Frames
    <2>5. Goto(p, g)
      BY <1>2, <2>1, <2>2 DEF Goto, Types
    <2>6. frame'[p] = g /\ \A q \in Callers \ {p} : frame'[q] = frame[q]
      BY <2>5, GotoFrames
    <2>7. g \in Frames
      BY <2>6 DEF Types
    <2>8. Cost(p, g) < Cost(p, old)
      BY <2>1, <2>3, <2>4, <2>7, TriedCosts DEF Cheaper
    <2> QED
      BY <2>1, <2>6, <2>8 DEF Nears, StaysAt
  <1> QED
    BY <1>1, <1>2 DEF TryAgain

LEMMA UnansweredNears ==
  ASSUME SnapcastAssumption, Types, Types', NEW p \in Callers, NEW f, Cheaper(p, f),
         Unserved(p, f) \/ Refused(p, f)
  PROVE  Nears(p) /\ requests' = requests
  <1>1. (Goto(p, f) \/ TryAgain(p, f)) /\ requests' = requests
    BY DEF Unserved, Refused
  <1> QED
    BY <1>1, CallNears

\* The queue is as long after a write as before, whatever is marked in it.
LEMMA MarkedLength ==
  ASSUME Types, NEW c, NEW mute \in BOOLEAN,
         requests' = [i \in DOMAIN requests |-> Marked(requests[i], c, mute)]
  PROVE  Len(requests') = Len(requests)
  <1>1. \A i \in DOMAIN requests : Marked(requests[i], c, mute) \in RequestType
    BY MarkedIs DEF Types
  <1> QED
    BY <1>1, Replaced DEF Types

LEMMA MarkedStay ==
  ASSUME Types, NEW q \in Callers, NEW c, NEW mute \in BOOLEAN,
         frame'[q] = MarkedFrame(frame[q], c, mute)
  PROVE  StaysAt(q)
  BY MarkedFrameIs DEF Types, StaysAt

\* A write that is served brings its goroutine nearer, answered or not; what it
\* marks of the others is no work.
LEMMA VolumeNears ==
  ASSUME SnapcastAssumption, Types, Types', NEW p \in Callers, NEW f, VolumeCall(p, f),
         Cheaper(p, f)
  PROVE  Nears(p) /\ Len(requests') = Len(requests)
  <1>1. CASE Unserved(p, f) \/ Refused(p, f)
    BY <1>1, UnansweredNears
  <1>2. CASE ~(Unserved(p, f) \/ Refused(p, f))
    <2>1. PICK old : old = frame[p]
      OBVIOUS
    <2>2. PICK c : c = old.job.client
      OBVIOUS
    <2>3. old \in Frames /\ old.mute \in BOOLEAN
      BY <2>1 DEF Types, Frames
    <2>4. /\ requests' = [i \in DOMAIN requests |-> Marked(requests[i], c, old.mute)]
          /\ \/ frame' = [q \in Callers |-> IF q = p THEN f
                                            ELSE MarkedFrame(frame[q], c, old.mute)]
             \/ frame' = [q \in Callers |->
                  IF q # p THEN MarkedFrame(frame[q], c, old.mute)
                  ELSE IF old.tries = RetryMax THEN f
                  ELSE [MarkedFrame(old, c, old.mute) EXCEPT !.tries = @ + 1]]
      BY <1>2, <2>1, <2>2, Zenon DEF VolumeCall
    <2>5. Len(requests') = Len(requests)
      BY <2>3, <2>4, MarkedLength
    <2>6. \A q \in Callers \ {p} : frame'[q] = MarkedFrame(frame[q], c, old.mute)
      BY <2>4
    <2>7. \A q \in Callers \ {p} : StaysAt(q)
      BY <2>3, <2>6, MarkedStay
    <2>8. CASE frame'[p] = f
      <3>1. Cost(p, f) < Cost(p, frame[p])
        BY CheaperIs
      <3>2. Cost(p, frame'[p]) < Cost(p, frame[p])
        BY <2>8, <3>1, Zenon
      <3> QED
        BY <2>5, <2>7, <3>2, Zenon DEF Nears
    <2>9. CASE frame'[p] = [MarkedFrame(old, c, old.mute) EXCEPT !.tries = @ + 1]
      <3>1. PICK h : h = MarkedFrame(old, c, old.mute)
        OBVIOUS
      <3>2. h \in Frames /\ h.at = old.at /\ h.tries = old.tries
        BY <2>3, <3>1, MarkedFrameIs
      <3>3. PICK g : g = [h EXCEPT !.tries = @ + 1]
        OBVIOUS
      <3>4. g.at = old.at /\ g.tries = old.tries + 1
        BY <3>2, <3>3 DEF Frames
      <3>5. frame'[p] = g
        BY <2>9, <3>1, <3>3
      <3>6. g \in Frames
        BY <3>5 DEF Types
      <3>7. Cost(p, g) < Cost(p, old)
        BY <2>1, <2>3, <3>4, <3>6, TriedCosts DEF Cheaper
      <3>8. Cost(p, frame'[p]) < Cost(p, frame[p])
        BY <2>1, <3>5, <3>7, Zenon
      <3> QED
        BY <2>5, <2>7, <3>8, Zenon DEF Nears
    <2> QED
      BY <2>4, <2>8, <2>9
  <1> QED
    BY <1>1, <1>2

\* The status is answered.
LEMMA StatusNears ==
  ASSUME SnapcastAssumption, Types, Types', NEW p \in Callers, NEW f, Cheaper(p, f),
         StatusCall(p, f)
  PROVE  Nears(p) /\ requests' = requests
  BY CallNears DEF StatusCall

\* The costs of the frames that goroutines go on at.
LEMMA DoneCosts ==
  ASSUME SnapcastAssumption, ButtonsAssumption, NEW p \in Callers
  PROVE  Done(p) \in Frames /\ Cost(p, Done(p)) = 0
  <1>1. PICK d : d = Done(p)
    OBVIOUS
  <1>2. d \in Frames
    BY <1>1, DoneIs
  <1>3. d.at = IF p = Worker THEN "poll" ELSE "idle"
    BY <1>1, IdleFrameType DEF Done, Frames
  <1> QED
    BY <1>1, <1>2, <1>3, NoCost DEF Cost

LEMMA AtCosts ==
  ASSUME SnapcastAssumption, Types, NEW p \in Callers, NEW l \in Places
  PROVE  At(p, l) \in Frames /\ Cost(p, At(p, l)) = CostAt(p, l, RetryMax)
  <1>1. PICK f : f = At(p, l)
    OBVIOUS
  <1>2. f \in Frames /\ f.at = l
    BY <1>1, AtIs
  <1>3. frame[p] \in Frames
    BY DEF Types
  <1>4. f.tries = 1
    BY <1>1, <1>3 DEF At, Frames
  <1> QED
    BY <1>1, <1>2, <1>4, AttemptsLeft DEF Cost

LEMMA ReadingCosts ==
  ASSUME SnapcastAssumption, NEW p \in Callers, NEW f \in Frames, NEW r \in RequestType
  PROVE  Reading(f, r) \in Frames /\ Cost(p, Reading(f, r)) = CostAt(p, "status", RetryMax)
  <1>1. PICK g : g = Reading(f, r)
    OBVIOUS
  <1>2. g \in Frames /\ g.at = "status"
    BY <1>1, ReadingIs
  <1>3. g.tries = 1
    BY <1>1 DEF Reading, Frames
  <1> QED
    BY <1>1, <1>2, <1>3, AttemptsLeft DEF Cost

LEMMA WritingCosts ==
  ASSUME SnapcastAssumption, Types, NEW p \in Callers, NEW mute \in BOOLEAN,
         NEW volume \in Volumes
  PROVE  /\ Writing(p, mute, volume) \in Frames
         /\ Cost(p, Writing(p, mute, volume)) = CostAt(p, "volume", RetryMax)
  <1>1. PICK g : g = At(p, "volume")
    OBVIOUS
  <1>2. g \in Frames /\ Cost(p, g) = CostAt(p, "volume", RetryMax)
    BY <1>1, AtCosts DEF Places
  <1>3. PICK f : f = Writing(p, mute, volume)
    OBVIOUS
  <1>4. f = [g EXCEPT !.mute = mute, !.volume = volume]
    BY <1>1, <1>3 DEF Writing
  <1>5. f \in Frames /\ f.at = g.at /\ f.tries = g.tries
    BY <1>2, <1>4 DEF Frames
  <1> QED
    BY <1>2, <1>3, <1>5 DEF Cost, Attempts

LEMMA MutingCosts ==
  ASSUME SnapcastAssumption, Types, NEW p \in Callers, NEW mute \in BOOLEAN
  PROVE  /\ Muting(p, mute) \in Frames
         /\ Cost(p, Muting(p, mute)) = CostAt(p, "volume", RetryMax)
  <1>1. frame[p].job.client \in Clients
    BY DEF Types, Frames, RequestType
  <1>2. server.volume[frame[p].job.client] \in Volumes
    BY <1>1 DEF Types, Servers
  <1> QED
    BY <1>2, WritingCosts DEF Muting

\* A call costs something; reading costs more than writing after it.
LEMMA CallComparisons ==
  ASSUME SnapcastAssumption, NEW p \in Callers
  PROVE  /\ \A place \in Places : Calling(p, place) => 0 < CostAt(p, place, 1)
         /\ CostAt(p, "volume", RetryMax) < CostAt(p, "status", 1)
  <1>1. RetryMax \in Nat \ {0} /\ RequestCost \in Nat
    BY WeightsAreNat
  <1>2. ASSUME NEW place \in Places, Calling(p, place) PROVE 0 < CostAt(p, place, 1)
    BY <1>1, <1>2 DEF CostAt, Callers, Worker, Calling
  <1>3. CostAt(p, "volume", RetryMax) < CostAt(p, "status", 1)
    BY <1>1 DEF CostAt, Callers, Worker
  <1> QED
    BY <1>2, <1>3

LEMMA DoneCheaper ==
  ASSUME SnapcastAssumption, ButtonsAssumption, Types, NEW p \in Callers,
         Calling(p, frame[p].at)
  PROVE  Cheaper(p, Done(p))
  <1>1. PICK place \in Places : place = frame[p].at
    BY AttemptsLeft DEF Types
  <1> QED
    BY <1>1, DoneCosts, CallComparisons DEF Cheaper

LEMMA MutingCheaper ==
  ASSUME SnapcastAssumption, Types, NEW p \in Callers, frame[p].at = "status",
         NEW mute \in BOOLEAN
  PROVE  Cheaper(p, Muting(p, mute))
  BY MutingCosts, CallComparisons DEF Cheaper, Calling

\* A step of a call whose other ends are no work.
LEMMA ReadNears ==
  ASSUME SnapcastAssumption, ButtonsAssumption, Types, Types', NEW p \in Callers,
         frame[p].at = "status", NEW f, Cheaper(p, f),
         StatusCall(p, f) \/ Unserved(p, Done(p)) \/ Refused(p, Done(p))
  PROVE  Nears(p) /\ Len(requests') = Len(requests)
  <1>1. PICK d : d = Done(p)
    OBVIOUS
  <1>2. Cheaper(p, d)
    BY <1>1, DoneCheaper DEF Calling
  <1>3. CASE StatusCall(p, f)
    BY <1>3, StatusNears
  <1>4. CASE Unserved(p, d) \/ Refused(p, d)
    BY <1>2, <1>4, UnansweredNears
  <1> QED
    BY <1>1, <1>3, <1>4

\* REST requests.
LEMMA RestNears ==
  ASSUME SnapcastAssumption, ButtonsAssumption, Types, Types', Rest
  PROVE  Nears("rest") /\ Len(requests') = Len(requests) /\ UNCHANGED buttonVars
  <1>0. "rest" \in Callers
    BY DEF Callers
  <1>1. CASE RestStatus
    <2>1. PICK mute : mute = frame["rest"].mute
      OBVIOUS
    <2>2. mute \in BOOLEAN /\ frame["rest"].at = "status"
      BY <1>0, <1>1, <2>1 DEF Types, Frames, RestStatus
    <2>3. PICK f : f = Muting("rest", mute)
      OBVIOUS
    <2>4. Cheaper("rest", f)
      BY <1>0, <2>2, <2>3, MutingCheaper
    <2>5. StatusCall("rest", f) \/ Unserved("rest", Done("rest")) \/ Refused("rest", Done("rest"))
      BY <1>1, <2>1, <2>3, Zenon DEF RestStatus
    <2>6. UNCHANGED buttonVars
      BY <1>1 DEF RestStatus
    <2> QED
      BY <1>0, <2>2, <2>4, <2>5, <2>6, ReadNears
  <1>2. CASE RestVolume
    <2>1. PICK d : d = Done("rest")
      OBVIOUS
    <2>2. VolumeCall("rest", d) /\ UNCHANGED buttonVars
      BY <1>2, <2>1 DEF RestVolume
    <2>3. frame["rest"].at = "volume"
      BY <2>2 DEF VolumeCall
    <2>4. Cheaper("rest", d)
      BY <1>0, <2>1, <2>3, DoneCheaper DEF Calling
    <2> QED
      BY <1>0, <2>2, <2>4, VolumeNears
  <1> QED
    BY <1>1, <1>2 DEF Rest

\* The status is answered to the hub's goroutine (sound/sound.go:58-125).
LEMMA ReceiveStatusNears ==
  ASSUME SnapcastAssumption, ButtonsAssumption, Types, Types', ReceiveStatus
  PROVE  Nears("hub") /\ Len(requests') = Len(requests) /\ UNCHANGED buttonVars
  <1>0. "hub" \in Callers /\ "hub" # Worker
    BY DEF Callers, Worker
  <1>1. frame["hub"].at = "status" /\ UNCHANGED buttonVars
    BY DEF ReceiveStatus
  <1>2. PICK f : f = Unmuted
    OBVIOUS
  <1>3. \/ f = Muting("hub", FALSE) \/ f = Muting("hub", TRUE)
        \/ f = Done("hub") \/ f = At("hub", "send")
    BY <1>2 DEF Unmuted
  <1>4. Cheaper("hub", At("hub", "send"))
    <2>1. PICK g : g = At("hub", "send")
      OBVIOUS
    <2>2. g \in Frames /\ Cost("hub", g) = CostAt("hub", "send", RetryMax)
      BY <1>0, <2>1, AtCosts DEF Places
    <2>3. CostAt("hub", "send", RetryMax) < CostAt("hub", "status", 1)
      BY <1>0, WeightsAreNat DEF CostAt
    <2> QED
      BY <1>1, <2>1, <2>2, <2>3 DEF Cheaper, Calling
  <1>5. Cheaper("hub", f)
    BY <1>0, <1>1, <1>3, <1>4, DoneCheaper, MutingCheaper DEF Calling
  <1>6. StatusCall("hub", f) \/ Unserved("hub", Done("hub")) \/ Refused("hub", Done("hub"))
    BY <1>2, Zenon DEF ReceiveStatus
  <1> QED
    BY <1>0, <1>1, <1>5, <1>6, ReadNears

LEMMA ReceiveVolumeNears ==
  ASSUME SnapcastAssumption, ButtonsAssumption, Types, Types', ReceiveVolume
  PROVE  Nears("hub") /\ Len(requests') = Len(requests) /\ UNCHANGED buttonVars
  <1>0. "hub" \in Callers /\ "hub" # Worker
    BY DEF Callers, Worker
  <1>1. PICK g : g = At("hub", "online")
    OBVIOUS
  <1>2. g \in Frames /\ Cost("hub", g) = CostAt("hub", "online", RetryMax)
    BY <1>0, <1>1, AtCosts DEF Places
  <1>3. CostAt("hub", "online", RetryMax) < CostAt("hub", "volume", 1)
    BY <1>0, WeightsAreNat DEF CostAt
  <1>4. PICK d : d = Done("hub")
    OBVIOUS
  <1>5. PICK f \in {g, d} : VolumeCall("hub", f)
    BY <1>1, <1>4, Zenon DEF ReceiveVolume
  <1>6. frame["hub"].at = "volume"
    BY <1>5 DEF VolumeCall
  <1>7. Cheaper("hub", g)
    BY <1>2, <1>3, <1>6 DEF Cheaper, Calling
  <1>8. Cheaper("hub", d)
    BY <1>0, <1>4, <1>6, DoneCheaper DEF Calling
  <1>9. Cheaper("hub", f)
    BY <1>5, <1>7, <1>8
  <1>10. UNCHANGED buttonVars
    BY DEF ReceiveVolume
  <1> QED
    BY <1>0, <1>5, <1>9, <1>10, VolumeNears

\* ensureOnline (sound/sound.go:168-178).
LEMMA OnlineNears ==
  ASSUME SnapcastAssumption, ButtonsAssumption, Types, NEW p \in {"hub", "output"},
         NEW f \in Frames, Cost(p, f) < CostAt(p, "online", 1), Online(p, f)
  PROVE  Nears(p) /\ Len(requests') = Len(requests) /\ UNCHANGED buttonVars
  <1>0. p \in Callers /\ p # Worker
    BY DEF Callers, Worker
  <1>1. PICK h : h = At(p, "send")
    OBVIOUS
  <1>2. h \in Frames /\ Cost(p, h) = CostAt(p, "send", RetryMax)
    BY <1>0, <1>1, AtCosts DEF Places
  <1>3. PICK r : r = SetDefaultChannelReq(TvZone, MorningStream)
    OBVIOUS
  <1>4. PICK g : g = [h EXCEPT !.job = r]
    OBVIOUS
  <1>5. g.at = h.at /\ g.tries = h.tries
    BY <1>2, <1>4 DEF Frames
  <1>6. Cost(p, g) = CostAt(p, "send", RetryMax)
    BY <1>2, <1>5 DEF Cost, Attempts
  <1>7. CostAt(p, "send", RetryMax) < CostAt(p, "online", 1)
    BY WeightsAreNat DEF CostAt, Worker
  <1>8. /\ frame[p].at = "online"
        /\ Goto(p, f) \/ Goto(p, g)
        /\ requests' = requests /\ UNCHANGED buttonVars
    BY <1>1, <1>3, <1>4, Zenon DEF Online
  <1>9. Cost(p, frame[p]) = CostAt(p, "online", 1)
    <2>1. CostAt(p, "online", Attempts(frame[p])) = CostAt(p, "online", 1)
      BY <1>0 DEF CostAt, Worker
    <2> QED
      BY <1>8, <2>1 DEF Cost
  <1>10. /\ frame'[p] = f \/ frame'[p] = g
         /\ \A q \in Callers \ {p} : frame'[q] = frame[q]
    BY <1>0, <1>8, GotoFrames
  <1>11. Cost(p, frame'[p]) < Cost(p, frame[p])
    BY <1>6, <1>7, <1>9, <1>10
  <1> QED
    BY <1>8, <1>10, <1>11 DEF Nears, StaysAt

\* A request with a group costs its calls from there on, one without nothing.
LEMMA ToGroupCosts ==
  ASSUME SnapcastAssumption, ButtonsAssumption, NEW f \in Frames, f.tries = 1
  PROVE  /\ ToGroup(f) \in Frames
         /\ Cost(Worker, ToGroup(f)) \in {0, CostAt(Worker, "group", RetryMax)}
  <1>1. Worker \in Callers
    BY DEF Callers
  <1>2. PICK g : g = [f EXCEPT !.at = "group"]
    OBVIOUS
  <1>3. g \in Frames /\ g.at = "group" /\ g.tries = 1
    BY <1>2 DEF Frames, Places
  <1>4. Cost(Worker, g) = CostAt(Worker, "group", RetryMax)
    BY <1>3, AttemptsLeft DEF Cost
  <1>5. PICK d : d = Done(Worker)
    OBVIOUS
  <1>6. d \in Frames /\ Cost(Worker, d) = 0
    BY <1>1, <1>5, DoneCosts
  <1>7. ToGroup(f) = d \/ ToGroup(f) = g
    BY <1>2, <1>5 DEF ToGroup
  <1> QED
    BY <1>3, <1>4, <1>6, <1>7

\* The worker's three calls, from the last one.
LEMMA WorkerStreamNears ==
  ASSUME SnapcastAssumption, ButtonsAssumption, Types, Types', WorkerStream
  PROVE  Nears(Worker) /\ Len(requests') = Len(requests)
  <1>1. PICK d : d = Done(Worker)
    OBVIOUS
  <1>2. Worker \in Callers /\ frame[Worker].at = "stream"
    BY DEF Callers, WorkerStream
  <1>3. Cheaper(Worker, d)
    BY <1>1, <1>2, DoneCheaper DEF Calling
  <1>4. (Goto(Worker, d) \/ TryAgain(Worker, d)) /\ requests' = requests
    BY <1>1 DEF WorkerStream, Unserved, Refused
  <1> QED
    BY <1>2, <1>3, <1>4, CallNears

LEMMA WorkerVolumeNears ==
  ASSUME SnapcastAssumption, ButtonsAssumption, Types, Types', VolumeCall(Worker, Done(Worker))
  PROVE  Nears(Worker) /\ Len(requests') = Len(requests)
  <1>1. PICK d : d = Done(Worker)
    OBVIOUS
  <1>2. VolumeCall(Worker, d) /\ Worker \in Callers
    BY <1>1 DEF Callers
  <1>3. frame[Worker].at = "volume"
    BY <1>2 DEF VolumeCall
  <1>4. Cheaper(Worker, d)
    BY <1>1, <1>2, <1>3, DoneCheaper DEF Calling
  <1> QED
    BY <1>2, <1>4, VolumeNears

\* Group.GetStatus: the next is the last call, or none, or the process is dead.
LEMMA WorkerGroupNears ==
  ASSUME SnapcastAssumption, ButtonsAssumption, Types, Types', WorkerGroup
  PROVE  /\ Len(requests') = Len(requests)
         /\ Nears(Worker) \/ \A p \in Callers : frame'[p].at = "dead"
  <1>0. Worker \in Callers /\ frame[Worker].at = "group"
    BY DEF Callers, WorkerGroup
  <1>1. PICK d : d = Done(Worker)
    OBVIOUS
  <1>2. Cheaper(Worker, d)
    BY <1>0, <1>1, DoneCheaper DEF Calling
  <1>3. CASE Unserved(Worker, d) \/ Refused(Worker, d)
    BY <1>0, <1>2, <1>3, UnansweredNears
  <1>4. CASE GroupAnswered
    <2>1. PICK h : h = At(Worker, "stream")
      OBVIOUS
    <2>2. h \in Frames /\ Cost(Worker, h) = CostAt(Worker, "stream", RetryMax)
      BY <1>0, <2>1, AtCosts DEF Places
    <2>3. CostAt(Worker, "stream", RetryMax) < CostAt(Worker, "group", 1)
      BY WeightsAreNat DEF CostAt, Worker
    <2>4. PICK g : g = status.group[frame[Worker].job.client]
      OBVIOUS
    <2>5. \/ Goto(Worker, d)
          \/ \E s : Goto(Worker, [h EXCEPT !.group = g, !.stream = s])
          \/ frame' = [p \in Callers |-> At(p, "dead")]
      BY <1>1, <1>4, <2>1, <2>4, Zenon DEF GroupAnswered
    <2>6. requests' = requests
      BY <1>4 DEF GroupAnswered
    <2>7. CASE Goto(Worker, d)
      BY <1>0, <1>2, <2>6, <2>7, CallNears
    <2>8. ASSUME NEW s, Goto(Worker, [h EXCEPT !.group = g, !.stream = s])
          PROVE  Nears(Worker)
      <3>1. PICK f : f = [h EXCEPT !.group = g, !.stream = s]
        OBVIOUS
      <3>2. f.at = h.at /\ f.tries = h.tries
        BY <2>2, <3>1 DEF Frames
      <3>3. Cost(Worker, f) = Cost(Worker, h)
        BY <3>2 DEF Cost, Attempts
      <3>4. Goto(Worker, f) /\ frame'[Worker] = f
        BY <1>0, <2>8, <3>1, GotoFrames
      <3>5. f \in Frames
        BY <1>0, <3>4 DEF Types
      <3>6. Cheaper(Worker, f)
        BY <1>0, <2>2, <2>3, <3>3, <3>5 DEF Cheaper, Calling
      <3> QED
        BY <1>0, <3>4, <3>6, CallNears
    <2>9. CASE frame' = [p \in Callers |-> At(p, "dead")]
      <3>1. \A p \in Callers : frame'[p].at = "dead"
        BY <2>9, AtIs DEF Places
      <3> QED
        BY <2>6, <3>1
    <2> QED
      BY <2>5, <2>6, <2>7, <2>8, <2>9
  <1> QED
    BY <1>1, <1>3, <1>4, Zenon DEF WorkerGroup

\* ClientGetStatus: the write, the group, or nothing follows.
LEMMA WorkerStatusNears ==
  ASSUME SnapcastAssumption, ButtonsAssumption, IInv, Types', WorkerStatus
  PROVE  Nears(Worker) /\ Len(requests') = Len(requests)
  <1>0. Worker \in Callers /\ frame[Worker].at = "status" /\ Types
    BY DEF Callers, WorkerStatus, IInv
  <1>1. PICK j : j = frame[Worker].job
    OBVIOUS
  <1>2. j \in RequestType /\ j.kind \in {"volume", "change", "onoff"}
    BY <1>0, <1>1 DEF IInv, Types, Frames, InShape
  <1>3. PICK muted, volume : muted = server.muted[j.client]
                             /\ volume = server.volume[j.client] + j.step
    OBVIOUS
  <1>4. muted \in BOOLEAN
    BY <1>2, <1>3 DEF IInv, Types, Servers, RequestType
  <1>5. PICK f : f = AfterStatus
    OBVIOUS
  <1>6. PICK h : h = At(Worker, "status")
    OBVIOUS
  <1>7. \/ f = Done(Worker)
        \/ volume \in Volumes /\ f = Writing(Worker, muted, volume)
        \/ f = Muting(Worker, FALSE) \/ f = Muting(Worker, ~muted)
        \/ f = ToGroup(h)
    BY <1>1, <1>2, <1>3, <1>5, <1>6 DEF AfterStatus, Volumes
  <1>8. Cheaper(Worker, Done(Worker))
    BY <1>0, DoneCheaper DEF Calling
  <1>9. \A mute \in BOOLEAN : Cheaper(Worker, Muting(Worker, mute))
    BY <1>0, MutingCheaper
  <1>10. volume \in Volumes => Cheaper(Worker, Writing(Worker, muted, volume))
    BY <1>0, <1>4, WritingCosts, CallComparisons DEF Cheaper, Calling
  <1>11. Cheaper(Worker, ToGroup(h))
    <2>1. h \in Frames
      BY <1>0, <1>6, AtIs DEF Places
    <2>2. frame[Worker] \in Frames
      BY <1>0 DEF Types
    <2>3. h.tries = 1
      BY <1>6, <2>2 DEF At, Frames
    <2>4. PICK g : g = ToGroup(h)
      OBVIOUS
    <2>5. g \in Frames /\ Cost(Worker, g) \in {0, CostAt(Worker, "group", RetryMax)}
      BY <2>1, <2>3, <2>4, ToGroupCosts
    <2>6. /\ CostAt(Worker, "group", RetryMax) < CostAt(Worker, "status", 1)
          /\ 0 < CostAt(Worker, "status", 1)
      BY WeightsAreNat DEF CostAt, Worker
    <2> QED
      BY <1>0, <2>4, <2>5, <2>6 DEF Cheaper, Calling
  <1>12. Cheaper(Worker, f)
    <2>1. (~muted) \in BOOLEAN /\ FALSE \in BOOLEAN
      OBVIOUS
    <2>2. Cheaper(Worker, Muting(Worker, FALSE)) /\ Cheaper(Worker, Muting(Worker, ~muted))
      BY <1>9, <2>1
    <2> QED
      BY <1>7, <1>8, <1>10, <1>11, <2>2, Zenon
  <1>13. StatusCall(Worker, f) \/ Unserved(Worker, Done(Worker)) \/ Refused(Worker, Done(Worker))
    BY <1>5, Zenon DEF WorkerStatus
  <1> QED
    BY <1>0, <1>12, <1>13, ReadNears

\* The mute of the living room (sound/sound.go:140-167).
LEMMA OutputStatusNears ==
  ASSUME SnapcastAssumption, ButtonsAssumption, Types, Types', OutputStatus
  PROVE  Nears("output") /\ Len(requests') = Len(requests) /\ UNCHANGED buttonVars
  <1>0. "output" \in Callers /\ frame["output"].at = "status" /\ UNCHANGED buttonVars
    BY DEF Callers, OutputStatus
  <1>1. PICK f : f = IF server.muted[TvZone] THEN Done("output") ELSE Muting("output", TRUE)
    OBVIOUS
  <1>2. Cheaper("output", f)
    BY <1>0, <1>1, DoneCheaper, MutingCheaper DEF Calling
  <1>3. StatusCall("output", f) \/ Unserved("output", Done("output"))
          \/ Refused("output", Done("output"))
    BY <1>1, Zenon DEF OutputStatus
  <1> QED
    BY <1>0, <1>2, <1>3, ReadNears

LEMMA OutputVolumeNears ==
  ASSUME SnapcastAssumption, ButtonsAssumption, Types, Types',
         VolumeCall("output", Done("output"))
  PROVE  Nears("output") /\ Len(requests') = Len(requests)
  <1>1. PICK d : d = Done("output")
    OBVIOUS
  <1>2. VolumeCall("output", d) /\ "output" \in Callers
    BY <1>1 DEF Callers
  <1>3. frame["output"].at = "volume"
    BY <1>2 DEF VolumeCall
  <1>4. Cheaper("output", d)
    BY <1>1, <1>2, <1>3, DoneCheaper DEF Calling
  <1> QED
    BY <1>2, <1>4, VolumeNears

LEMMA OutputReadingCosts ==
  ASSUME SnapcastAssumption, ButtonsAssumption, Types
  PROVE  OutputReading \in Frames /\ Cost("output", OutputReading) = 2 * RetryMax
  <1>1. "output" \in Callers /\ TvZone \in Clients
    BY DEF Callers, ButtonsAssumption
  <1>2. PICK r \in RequestType : r = Request("output", TvZone)
    BY <1>1, RequestIs
  <1>3. frame["output"] \in Frames
    BY <1>1 DEF Types
  <1>4. PICK f : f = OutputReading
    OBVIOUS
  <1>5. f \in Frames /\ Cost("output", f) = CostAt("output", "status", RetryMax)
    BY <1>1, <1>2, <1>3, <1>4, ReadingCosts DEF OutputReading
  <1>6. CostAt("output", "status", RetryMax) = 2 * RetryMax
    BY WeightsAreNat DEF CostAt, Worker
  <1> QED
    BY <1>4, <1>5, <1>6

\* p's work goes from a to b, that of the queues changes as is said.
Shifts(p, a, b, di, do, dr, dz) ==
  /\ \A q \in Callers \ {p} : StaysAt(q)
  /\ a = Cost(p, frame[p]) /\ b = Cost(p, frame'[p])
  /\ PressWork' = PressWork + di /\ OutputWork' = OutputWork + do
  /\ RequestWork' = RequestWork + dr
  /\ registered' = registered - dz

LEMMA WorkShifts ==
  ASSUME SnapcastAssumption, ButtonsAssumption, Types, ButtonTypes, Types', ButtonTypes',
         NEW p \in Callers, NEW a \in Nat, NEW b \in Nat,
         NEW di \in Int, NEW do \in Int, NEW dr \in Int, NEW dz \in Int,
         Shifts(p, a, b, di, do, dr, dz)
  PROVE  Work' = Work + di + do + dr + dz + b - a /\ Work \in Nat
  <1>1. /\ Calls \in Nat /\ Calls' \in Nat
        /\ Calls' + a = Calls + b
    BY CallsMove DEF Shifts
  <1>2. PICK c \in Nat, d \in Nat : c = Calls /\ d = Calls'
    BY <1>1
  <1>3. PICK wi \in Nat, wo \in Nat, wr \in Nat, z \in Nat :
          wi = PressWork /\ wo = OutputWork /\ wr = RequestWork /\ z = Len(Zones) - registered
    BY WaitingIsNat
  <1>4. Len(Zones) \in Nat /\ registered \in Int
    BY DEF ButtonsAssumption, ButtonTypes
  <1>5. Len(Zones) - registered' = z + dz
    BY <1>3, <1>4 DEF Shifts
  <1>6. Work = wi + wo + wr + z + c
    BY <1>2, <1>3 DEF Work, Waiting
  <1>7. Work' = (wi + di) + (wo + do) + (wr + dr) + (z + dz) + d
    BY <1>2, <1>3, <1>5 DEF Work, Waiting, Shifts
  <1>8. d + a = c + b
    BY <1>1, <1>2
  <1>9. wi \in Nat /\ wo \in Nat /\ wr \in Nat /\ z \in Nat /\ c \in Nat /\ d \in Nat
    BY <1>2, <1>3
  <1>10. /\ (wi + di) + (wo + do) + (wr + dr) + (z + dz) + d
              = (wi + wo + wr + z + c) + di + do + dr + dz + b - a
         /\ wi + wo + wr + z + c \in Nat
    BY <1>8, <1>9
  <1> QED
    BY <1>6, <1>7, <1>10, Zenon

\* What waits and does not change.
LEMMA SameWeight ==
  ASSUME SnapcastAssumption, ButtonsAssumption, Types, ButtonTypes
  PROVE  /\ inbox' = inbox => PressWork' = PressWork + 0
         /\ outputs' = outputs => OutputWork' = OutputWork + 0
         /\ Len(requests') = Len(requests) => RequestWork' = RequestWork + 0
         /\ registered' = registered => registered' = registered - 0
  <1>1. /\ PressWork \in Nat /\ OutputWork \in Nat /\ RequestWork \in Nat
        /\ registered \in Int
    BY WaitingIsNat DEF ButtonTypes
  <1>2. /\ inbox' = inbox => PressWork' = PressWork
        /\ outputs' = outputs => OutputWork' = OutputWork
        /\ Len(requests') = Len(requests) => RequestWork' = RequestWork
    BY DEF PressWork, OutputWork, RequestWork
  <1> QED
    BY <1>1, <1>2

\* One more or less in a queue.
LEMMA LengthBy ==
  ASSUME NEW S, NEW s \in Seq(S), NEW k \in Nat
  PROVE  /\ \A e \in S : k * Len(Append(s, e)) = k * Len(s) + k
         /\ s # <<>> => k * Len(Tail(s)) = k * Len(s) + (-k)
  <1>1. Len(s) \in Nat
    OBVIOUS
  <1>2. ASSUME NEW e \in S PROVE k * Len(Append(s, e)) = k * Len(s) + k
    <2>1. Len(Append(s, e)) = Len(s) + 1
      OBVIOUS
    <2>2. PICK n \in Nat : n = Len(s)
      BY <1>1
    <2> QED
      BY <2>1, <2>2
  <1>3. ASSUME s # <<>> PROVE k * Len(Tail(s)) = k * Len(s) + (-k)
    <2>1. Len(Tail(s)) = Len(s) - 1
      BY <1>3
    <2>2. PICK n \in Nat : n = Len(s)
      BY <1>1
    <2> QED
      BY <2>1, <2>2
  <1> QED
    BY <1>2, <1>3

\* processRequest (snapcast/snapcast.go:104-160): a request less, its calls more.
LEMMA TakeRequestWorks ==
  ASSUME SnapcastAssumption, ButtonsAssumption, Types, ButtonTypes, Types', ButtonTypes',
         TakeRequest, UNCHANGED buttonVars
  PROVE  Work' < Work
  <1>0. Worker \in Callers /\ frame[Worker].at = "wait" /\ requests # <<>>
    BY DEF Callers, TakeRequest
  <1>1. PICK r : r = Head(requests)
    OBVIOUS
  <1>2. r \in RequestType
    BY <1>0, <1>1 DEF Types
  <1>3. PICK h : h = At(Worker, "status")
    OBVIOUS
  <1>4. h \in Frames /\ Cost(Worker, h) = CostAt(Worker, "status", RetryMax)
    BY <1>0, <1>3, AtCosts DEF Places
  <1>5. h.tries = 1
    <2>1. frame[Worker] \in Frames
      BY <1>0 DEF Types
    <2> QED
      BY <1>3, <2>1 DEF At, Frames
  <1>6. PICK f : f = [h EXCEPT !.job = r]
    OBVIOUS
  <1>7. f \in Frames /\ f.at = h.at /\ f.tries = h.tries
    BY <1>2, <1>4, <1>6 DEF Frames
  <1>8. Cost(Worker, f) = CostAt(Worker, "status", RetryMax)
    BY <1>4, <1>7 DEF Cost, Attempts
  <1>9. PICK g : g = ToGroup(f)
    OBVIOUS
  <1>10. g \in Frames /\ Cost(Worker, g) \in {0, CostAt(Worker, "group", RetryMax)}
    BY <1>5, <1>7, <1>9, ToGroupCosts
  <1>11. Goto(Worker, f) \/ Goto(Worker, g)
    BY <1>1, <1>3, <1>6, <1>9 DEF TakeRequest
  <1>12. /\ frame'[Worker] = f \/ frame'[Worker] = g
         /\ \A q \in Callers \ {Worker} : frame'[q] = frame[q]
    BY <1>0, <1>11, GotoFrames
  <1>13. /\ CostAt(Worker, "status", RetryMax) = 3 * RetryMax
         /\ CostAt(Worker, "group", RetryMax) = 2 * RetryMax
    BY WeightsAreNat DEF CostAt, Worker
  <1>14. PICK b : b = Cost(Worker, frame'[Worker])
    OBVIOUS
  <1>15. b \in Nat /\ b < RequestCost
    <2>1. b \in {0, 2 * RetryMax, 3 * RetryMax}
      BY <1>8, <1>10, <1>12, <1>13, <1>14
    <2> QED
      BY <2>1, WeightsAreNat DEF RequestCost
  <1>16. Cost(Worker, frame[Worker]) = 0
    BY <1>0, NoCost DEF Cost
  <1>17. requests' = Tail(requests)
    BY DEF TakeRequest
  <1>18. PICK k \in Nat : k = RequestCost
    BY WeightsAreNat
  <1>19. RequestWork' = RequestWork + (-k)
    BY <1>0, <1>17, <1>18, LengthBy DEF Types, RequestWork
  <1>20. \A q \in Callers \ {Worker} : StaysAt(q)
    BY <1>12 DEF StaysAt
  <1>21. /\ PressWork' = PressWork + 0
         /\ OutputWork' = OutputWork + 0
         /\ registered' = registered - 0
    BY SameWeight DEF buttonVars
  <1>22. -k \in Int /\ 0 \in Int /\ 0 \in Nat
    BY <1>18
  <1>23. Shifts(Worker, 0, b, 0, 0, -k, 0)
    BY <1>14, <1>16, <1>19, <1>20, <1>21 DEF Shifts
  <1>24. Work' = Work + 0 + 0 + (-k) + 0 + b - 0 /\ Work \in Nat
    BY <1>0, <1>15, <1>22, <1>23, WorkShifts
  <1> QED
    BY <1>15, <1>18, <1>24

\* A message is asked for: hub and output (snapcast/snapcast.go:81-83).
LEMMA SendWorks ==
  ASSUME SnapcastAssumption, ButtonsAssumption, Types, ButtonTypes, Types', ButtonTypes',
         NEW p \in {"hub", "output"}, frame[p].at = "send",
         NEW f \in Frames, Cost(p, f) + RequestCost < CostAt(p, "send", 1),
         Send(p, frame[p].job, f), UNCHANGED buttonVars
  PROVE  Work' < Work
  <1>0. p \in Callers
    BY DEF Callers
  <1>1. frame[p].job \in RequestType
    BY <1>0 DEF Types, Frames
  <1>2. Goto(p, f) /\ requests' = Append(requests, frame[p].job)
    BY DEF Send
  <1>3. frame'[p] = f /\ \A q \in Callers \ {p} : frame'[q] = frame[q]
    BY <1>0, <1>2, GotoFrames
  <1>4. \A q \in Callers \ {p} : StaysAt(q)
    BY <1>3 DEF StaysAt
  <1>5. PICK k \in Nat : k = RequestCost
    BY WeightsAreNat
  <1>6. RequestWork' = RequestWork + k
    BY <1>1, <1>2, <1>5, LengthBy DEF Types, RequestWork
  <1>7. PICK a : a = Cost(p, frame[p])
    OBVIOUS
  <1>8. PICK b : b = Cost(p, frame'[p])
    OBVIOUS
  <1>9. a \in Nat /\ b \in Nat
    BY <1>0, <1>7, <1>8, CostIsNat DEF Types
  <1>10. b + k < a
    <2>1. CostAt(p, "send", Attempts(frame[p])) = CostAt(p, "send", 1)
      BY DEF CostAt, Worker
    <2> QED
      BY <1>3, <1>5, <1>7, <1>8, <2>1 DEF Cost
  <1>11. /\ PressWork' = PressWork + 0
         /\ OutputWork' = OutputWork + 0
         /\ registered' = registered - 0
    BY SameWeight DEF buttonVars
  <1>12. k \in Int /\ 0 \in Int
    BY <1>5
  <1>13. Shifts(p, a, b, 0, 0, k, 0)
    BY <1>4, <1>6, <1>7, <1>8, <1>11 DEF Shifts
  <1>14. Work' = Work + 0 + 0 + k + 0 + b - a /\ Work \in Nat
    BY <1>0, <1>9, <1>12, <1>13, WorkShifts
  <1> QED
    BY <1>5, <1>9, <1>10, <1>14

LEMMA ReceiveSendWorks ==
  ASSUME SnapcastAssumption, ButtonsAssumption, Types, ButtonTypes, Types', ButtonTypes',
         ReceiveSend
  PROVE  Work' < Work
  <1>1. PICK f : f = Done("hub")
    OBVIOUS
  <1>2. f \in Frames /\ Cost("hub", f) = 0
    BY <1>1, DoneCosts DEF Callers
  <1>3. Cost("hub", f) + RequestCost < CostAt("hub", "send", 1)
    BY <1>2, WeightsAreNat DEF CostAt, Worker
  <1>4. frame["hub"].at = "send" /\ Send("hub", frame["hub"].job, f) /\ UNCHANGED buttonVars
    BY <1>1 DEF ReceiveSend
  <1> QED
    BY <1>2, <1>3, <1>4, SendWorks

LEMMA OutputSendWorks ==
  ASSUME SnapcastAssumption, ButtonsAssumption, Types, ButtonTypes, Types', ButtonTypes',
         OutputSend
  PROVE  Work' < Work
  <1>1. PICK f : f = OutputReading
    OBVIOUS
  <1>2. f \in Frames /\ Cost("output", f) = 2 * RetryMax
    BY <1>1, OutputReadingCosts
  <1>3. Cost("output", f) + RequestCost < CostAt("output", "send", 1)
    BY <1>2, WeightsAreNat DEF CostAt, Worker
  <1>4. /\ frame["output"].at = "send" /\ Send("output", frame["output"].job, f)
        /\ UNCHANGED buttonVars
    BY <1>1 DEF OutputSend
  <1> QED
    BY <1>2, <1>3, <1>4, SendWorks

\* One output more or less.
LEMMA OutputsBy ==
  ASSUME SnapcastAssumption, ButtonTypes, NEW k \in Nat, k = OutputCost
  PROVE  /\ outputs' = outputs + 1 => OutputWork' = OutputWork + k
         /\ outputs' = outputs - 1 => OutputWork' = OutputWork + (-k)
  <1>1. PICK n \in Nat : n = outputs
    BY DEF ButtonTypes
  <1>2. k * (n + 1) = k * n + k /\ k * (n - 1) = k * n + (-k)
    OBVIOUS
  <1> QED
    BY <1>1, <1>2 DEF OutputWork

\* Nothing is worked off, nothing is added.
LEMMA NothingWorks ==
  ASSUME SnapcastAssumption, ButtonsAssumption, Types, ButtonTypes, Types', ButtonTypes',
         \A q \in Callers : Cost(q, frame'[q]) = Cost(q, frame[q]),
         Len(requests') = Len(requests), UNCHANGED buttonVars
  PROVE  Work' = Work
  <1>1. Calls' = Calls
    BY DEF Calls, Callers
  <1>2. Waiting' = Waiting
    BY DEF Waiting, PressWork, OutputWork, RequestWork, buttonVars
  <1> QED
    BY <1>1, <1>2 DEF Work

LEMMA StaysCosts ==
  ASSUME NEW q, StaysAt(q)
  PROVE  Cost(q, frame'[q]) = Cost(q, frame[q])
  BY DEF StaysAt, Cost, Attempts

\* The poll and the app (snapcast/snapcast.go:84-102).
LEMMA RestingIsNoWork ==
  ASSUME SnapcastAssumption, ButtonsAssumption, Types, ButtonTypes, Types', ButtonTypes',
         Resting
  PROVE  Work' = Work
  <1>0. Worker \in Callers /\ UNCHANGED buttonVars
    BY DEF Callers, Resting
  <1>1. CASE Poll \/ Tick
    <2>1. PICK f : f = At(Worker, "wait")
      OBVIOUS
    <2>2. PICK g : g = At(Worker, "poll")
      OBVIOUS
    <2>3. f.at = "wait" /\ g.at = "poll" /\ f \in Frames /\ g \in Frames
      BY <1>0, <2>1, <2>2, AtIs DEF Places
    <2>4. /\ frame[Worker].at \in {"poll", "wait"} /\ requests' = requests
          /\ \/ Goto(Worker, f) \/ Goto(Worker, g)
             \/ frame' = [frame EXCEPT ![Worker].tries = @ + 1]
      BY <1>1, <2>1, <2>2 DEF Poll, Tick, TryAgain
    <2>5. \/ Goto(Worker, f) \/ Goto(Worker, g)
          \/ Goto(Worker, [frame[Worker] EXCEPT !.tries = @ + 1])
      BY <1>0, <2>4 DEF Goto, Types
    <2>6. [frame[Worker] EXCEPT !.tries = @ + 1].at = frame[Worker].at
      <3>1. frame[Worker] \in Frames
        BY <1>0 DEF Types
      <3> QED
        BY <3>1 DEF Frames
    <2>7. /\ frame'[Worker].at \in {"poll", "wait"}
          /\ \A q \in Callers \ {Worker} : frame'[q] = frame[q]
      BY <1>0, <2>3, <2>4, <2>5, <2>6, GotoFrames
    <2>8. Cost(Worker, frame[Worker]) = 0 /\ Cost(Worker, frame'[Worker]) = 0
      BY <1>0, <2>4, <2>7, NoCost DEF Cost
    <2>9. \A q \in Callers : Cost(q, frame'[q]) = Cost(q, frame[q])
      BY <2>7, <2>8
    <2>10. Len(requests') = Len(requests)
      BY <2>4
    <2> QED
      BY <1>0, <2>9, <2>10, NothingWorks
  <1>2. CASE AppSetsVolume
    <2>1. PICK c \in Clients, mute \in BOOLEAN :
            /\ requests' = [i \in DOMAIN requests |-> Marked(requests[i], c, mute)]
            /\ frame' = [q \in Callers |-> MarkedFrame(frame[q], c, mute)]
      BY <1>2 DEF AppSetsVolume
    <2>2. Len(requests') = Len(requests)
      BY <2>1, MarkedLength
    <2>3. \A q \in Callers : frame'[q] = MarkedFrame(frame[q], c, mute)
      BY <2>1
    <2>4. \A q \in Callers : Cost(q, frame'[q]) = Cost(q, frame[q])
      BY <2>3, MarkedStay, StaysCosts
    <2> QED
      BY <1>0, <2>2, <2>4, NothingWorks
  <1>3. CASE AppMoves
    <2>1. requests' = requests /\ frame' = frame
      BY <1>3 DEF AppMoves
    <2> QED
      BY <1>0, <2>1, NothingWorks
  <1> QED
    BY <1>1, <1>2, <1>3 DEF Resting, App

\* A registration.
LEMMA RegisterWorks ==
  ASSUME SnapcastAssumption, ButtonsAssumption, Types, ButtonTypes, Types', ButtonTypes',
         Register
  PROVE  Work' < Work
  <1>0. "hub" \in Callers
    BY DEF Callers
  <1>1. /\ frame' = frame /\ requests' = requests /\ inbox' = inbox /\ outputs' = outputs
        /\ registered' = registered + 1
    BY DEF Register, snapVars
  <1>2. PICK a \in Nat : a = Cost("hub", frame["hub"])
    BY <1>0, CostIsNat DEF Types
  <1>3. PressWork' = PressWork + 0 /\ OutputWork' = OutputWork + 0 /\ RequestWork' = RequestWork + 0
    BY <1>1, SameWeight
  <1>4. registered' = registered - (-1)
    BY <1>1 DEF ButtonTypes
  <1>5. Shifts("hub", a, a, 0, 0, 0, -1)
    BY <1>1, <1>2, <1>3, <1>4 DEF Shifts, StaysAt
  <1>6. Work' = Work + 0 + 0 + 0 + (-1) + a - a /\ Work \in Nat
    <2>1. -1 \in Int /\ 0 \in Int
      OBVIOUS
    <2> QED
      BY <1>0, <1>2, <1>5, <2>1, WorkShifts
  <1> QED
    BY <1>2, <1>6

\* A press is delivered: it leaves a goroutine, a call, or nothing (hub/hub.go:44-62).
LEMMA BroadcastWorks ==
  ASSUME SnapcastAssumption, ButtonsAssumption, Types, ButtonTypes, Types', ButtonTypes',
         Broadcast
  PROVE  Work' < Work
  <1>0. "hub" \in Callers
    BY DEF Callers
  <1>1. /\ frame["hub"].at = "idle" /\ inbox # <<>> /\ inbox' = Tail(inbox)
        /\ requests' = requests /\ registered' = registered
    BY DEF Broadcast
  <1>2. PICK z, a : z = Head(inbox).zone /\ a = Head(inbox).action
    OBVIOUS
  <1>3. z \in Clients /\ a \in Actions
    <2>1. PICK S : S = [zone : Clients, action : Actions]
      OBVIOUS
    <2>2. inbox \in Seq(S)
      BY <2>1 DEF ButtonTypes
    <2>3. Head(inbox) \in S
      BY <1>1, <2>2
    <2> QED
      BY <1>2, <2>1, <2>3
  <1>4. \/ outputs' \in {outputs, outputs + 1} /\ frame' = frame
        \/ Goto("hub", Reading(frame["hub"], Asked(z, a))) /\ outputs' = outputs
    BY <1>2 DEF Broadcast, Delivered
  <1>5. PICK k \in Nat, l \in Nat : k = PressCost /\ l = OutputCost
    BY WeightsAreNat
  <1>6. k = l + 1 /\ 0 < l /\ RequestCost + 2 * RetryMax + 3 = l
    BY <1>5, WeightsAreNat DEF PressCost, OutputCost
  <1>7. PressWork' = PressWork + (-k)
    <2>1. k * Len(Tail(inbox)) = k * Len(inbox) + (-k)
      BY <1>1, LengthBy DEF ButtonTypes
    <2> QED
      BY <1>1, <1>5, <2>1 DEF PressWork
  <1>8. RequestWork' = RequestWork + 0 /\ registered' = registered - 0
    BY <1>1, SameWeight
  <1>9. Cost("hub", frame["hub"]) = 0
    BY <1>0, <1>1, NoCost DEF Cost
  <1>10. 0 \in Int /\ 0 \in Nat /\ (-k) \in Int /\ l \in Int
    BY <1>5
  <1>11. CASE outputs' = outputs /\ frame' = frame
    <2>1. OutputWork' = OutputWork + 0
      BY <1>11, SameWeight
    <2>2. Shifts("hub", 0, 0, -k, 0, 0, 0)
      BY <1>7, <1>8, <1>9, <1>11, <2>1 DEF Shifts, StaysAt
    <2>3. Work' = Work + (-k) + 0 + 0 + 0 + 0 - 0 /\ Work \in Nat
      BY <1>0, <1>10, <2>2, WorkShifts
    <2> QED
      BY <1>5, <1>6, <2>3
  <1>12. CASE outputs' = outputs + 1 /\ frame' = frame
    <2>1. OutputWork' = OutputWork + l
      BY <1>5, <1>12, OutputsBy
    <2>2. Shifts("hub", 0, 0, -k, l, 0, 0)
      BY <1>7, <1>8, <1>9, <1>12, <2>1 DEF Shifts, StaysAt
    <2>3. Work' = Work + (-k) + l + 0 + 0 + 0 - 0 /\ Work \in Nat
      BY <1>0, <1>10, <2>2, WorkShifts
    <2> QED
      BY <1>5, <1>6, <2>3
  <1>13. CASE Goto("hub", Reading(frame["hub"], Asked(z, a))) /\ outputs' = outputs
    <2>1. PICK r \in RequestType : r = Asked(z, a)
      BY <1>3, AskedIs
    <2>2. frame["hub"] \in Frames
      BY <1>0 DEF Types
    <2>3. PICK f : f = Reading(frame["hub"], r)
      OBVIOUS
    <2>4. Cost("hub", f) = CostAt("hub", "status", RetryMax)
      BY <1>0, <2>1, <2>2, <2>3, ReadingCosts
    <2>5. frame'["hub"] = f /\ \A q \in Callers \ {"hub"} : frame'[q] = frame[q]
      BY <1>0, <1>13, <2>1, <2>3, GotoFrames
    <2>6. PICK b \in Nat : b = CostAt("hub", "status", RetryMax)
      BY <1>0, WeightsAreNat DEF CostAt, Worker
    <2>7. b < l
      BY <1>5, <1>6, <2>6, WeightsAreNat DEF CostAt, Worker
    <2>8. OutputWork' = OutputWork + 0
      BY <1>13, SameWeight
    <2>9. Shifts("hub", 0, b, -k, 0, 0, 0)
      BY <1>7, <1>8, <1>9, <2>4, <2>5, <2>6, <2>8 DEF Shifts, StaysAt
    <2>10. Work' = Work + (-k) + 0 + 0 + 0 + b - 0 /\ Work \in Nat
      BY <1>0, <1>10, <2>6, <2>9, WorkShifts
    <2> QED
      BY <1>5, <1>6, <2>6, <2>7, <2>10
  <1> QED
    BY <1>4, <1>11, <1>12, <1>13

\* spotifyOutputOn begins.
LEMMA OutputStartWorks ==
  ASSUME SnapcastAssumption, ButtonsAssumption, Types, ButtonTypes, Types', ButtonTypes',
         OutputStart
  PROVE  Work' < Work
  <1>0. "output" \in Callers /\ frame["output"].at = "idle"
    BY DEF Callers, OutputStart
  <1>1. PICK f : f = At("output", "online")
    OBVIOUS
  <1>2. Cost("output", f) = CostAt("output", "online", RetryMax)
    BY <1>0, <1>1, AtCosts DEF Places
  <1>3. /\ Goto("output", f) /\ outputs' = outputs - 1
        /\ requests' = requests /\ inbox' = inbox /\ registered' = registered
    BY <1>1 DEF OutputStart
  <1>4. frame'["output"] = f /\ \A q \in Callers \ {"output"} : frame'[q] = frame[q]
    BY <1>0, <1>3, GotoFrames
  <1>5. PICK k \in Nat, b \in Nat : k = OutputCost /\ b = CostAt("output", "online", RetryMax)
    BY WeightsAreNat DEF CostAt, Worker
  <1>6. b < k
    BY <1>5, WeightsAreNat DEF CostAt, Worker, OutputCost
  <1>7. Cost("output", frame["output"]) = 0
    BY <1>0, NoCost DEF Cost
  <1>8. OutputWork' = OutputWork + (-k)
    BY <1>3, <1>5, OutputsBy
  <1>9. PressWork' = PressWork + 0 /\ RequestWork' = RequestWork + 0 /\ registered' = registered - 0
    BY <1>3, SameWeight
  <1>10. Shifts("output", 0, b, 0, -k, 0, 0)
    BY <1>2, <1>4, <1>5, <1>7, <1>8, <1>9 DEF Shifts, StaysAt
  <1>11. 0 \in Int /\ 0 \in Nat /\ (-k) \in Int
    BY <1>5
  <1>12. Work' = Work + 0 + (-k) + 0 + 0 + b - 0 /\ Work \in Nat
    BY <1>0, <1>5, <1>10, <1>11, WorkShifts
  <1> QED
    BY <1>5, <1>6, <1>12

\* A press adds what it costs.
LEMMA PressWorks ==
  ASSUME SnapcastAssumption, ButtonsAssumption, Types, ButtonTypes, Types', ButtonTypes',
         Press
  PROVE  Work' = Work + PressCost
  <1>0. "hub" \in Callers
    BY DEF Callers
  <1>1. PICK S : S = [zone : Clients, action : Actions]
    OBVIOUS
  <1>2. PICK e \in S : inbox' = Append(inbox, e)
    BY <1>1 DEF Press
  <1>3. frame' = frame /\ requests' = requests /\ outputs' = outputs /\ registered' = registered
    BY DEF Press, snapVars
  <1>4. PICK k \in Nat : k = PressCost
    BY WeightsAreNat
  <1>5. PressWork' = PressWork + k
    <2>1. k * Len(Append(inbox, e)) = k * Len(inbox) + k
      BY <1>1, <1>2, LengthBy DEF ButtonTypes
    <2> QED
      BY <1>2, <1>4, <2>1 DEF PressWork
  <1>6. OutputWork' = OutputWork + 0 /\ RequestWork' = RequestWork + 0 /\ registered' = registered - 0
    BY <1>3, SameWeight
  <1>7. PICK a \in Nat : a = Cost("hub", frame["hub"])
    BY <1>0, CostIsNat DEF Types
  <1>8. Shifts("hub", a, a, k, 0, 0, 0)
    BY <1>3, <1>5, <1>6, <1>7 DEF Shifts, StaysAt
  <1>9. Work' = Work + k + 0 + 0 + 0 + a - a /\ Work \in Nat
    <2>1. k \in Int /\ 0 \in Int
      BY <1>4
    <2> QED
      BY <1>0, <1>7, <1>8, <2>1, WorkShifts
  <1> QED
    BY <1>4, <1>7, <1>9

\* A REST request adds its two calls.
LEMMA RestRequestWorks ==
  ASSUME SnapcastAssumption, ButtonsAssumption, Types, ButtonTypes, Types', ButtonTypes',
         RestRequest
  PROVE  Work' = Work + 2 * RetryMax
  <1>0. "rest" \in Callers /\ frame["rest"].at = "idle" /\ frame["rest"] \in Frames
    BY DEF Callers, RestRequest, Types
  <1>1. PICK c \in Clients, mute \in BOOLEAN :
          Goto("rest", [Reading(frame["rest"], Request("rest", c)) EXCEPT !.mute = mute])
    BY DEF RestRequest
  <1>2. PICK r \in RequestType : r = Request("rest", c)
    BY RequestIs
  <1>3. PICK h : h = Reading(frame["rest"], r)
    OBVIOUS
  <1>4. h \in Frames /\ Cost("rest", h) = CostAt("rest", "status", RetryMax)
    BY <1>0, <1>3, ReadingCosts
  <1>5. PICK f : f = [h EXCEPT !.mute = mute]
    OBVIOUS
  <1>6. f.at = h.at /\ f.tries = h.tries
    BY <1>4, <1>5 DEF Frames
  <1>7. Cost("rest", f) = CostAt("rest", "status", RetryMax)
    BY <1>4, <1>6 DEF Cost, Attempts
  <1>8. frame'["rest"] = f /\ \A q \in Callers \ {"rest"} : frame'[q] = frame[q]
    BY <1>0, <1>1, <1>2, <1>3, <1>5, GotoFrames
  <1>9. /\ requests' = requests /\ inbox' = inbox /\ outputs' = outputs
        /\ registered' = registered
    BY DEF RestRequest
  <1>10. PICK b \in Nat : b = 2 * RetryMax
    BY WeightsAreNat
  <1>11. CostAt("rest", "status", RetryMax) = b
    BY <1>10, WeightsAreNat DEF CostAt, Worker
  <1>12. Cost("rest", frame["rest"]) = 0
    BY <1>0, NoCost DEF Cost
  <1>13. /\ PressWork' = PressWork + 0 /\ OutputWork' = OutputWork + 0
         /\ RequestWork' = RequestWork + 0 /\ registered' = registered - 0
    BY <1>9, SameWeight
  <1>14. Shifts("rest", 0, b, 0, 0, 0, 0)
    BY <1>7, <1>8, <1>11, <1>12, <1>13 DEF Shifts, StaysAt
  <1>15. Work' = Work + 0 + 0 + 0 + 0 + b - 0 /\ Work \in Nat
    BY <1>0, <1>10, <1>14, WorkShifts
  <1> QED
    BY <1>10, <1>15

\* The process dies: nobody has a call any more.
LEMMA DeathWorks ==
  ASSUME SnapcastAssumption, ButtonsAssumption, Types, ButtonTypes, Types', ButtonTypes',
         frame[Worker].at = "group", \A p \in Callers : frame'[p].at = "dead",
         Len(requests') = Len(requests), UNCHANGED buttonVars
  PROVE  Work' < Work
  <1>1. \A q \in Callers : Cost(q, frame[q]) \in Nat
    BY CostIsNat DEF Types
  <1>2. \A q \in Callers : Cost(q, frame'[q]) = 0
    BY NoCost DEF Cost
  <1>3. Calls' = 0
    BY <1>2 DEF Calls, Callers
  <1>4. 0 < Cost(Worker, frame[Worker])
    <2>1. PICK n \in 1 .. RetryMax : n = Attempts(frame[Worker])
      BY AttemptsLeft DEF Types, Callers
    <2>2. CostAt(Worker, "group", n) = RetryMax + n
      BY Costs
    <2>3. 0 < RetryMax + n
      BY <2>1, WeightsAreNat
    <2> QED
      BY <2>1, <2>2, <2>3 DEF Cost
  <1>5. PICK a \in Nat, b \in Nat, c \in Nat, d \in Nat :
          /\ a = Cost(Worker, frame[Worker]) /\ b = Cost("hub", frame["hub"])
          /\ c = Cost("output", frame["output"]) /\ d = Cost("rest", frame["rest"])
    BY <1>1 DEF Callers
  <1>6. Calls = a + b + c + d /\ 0 < a
    BY <1>4, <1>5 DEF Calls
  <1>7. PICK w \in Nat : w = Waiting
    BY WaitingIsNat
  <1>8. Waiting' = Waiting
    BY DEF Waiting, PressWork, OutputWork, RequestWork, buttonVars
  <1>9. Work = w + (a + b + c + d) /\ Work' = w + 0
    BY <1>3, <1>6, <1>7, <1>8 DEF Work
  <1>10. w + 0 < w + (a + b + c + d)
    BY <1>5, <1>6, <1>7
  <1> QED
    BY <1>9, <1>10

\* What serves a request from the queue.
LEMMA ServingWorks ==
  ASSUME SnapcastAssumption, ButtonsAssumption, IInv, IInv', Serving, UNCHANGED buttonVars
  PROVE  Work' < Work
  <1>0. Types /\ ButtonTypes /\ Types' /\ ButtonTypes' /\ Worker \in Callers
    BY DEF IInv, Callers
  <1>1. CASE TakeRequest
    BY <1>0, <1>1, TakeRequestWorks
  <1>2. CASE WorkerStatus
    BY <1>0, <1>2, WorkerStatusNears, NearsWork
  <1>3. CASE VolumeCall(Worker, Done(Worker))
    BY <1>0, <1>3, WorkerVolumeNears, NearsWork
  <1>4. CASE WorkerGroup
    <2>1. /\ Len(requests') = Len(requests) /\ frame[Worker].at = "group"
          /\ Nears(Worker) \/ \A p \in Callers : frame'[p].at = "dead"
      BY <1>0, <1>4, WorkerGroupNears DEF WorkerGroup
    <2>2. CASE Nears(Worker)
      BY <1>0, <2>1, <2>2, NearsWork
    <2>3. CASE \A p \in Callers : frame'[p].at = "dead"
      BY <1>0, <2>1, <2>3, DeathWorks
    <2> QED
      BY <2>1, <2>2, <2>3
  <1>5. CASE WorkerStream
    BY <1>0, <1>5, WorkerStreamNears, NearsWork
  <1> QED
    BY <1>1, <1>2, <1>3, <1>4, <1>5 DEF Serving

LEMMA HubWorks ==
  ASSUME SnapcastAssumption, ButtonsAssumption, Types, ButtonTypes, Types', ButtonTypes', Hub
  PROVE  Work' < Work
  <1>0. "hub" \in Callers
    BY DEF Callers
  <1>1. CASE Register
    BY <1>1, RegisterWorks
  <1>2. CASE Broadcast
    BY <1>2, BroadcastWorks
  <1>3. CASE ReceiveStatus
    BY <1>0, <1>3, ReceiveStatusNears, NearsWork
  <1>4. CASE ReceiveVolume
    BY <1>0, <1>4, ReceiveVolumeNears, NearsWork
  <1>5. CASE Online("hub", Done("hub"))
    <2>1. PICK f : f = Done("hub")
      OBVIOUS
    <2>2. f \in Frames /\ Cost("hub", f) = 0
      BY <1>0, <2>1, DoneCosts
    <2>3. 0 < CostAt("hub", "online", 1)
      BY WeightsAreNat DEF CostAt, Worker
    <2>4. Online("hub", f)
      BY <1>5, <2>1
    <2>5. Nears("hub") /\ Len(requests') = Len(requests) /\ UNCHANGED buttonVars
      BY <2>2, <2>3, <2>4, OnlineNears
    <2> QED
      BY <1>0, <2>5, NearsWork
  <1>6. CASE ReceiveSend
    BY <1>6, ReceiveSendWorks
  <1> QED
    BY <1>1, <1>2, <1>3, <1>4, <1>5, <1>6 DEF Hub

LEMMA OutputWorks ==
  ASSUME SnapcastAssumption, ButtonsAssumption, Types, ButtonTypes, Types', ButtonTypes', Output
  PROVE  Work' < Work
  <1>0. "output" \in Callers
    BY DEF Callers
  <1>1. CASE OutputStart
    BY <1>1, OutputStartWorks
  <1>2. CASE Online("output", OutputReading)
    <2>1. PICK f : f = OutputReading
      OBVIOUS
    <2>2. f \in Frames /\ Cost("output", f) = 2 * RetryMax
      BY <2>1, OutputReadingCosts
    <2>3. 2 * RetryMax < CostAt("output", "online", 1)
      BY WeightsAreNat DEF CostAt, Worker
    <2>4. Online("output", f)
      BY <1>2, <2>1
    <2>5. Nears("output") /\ Len(requests') = Len(requests) /\ UNCHANGED buttonVars
      BY <2>2, <2>3, <2>4, OnlineNears
    <2> QED
      BY <1>0, <2>5, NearsWork
  <1>3. CASE OutputSend
    BY <1>3, OutputSendWorks
  <1>4. CASE OutputStatus
    BY <1>0, <1>4, OutputStatusNears, NearsWork
  <1>5. CASE VolumeCall("output", Done("output")) /\ UNCHANGED buttonVars
    BY <1>0, <1>5, OutputVolumeNears, NearsWork
  <1> QED
    BY <1>1, <1>2, <1>3, <1>4, <1>5 DEF Output

\* Every step goes by WorkedOff.
LEMMA StepWorks ==
  ASSUME SnapcastAssumption, ButtonsAssumption, IInv, IInv', Next
  PROVE  WorkedOff
  <1>0. Types /\ ButtonTypes /\ Types' /\ ButtonTypes' /\ "rest" \in Callers
    BY DEF IInv, Callers
  <1>1. ASSUME Hub PROVE Work' < Work
    BY <1>0, <1>1, HubWorks
  <1>2. ASSUME Output PROVE Work' < Work
    BY <1>0, <1>2, OutputWorks
  <1>3. ASSUME Rest PROVE Work' < Work
    BY <1>0, <1>3, RestNears, NearsWork
  <1>4. ASSUME Serving /\ UNCHANGED buttonVars PROVE Work' < Work
    BY <1>4, ServingWorks
  <1>5. ASSUME Resting PROVE Work' = Work
    BY <1>0, <1>5, RestingIsNoWork
  <1>6. ASSUME Press PROVE Work' = Work + PressCost
    BY <1>0, <1>6, PressWorks
  <1>7. ASSUME RestRequest PROVE Work' = Work + 2 * RetryMax
    BY <1>0, <1>7, RestRequestWorks
  <1>8. Working \/ Resting \/ Press \/ RestRequest
    BY DEF Next, Run, Working, Serving, Resting
  <1> QED
    BY <1>1, <1>2, <1>3, <1>4, <1>5, <1>6, <1>7, <1>8, Zenon DEF WorkedOff, Working

\* For any number of zones, streams, presses, attempts and failed calls: every
\* step by which the hub, the worker, spotifyOutputOn or a REST request serves
\* a press works something off, whatever waits for whose queue, and whichever
\* calls fail and are tried again; the poll and the app add nothing, and a press
\* adds PressCost: it is over after at most 5 * RetryMax + 5 steps, those of
\* the calls that it leaves to others included (sound/sound.go:58-178,
\* snapcast/snapcast.go:84-160, httpclient/client.go).
THEOREM PressesCostBounded == Spec => [][WorkedOff]_vars
  <1>1. IInv /\ IInv' /\ [Next]_vars => [WorkedOff]_vars
    BY StepWorks, SnapcastAssumption, ButtonsAssumption
  <1> QED
    BY <1>1, SoundButtonsInvariant, PTL DEF Spec

\* The work is a number, so that it cannot be worked off for ever, and when
\* there is none nothing waits and nobody is in a call, unless the process died.
NoWorkIsQuiet ==
  Work \in Nat /\ (Work = 0 => Quiet \/ \E p \in Callers : frame[p].at = "dead")

THEOREM WorkedOffIsQuiet == Spec => []NoWorkIsQuiet
  <1>1. ASSUME IInv PROVE NoWorkIsQuiet
    <2>1. Types /\ ButtonTypes
      BY <1>1 DEF IInv
    <2>2. /\ Waiting \in Nat /\ PressWork \in Nat /\ OutputWork \in Nat /\ RequestWork \in Nat
          /\ Len(Zones) - registered \in Nat
      BY <2>1, SnapcastAssumption, ButtonsAssumption, WaitingIsNat
    <2>3. \A p \in Callers : Cost(p, frame[p]) \in Nat
      BY <2>1, SnapcastAssumption, CostIsNat DEF Types
    <2>4. PICK a \in Nat, b \in Nat, c \in Nat, d \in Nat :
            /\ a = Cost(Worker, frame[Worker]) /\ b = Cost("hub", frame["hub"])
            /\ c = Cost("output", frame["output"]) /\ d = Cost("rest", frame["rest"])
      BY <2>3 DEF Callers
    <2>5. PICK w \in Nat : w = Waiting
      BY <2>2
    <2>6. Work = w + (a + b + c + d)
      BY <2>4, <2>5 DEF Work, Calls
    <2>7. w + (a + b + c + d) \in Nat
      BY <2>4, <2>5
    <2>8. ASSUME Work = 0 PROVE Quiet \/ \E p \in Callers : frame[p].at = "dead"
      <3>1. w = 0 /\ b = 0 /\ c = 0 /\ d = 0
        BY <2>4, <2>5, <2>6, <2>8
      <3>2. PressWork = 0 /\ OutputWork = 0 /\ RequestWork = 0
        BY <2>2, <2>5, <3>1 DEF Waiting
      <3>3. Len(inbox) = 0 /\ outputs = 0 /\ Len(requests) = 0
        <4>1. ASSUME NEW k \in Nat, 0 < k, NEW n \in Nat, k * n = 0 PROVE n = 0
          BY <4>1
        <4>2. 0 < PressCost /\ 0 < OutputCost /\ 0 < RequestCost
          BY SnapcastAssumption, WeightsAreNat DEF PressCost, OutputCost, RequestCost
        <4>3. Len(inbox) \in Nat /\ outputs \in Nat /\ Len(requests) \in Nat
          BY <2>1 DEF Types, ButtonTypes
        <4> QED
          BY <3>2, <4>1, <4>2, <4>3, SnapcastAssumption, WeightsAreNat
             DEF PressWork, OutputWork, RequestWork
      <3>4. inbox = <<>> /\ requests = <<>>
        BY <2>1, <3>3 DEF Types, ButtonTypes
      <3>5. ASSUME NEW p \in Callers \ {Worker} PROVE frame[p].at \in {"idle", "dead"}
        <4>1. Cost(p, frame[p]) = 0
          BY <2>4, <3>1 DEF Callers, Worker
        <4>2. PICK n \in 1 .. RetryMax : n = Attempts(frame[p])
          BY <2>1, SnapcastAssumption, AttemptsLeft DEF Types
        <4>3. PICK place \in Places : place = frame[p].at
          BY <2>1, SnapcastAssumption, AttemptsLeft DEF Types
        <4>4. CostAt(p, place, n) = 0
          BY <4>1, <4>2, <4>3 DEF Cost
        <4>5. RetryMax \in Nat \ {0} /\ RequestCost \in Nat
          BY SnapcastAssumption, WeightsAreNat
        <4>6. place \in {"idle", "dead"}
          BY <4>4, <4>5 DEF CostAt, Callers, Worker
        <4> QED
          BY <4>3, <4>6
      <3> QED
        BY <3>3, <3>4, <3>5 DEF Quiet
    <2> QED
      BY <2>6, <2>7, <2>8 DEF NoWorkIsQuiet
  <1> QED
    BY <1>1, SoundButtonsInvariant, PTL

=============================================================================
