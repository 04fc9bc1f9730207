---------------------------- MODULE SoundButtons ----------------------------
(***************************************************************************)
(* The buttons of the sound zones (sound/sound.go), the message hub that   *)
(* delivers their presses (hub/hub.go), and the snapcast client they drive *)
(* (Snapcast).                                                             *)
(*                                                                         *)
(* A press arrives by MQTT, whose handler sends it to the hub's unbuffered *)
(* channel.  The hub's goroutine runs IkeaButtons.Receive to its end before*)
(* it takes the next one.  Receive mutes and unmutes itself and leaves the *)
(* rest as a request to Snapcast's goroutine.  In the living room, when    *)
(* Spotify is configured, the press is Spotify's (module SpotifyRemote);   *)
(* here it leaves a goroutine that mutes the zone (spotifyOutputOn).  The  *)
(* volume of the living room is the Chromecast's (module Chromecast).      *)
(***************************************************************************)
EXTENDS Snapcast

CONSTANTS
  Zones,         \* the zones, their clients, in the order Init registers them
  TvZone,        \* the living room
  ZoneStream,    \* the default stream of each zone
  LeftStream,    \* the living room's streams on a long press
  RightStream,
  MorningStream, \* what ensureOnline asks for in the morning
  MaxPresses     \* bound: presses and REST requests, together

ASSUME ButtonsAssumption ==
  /\ Zones \in Seq(Clients) /\ IsInjective(Zones) /\ ToSet(Zones) = Clients
  /\ TvZone \in Clients
  /\ ZoneStream \in [Clients -> StreamSet]
  /\ {LeftStream, RightStream, MorningStream} \subseteq StreamSet
  /\ MaxPresses \in Nat

VARIABLES
  spotify,       \* Spotify is configured
  registered,    \* how many zones Init has registered with the hub
  inbox,         \* presses whose MQTT handler waits for the hub, in order
  outputs,       \* goroutines of spotifyOutputOn that wait for outputMu
  presses        \* bound

buttonVars == <<spotify, registered, inbox, outputs, presses>>
vars == <<snapVars, buttonVars>>

Actions == {"toggle", "onoff", "default", "left", "right", "louder", "quieter",
            "on", "off"}

SpotifyZone(z) == spotify /\ z = TvZone

\* the stream actions of a long press exist in the living room only
HoldRequest(z, s) ==
  IF z = TvZone THEN SetDefaultChannelReq(z, s) ELSE Request("none", z)

\* the volume of the living room goes to the Chromecast
StepRequest(z, step) ==
  IF z = TvZone THEN Request("none", z) ELSE IncVolumeReq(z, step)

\* what a press asks of the zone's snapcast client once it is not muted
Asked(z, a) ==
  CASE a = "toggle" -> Request("toggle", z)
    [] a = "onoff" -> MuteOnOffReq(z)
    [] a = "default" -> SetDefaultChannelReq(z, ZoneStream[z])
    [] a = "left" -> HoldRequest(z, LeftStream)
    [] a = "right" -> HoldRequest(z, RightStream)
    [] a = "louder" -> StepRequest(z, 1)
    [] a = "quieter" -> StepRequest(z, -1)
    [] a \in {"on", "off"} -> ChangeStreamReq(z, a = "on")

\* a goroutine about to read the status of the client its job is for
Reading(f, r) == [f EXCEPT !.at = "status", !.tries = 1, !.job = r]

-----------------------------------------------------------------------------
(* The house: presses, and REST requests. *)

Press ==
  \E z \in Clients, a \in Actions :
    /\ ~Crashed /\ presses < MaxPresses /\ presses' = presses + 1
    /\ inbox' = Append(inbox, [zone |-> z, action |-> a])
    /\ UNCHANGED <<snapVars, spotify, registered, outputs>>

\* HandleSnapcastClientMute
RestRequest ==
  \E c \in Clients, mute \in BOOLEAN :
    /\ presses < MaxPresses /\ presses' = presses + 1
    /\ frame["rest"].at = "idle"
    /\ Goto("rest", [Reading(frame["rest"], Request("rest", c)) EXCEPT !.mute = mute])
    /\ UNCHANGED <<server, status, requests, overlapped, events>>
    /\ UNCHANGED <<spotify, registered, inbox, outputs>>

RestStatus ==
  /\ frame["rest"].at = "status"
  /\ \/ StatusCall("rest", Muting("rest", frame["rest"].mute))
     \/ Unserved("rest", Done("rest"))
     \/ Refused("rest", Done("rest"))
  /\ UNCHANGED buttonVars

RestVolume == VolumeCall("rest", Done("rest")) /\ UNCHANGED buttonVars

-----------------------------------------------------------------------------
(* hub.Run *)

\* a registration
Register ==
  /\ frame["hub"].at = "idle" /\ registered < Len(Zones)
  /\ registered' = registered + 1
  /\ UNCHANGED <<snapVars, spotify, inbox, outputs, presses>>

\* mutants of Delivered: the press of a radio zone is asked for unread
DeliveredUnread(z, a) ==
  IF SpotifyZone(z) /\ a \notin {"onoff", "default"}
    THEN /\ outputs' \in {outputs, outputs + 1} /\ UNCHANGED frame
    ELSE /\ UNCHANGED outputs
         /\ Goto("hub", IF Asked(z, a).kind \in {"none", "toggle"}
                          THEN Reading(frame["hub"], Asked(z, a))
                          ELSE [frame["hub"] EXCEPT !.at = "send", !.job = Asked(z, a)])

\* Receive begins.  In the living room with Spotify the long presses and the
\* volume are none of snapcast's business, the other presses of the new remote
\* may start Spotify and then mute the zone; those of the old one read it
Delivered(z, a) ==
  IF SpotifyZone(z) /\ a \in {"left", "right", "louder", "quieter"}
    THEN UNCHANGED <<frame, outputs>>
  ELSE IF SpotifyZone(z) /\ a \in {"toggle", "on", "off"}
    THEN /\ outputs' \in {outputs, outputs + 1}
         /\ UNCHANGED frame
  ELSE /\ Goto("hub", Reading(frame["hub"], Asked(z, a)))
       /\ UNCHANGED outputs

\* a message: delivered to the clients of its topic, if there are any yet
Broadcast ==
  /\ frame["hub"].at = "idle" /\ inbox # <<>>
  /\ inbox' = Tail(inbox)
  /\ IF Contains(SubSeq(Zones, 1, registered), Head(inbox).zone)
       THEN Delivered(Head(inbox).zone, Head(inbox).action)
       ELSE UNCHANGED <<frame, outputs>>
  /\ UNCHANGED <<server, status, requests, overlapped, events>>
  /\ UNCHANGED <<spotify, registered, presses>>

\* what follows the status: a muted zone is unmuted and the press is over
Unmuted ==
  LET r == frame["hub"].job IN
  IF server.muted[r.client] THEN Muting("hub", FALSE)
  ELSE IF r.kind = "toggle" THEN Muting("hub", TRUE)
  ELSE IF r.kind = "none" THEN Done("hub")
  ELSE At("hub", "send")

ReceiveStatus ==
  /\ frame["hub"].at = "status"
  /\ \/ StatusCall("hub", Unmuted)
     \/ Unserved("hub", Done("hub"))
     \/ Refused("hub", Done("hub"))
  /\ UNCHANGED buttonVars

\* ClientMute; ensureOnline follows where toggle has unmuted, or failed to
ReceiveVolume ==
  LET f == frame["hub"]
      woken == f.job.kind = "toggle" /\ ~f.mute /\ f.job.client = TvZone
  IN  /\ VolumeCall("hub", IF woken THEN At("hub", "online") ELSE Done("hub"))
      /\ UNCHANGED buttonVars

\* ensureOnline: the sound bar's own commands change nothing here; when it
\* answers and it is morning, a stream is asked for, else p goes on at f
Online(p, f) ==
  /\ frame[p].at = "online"
  /\ \/ Goto(p, f)
     \/ Goto(p, [At(p, "send") EXCEPT
                   !.job = SetDefaultChannelReq(TvZone, MorningStream)])
  /\ UNCHANGED <<server, status, requests, overlapped, events>>
  /\ UNCHANGED buttonVars

ReceiveSend ==
  /\ frame["hub"].at = "send"
  /\ Send("hub", frame["hub"].job, Done("hub"))
  /\ UNCHANGED buttonVars

\* an action of the hub's goroutine
Hub ==
  \/ Register
  \/ Broadcast
  \/ ReceiveStatus
  \/ ReceiveVolume
  \/ Online("hub", Done("hub"))
  \/ ReceiveSend

-----------------------------------------------------------------------------
(* spotifyOutputOn: one at a time holds outputMu. *)

OutputStart ==
  /\ frame["output"].at = "idle" /\ outputs > 0
  /\ outputs' = outputs - 1
  /\ Goto("output", At("output", "online"))
  /\ UNCHANGED <<server, status, requests, overlapped, events>>
  /\ UNCHANGED <<spotify, registered, inbox, presses>>

OutputReading == Reading(frame["output"], Request("output", TvZone))

OutputSend ==
  /\ frame["output"].at = "send"
  /\ Send("output", frame["output"].job, OutputReading)
  /\ UNCHANGED buttonVars

OutputStatus ==
  /\ frame["output"].at = "status"
  /\ \/ StatusCall("output", IF server.muted[TvZone] THEN Done("output")
                                                   ELSE Muting("output", TRUE))
     \/ Unserved("output", Done("output"))
     \/ Refused("output", Done("output"))
  /\ UNCHANGED buttonVars

Output ==
  \/ OutputStart
  \/ Online("output", OutputReading)
  \/ OutputSend
  \/ OutputStatus
  \/ VolumeCall("output", Done("output")) /\ UNCHANGED buttonVars

-----------------------------------------------------------------------------
Init ==
  /\ SnapInit
  /\ spotify \in BOOLEAN
  /\ registered = 0 /\ inbox = <<>> /\ outputs = 0
  /\ presses = 0

Rest == RestStatus \/ RestVolume

Next ==
  \/ Press
  \/ App /\ UNCHANGED buttonVars
  \/ RestRequest
  \/ Rest
  \/ Hub
  \/ Output
  \/ Run /\ UNCHANGED buttonVars

Spec == Init /\ [][Next]_vars

(* Fairness.  Each goroutine goes on when it can: every call ends, answered *)
(* or not, and the queue's channel has room again.  The worker's select     *)
(* chooses at random among the channels that are ready, so a request that   *)
(* waits is not passed over for the ticker for ever.                        *)
Fairness ==
  /\ WF_vars(Hub)
  /\ WF_vars(Output)
  /\ WF_vars(Rest)
  /\ WF_vars(Run /\ UNCHANGED buttonVars)
  /\ SF_vars(TakeRequest /\ UNCHANGED buttonVars)

FairSpec == Spec /\ Fairness

-----------------------------------------------------------------------------
(* Properties. *)

RequestType ==
  [kind : {"none", "volume", "change", "onoff", "default", "toggle", "rest", "output"},
   client : Clients, step : {-1, 0, 1}, up : BOOLEAN, stream : StreamSet,
   muted : BOOLEAN]

TypeOK ==
  /\ server \in [muted : [Clients -> BOOLEAN], volume : [Clients -> 0 .. Top],
                 group : [Clients -> Groups], stream : [Groups -> StreamSet],
                 playing : SUBSET StreamSet]
  /\ status.group \in [Clients -> Groups \cup {Nobody}]
  /\ ToSet(status.playing) \subseteq StreamSet /\ IsInjective(status.playing)
  /\ ToSet(requests) \subseteq RequestType /\ Len(requests) <= Capacity
  /\ \A p \in Callers :
       /\ frame[p].at \in {"idle", "poll", "wait", "online", "status", "volume",
                           "group", "stream", "send", "dead"}
       /\ frame[p].job \in RequestType
       /\ frame[p].volume \in 0 .. Top
       /\ frame[p].tries \in 1 .. RetryMax
  /\ overlapped \in [Callers -> BOOLEAN]
  /\ spotify \in BOOLEAN
  /\ registered \in 0 .. Len(Zones)
  /\ outputs \in 0 .. MaxPresses

\* ClientChangeStream indexes the playing streams without asking whether there
\* are any.  The process dies of it when the last poll found nothing playing,
\* and at no other index of any list.
DiesOnlyInSilence == Crashed => status.playing = <<>>

\* the write of SetVolume by p in this step
Writes(p) ==
  /\ frame[p].at = "volume" /\ server' # server
  /\ frame'[p].at # "volume" \/ frame'[p].tries # frame[p].tries

\* SetVolume writes volume and mute flag, one of them as it was read before.
\* Muting changes a volume, and a volume step mutes or unmutes, only when
\* another goroutine or the app wrote the client between that read and the
\* write (or its repetition after a lost answer).
UpdateLostOnlyByOverlap ==
  [][\A p \in Callers :
       LET c == frame[p].job.client
           step == p = Worker /\ frame[p].job.kind = "volume"
       IN  Writes(p) /\ ~overlapped[p] =>
             /\ step => server'.muted[c] = server.muted[c]
             /\ ~step => server'.volume[c] = server.volume[c]]_vars

\* A button finds its zone unmuted before it queues a request, for the first
\* press of a muted zone only unmutes it.  So the request unmutes the zone
\* only if somebody has muted it after that: the queue is overtaken by the
\* calls the other goroutines make themselves.
UnmutedOnlyIfOvertaken ==
  [][Writes(Worker) =>
       LET j == frame[Worker].job
       IN  server.muted[j.client] /\ ~server'.muted[j.client] => j.muted]_vars

Quiet ==
  /\ inbox = <<>> /\ requests = <<>> /\ outputs = 0
  /\ \A p \in Callers \ {Worker} : frame[p].at = "idle"

\* The hub's goroutine waits for a full queue, the queue for calls that are
\* tried again, the MQTT handlers for the hub: everything pressed is worked
\* off in the end, unless the process dies.
WorkDrains == <>[](Crashed \/ Quiet)

=============================================================================
