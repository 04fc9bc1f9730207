--------------------------- MODULE SpotifyRemote ---------------------------
(***************************************************************************)
(* The living-room remote of sound/spotify.go: a button press read by the  *)
(* hub's goroutine, the verification goroutines it leaves behind           *)
(* (verifyStarted), the history poller, the mutex r.mu they share, and     *)
(* Spotify with its receiver (librespot) and the user's phone around them. *)
(*                                                                         *)
(* Presses are serial: hub.Run delivers one message at a time and          *)
(* IkeaButtons.Receive runs the whole command before it returns.  A        *)
(* command is therefore one process, Button; the verification started by   *)
(* the command numbered v (the value of r.seq) is the process v.           *)
(*                                                                         *)
(* An HTTP call is one step, at the moment Spotify serves it.  Critical    *)
(* sections of r.mu that make no call are one step, taken only when the    *)
(* mutex is free; the button is the only process that holds it longer.     *)
(***************************************************************************)
EXTENDS Integers, Sequences, FiniteSets

CONSTANTS
  Uris,          \* contexts (playlists, albums, artists)
  NoUri,         \* the empty uri
  Nothing,       \* Player() answered 204: no player state at all
  MorningUri,    \* what resolveMorningPlaylist finds, NoUri when not configured
  Attempts,      \* bound of withDevice's loop (4)
  Rounds,        \* length of verifyStarted's list of delays (4)
  Loaded,        \* histories the file may hold at start (loadHistory)
  MaxSeq,        \* bound: commands
  MaxEvents      \* bound: merges that change the history, acts on the user's
                 \* phone, receiver crashes and lost sessions, together

ASSUME RemoteAssumption ==
  /\ IsFiniteSet(Uris)
  /\ NoUri \notin Uris
  /\ Nothing \notin [on : BOOLEAN, here : BOOLEAN, ctx : Uris \cup {NoUri}]
  /\ MorningUri \in Uris \cup {NoUri}
  /\ Attempts \in Nat \ {0}
  /\ Rounds \in Nat \ {0}
  /\ MaxSeq \in Nat /\ MaxEvents \in Nat

Button == 0
Verifiers == 1 .. MaxSeq
Procs == {Button} \cup Verifiers
Free == MaxSeq + 1            \* r.mu is held by nobody

PlayerState == [on : BOOLEAN, here : BOOLEAN, ctx : Uris \cup {NoUri}]
PlayerStates == PlayerState \cup {Nothing}

Distinct(s) == \A i, j \in DOMAIN s : s[i] = s[j] => i = j
Elements(s) == {s[i] : i \in DOMAIN s}
Channels == {s \in UNION {[1 .. n -> Uris] : n \in 0 .. Cardinality(Uris)} :
               Distinct(s)}

ASSUME LoadedAssumption == Loaded \subseteq Channels

VARIABLES
  seq,         \* r.seq
  mu,          \* holder of r.mu
  device,      \* r.device # nil
  history,     \* uris of r.history, most recently played first
  contexts,    \* uris of r.contexts
  cursor,      \* r.cursor + 1: 0 when nothing is selected
  current,     \* r.current
  pc,          \* where each process is
  attempt,     \* withDevice: number of failed attempts of each process
  dev,         \* withDevice: the local dev # nil of each process
  call,        \* Button: the locals of the command it runs
  verify,      \* verifiers: uri to play again ("" resumes), round of the loop
  late,        \* plays of each verifier that Spotify accepted after a newer command
  player,      \* Spotify: the player state
  listed,      \* Spotify: our receiver is in the device list
  session,     \* librespot: its session is alive
  events       \* bound: merges, acts on the phone and losses so far

channelVars == <<contexts, cursor, current>>
spotifyVars == <<player, listed, session>>
frames == <<pc, attempt, dev, call, verify>>
vars == <<seq, mu, device, history, channelVars, frames, late, spotifyVars,
          events>>

Event == events < MaxEvents /\ events' = events + 1

-----------------------------------------------------------------------------
(* Spotify's answers. *)

\* isOurDevice and playingHere
OurDevice(st) == st # Nothing /\ st.here
PlayingHere(st) == OurDevice(st) /\ st.on

\* the context of a player state, NoUri when there is none
ContextOf(st) == IF st = Nothing THEN NoUri ELSE st.ctx

\* what a play command for uri u on our device leaves in the player
Started(u) ==
  [on |-> TRUE, here |-> TRUE,
   ctx |-> IF u # NoUri THEN u
           ELSE IF player = Nothing THEN NoUri ELSE player.ctx]

\* Spotify accepts a play command for a listed device.  When the receiver has
\* silently lost its session nothing plays and Spotify drops the device.
PlayAccepted(u) ==
  /\ listed
  /\ IF session
       THEN player' = Started(u) /\ UNCHANGED listed
       ELSE listed' = FALSE /\ UNCHANGED player
  /\ UNCHANGED session

PlayNotFound == ~listed /\ UNCHANGED spotifyVars      \* 404
PlayRefused == listed /\ UNCHANGED spotifyVars        \* any other error

-----------------------------------------------------------------------------
(* Helpers of the remote. *)

\* indexOf, counted from 1; 0 when absent
IndexOf(s, u) ==
  IF \E i \in DOMAIN s : s[i] = u
    THEN CHOOSE i \in DOMAIN s :
           s[i] = u /\ \A j \in DOMAIN s : s[j] = u => i <= j
    ELSE 0

\* the step of Select through n channels, with wrap-around:
\* forward is towards the more recent ones (lower indices)
StepFrom(i, n) ==
  IF call.forward THEN (IF i = 1 THEN n ELSE i - 1)
                  ELSE (IF i = n THEN 1 ELSE i + 1)

NoCall == [cmd |-> "toggle", forward |-> FALSE, state |-> Nothing, idx |-> 1,
           left |-> 0, mark |-> NoUri, again |-> NoUri]
NoVerify == [uri |-> NoUri, round |-> 0]

Goto(p, l) == pc' = [pc EXCEPT ![p] = l]

\* process p goes on at l, its locals as they are
Jump(p, l) == Goto(p, l) /\ UNCHANGED <<attempt, dev, call, verify>>

\* the process leaves withDevice: the command is over, or the verification
\* goes on with its next round if there is one
Return(p) ==
  /\ attempt' = [attempt EXCEPT ![p] = 0]
  /\ dev' = [dev EXCEPT ![p] = FALSE]
  /\ IF p = Button
       THEN Goto(p, "idle") /\ call' = NoCall /\ UNCHANGED verify
       ELSE IF verify[p].round < Rounds
         THEN /\ Goto(p, "sleep") /\ UNCHANGED call
              /\ verify' = [verify EXCEPT ![p].round = @ + 1]
         ELSE /\ Goto(p, "done") /\ UNCHANGED call
              /\ verify' = [verify EXCEPT ![p] = NoVerify]

\* verifyStarted(u), and the button's command is over
ReturnVerifying(u) ==
  /\ pc' = [pc EXCEPT ![Button] = "idle", ![seq] = "sleep"]
  /\ attempt' = [attempt EXCEPT ![Button] = 0]
  /\ dev' = [dev EXCEPT ![Button] = FALSE]
  /\ call' = NoCall
  /\ verify' = [verify EXCEPT ![seq] = [uri |-> u, round |-> 1]]

-----------------------------------------------------------------------------
(* withDevice, run by the button and by every verification.                *)
(* pc: "enter" -> "lookup" -> "call" -> (result), "gone" after a 404.      *)

ReadCache(p) ==
  /\ pc[p] = "enter" /\ mu = Free
  /\ dev' = [dev EXCEPT ![p] = device]
  /\ Goto(p, IF device THEN "call" ELSE "lookup")
  /\ UNCHANGED <<seq, mu, device, history, channelVars, attempt, call, verify,
                 late, spotifyVars, events>>

\* FindDevice finds our receiver; it is stored under the lock
Lookup(p) ==
  /\ pc[p] = "lookup" /\ listed /\ mu = Free
  /\ device' = TRUE
  /\ dev' = [dev EXCEPT ![p] = TRUE]
  /\ Goto(p, "call")
  /\ UNCHANGED <<seq, mu, history, channelVars, attempt, call, verify, late,
                 spotifyVars, events>>

\* ErrNoDevice: wait and look again, but not on the last attempt
LookupMissing(p) ==
  /\ pc[p] = "lookup" /\ ~listed
  /\ IF attempt[p] < Attempts - 1
       THEN /\ attempt' = [attempt EXCEPT ![p] = @ + 1]
            /\ UNCHANGED <<pc, dev, call, verify>>
       ELSE Return(p)
  /\ UNCHANGED <<seq, mu, device, history, channelVars, late, spotifyVars,
                 events>>

\* any other error of FindDevice ends withDevice
LookupFails(p) ==
  /\ pc[p] = "lookup"
  /\ Return(p)
  /\ UNCHANGED <<seq, mu, device, history, channelVars, late, spotifyVars,
                 events>>

\* fn returned a 404: drop the cached device, try again
DropDevice(p) ==
  /\ pc[p] = "gone" /\ mu = Free
  /\ device' = FALSE
  /\ IF attempt[p] + 1 < Attempts
       THEN /\ dev' = [dev EXCEPT ![p] = FALSE]
            /\ attempt' = [attempt EXCEPT ![p] = @ + 1]
            /\ Goto(p, "lookup") /\ UNCHANGED <<call, verify>>
       ELSE Return(p)
  /\ UNCHANGED <<seq, mu, history, channelVars, late, spotifyVars, events>>

WithDevice(p) ==
  \/ ReadCache(p) \/ Lookup(p) \/ LookupMissing(p) \/ LookupFails(p)
  \/ DropDevice(p)

-----------------------------------------------------------------------------
(* The button: Toggle, Select and Skip with the glue of IkeaButtons.       *)

\* a press reaches the remote; every command begins with bumpSeq.  A skip that
\* falls back to Toggle bumps twice.
Press(c, f) ==
  /\ pc[Button] = "idle"
  /\ seq + (IF c = "skip" THEN 2 ELSE 1) <= MaxSeq
  /\ seq' = seq + 1
  /\ call' = [call EXCEPT !.cmd = c, !.forward = f]
  /\ Goto(Button, "player")
  /\ UNCHANGED <<mu, device, history, channelVars, attempt, dev, verify, late,
                 spotifyVars, events>>

\* Player() fails: the command returns the error
PlayerFails ==
  /\ pc[Button] = "player"
  /\ Return(Button)
  /\ UNCHANGED <<seq, mu, device, history, channelVars, late, spotifyVars,
                 events>>

\* Player() answers: Toggle pauses when playing here and starts otherwise,
\* Select goes on in any case
ReadPlayer ==
  /\ pc[Button] = "player" /\ call.cmd # "skip"
  /\ call' = [call EXCEPT !.state = player]
  /\ Goto(Button, IF call.cmd = "toggle" /\ PlayingHere(player)
                    THEN "pause" ELSE "enter")
  /\ UNCHANGED <<seq, mu, device, history, channelVars, attempt, dev, verify,
                 late, spotifyVars, events>>

\* Skip while playing here: throttled, or a call of Next / Previous, after
\* which the player may have stopped ("previous" on the first track does)
SkipSong ==
  /\ pc[Button] = "player" /\ call.cmd = "skip" /\ PlayingHere(player)
  /\ \/ Return(Button)
     \/ Jump(Button, "skip")
  /\ UNCHANGED <<seq, mu, device, history, channelVars, late, spotifyVars,
                 events>>

\* Skip while not playing here: spotifySkip turns the press into a Toggle
SkipBecomesToggle ==
  /\ pc[Button] = "player" /\ call.cmd = "skip" /\ ~PlayingHere(player)
  /\ call' = [call EXCEPT !.cmd = "toggle"]
  /\ seq' = seq + 1
  /\ UNCHANGED <<mu, device, history, channelVars, pc, attempt, dev, verify,
                 late, spotifyVars, events>>

\* the call of Pause, Next or Previous; whatever its outcome the command is
\* over.  Only playback that is still ours and reachable is stopped.
StopCall ==
  /\ pc[Button] \in {"pause", "skip"}
  /\ Return(Button)
  /\ \/ UNCHANGED player
     \/ /\ listed /\ PlayingHere(player)
        /\ player' = [player EXCEPT !.on = FALSE]
  /\ UNCHANGED <<seq, mu, device, history, channelVars, late, listed, session,
                 events>>

\* start, in the morning window: play the morning playlist unless it is what
\* is paused right now
PlayMorning ==
  /\ pc[Button] = "call" /\ call.cmd = "toggle"
  /\ MorningUri # NoUri /\ ContextOf(call.state) # MorningUri
  /\ \/ /\ PlayAccepted(MorningUri)
        /\ call' = [call EXCEPT !.mark = MorningUri, !.again = MorningUri]
        /\ Goto(Button, "mark") /\ UNCHANGED <<attempt, dev, verify>>
     \/ PlayNotFound /\ Jump(Button, "gone")
     \/ PlayRefused /\ Jump(Button, "resume")
  /\ UNCHANGED <<seq, mu, device, history, channelVars, late, events>>

\* start, resuming what there is to resume (outside the morning window, or
\* after the morning playlist was refused)
Resume ==
  /\ pc[Button] \in {"call", "resume"} /\ call.cmd = "toggle"
  /\ call.state # Nothing
  /\ \/ /\ PlayAccepted(NoUri)
        /\ call' = [call EXCEPT !.mark = call.state.ctx, !.again = NoUri]
        /\ Goto(Button, "mark") /\ UNCHANGED <<attempt, dev, verify>>
     \/ PlayNotFound /\ Jump(Button, "gone")
     \/ PlayRefused /\ Jump(Button, "lock")
  /\ UNCHANGED <<seq, mu, device, history, channelVars, late, events>>

\* nothing to resume, or Select: go for a channel
GoForChannel ==
  /\ \/ pc[Button] \in {"call", "resume"} /\ call.cmd = "toggle"
                                          /\ call.state = Nothing
     \/ pc[Button] = "call" /\ call.cmd = "select"
  /\ Jump(Button, "lock")
  /\ UNCHANGED <<seq, mu, device, history, channelVars, late, spotifyVars,
                 events>>

\* mutant of Mark: setCurrent leaves the cursor where it was
MarkCurrentOnly ==
  /\ pc[Button] = "mark" /\ mu = Free
  /\ current' = IF call.mark # NoUri THEN call.mark ELSE current
  /\ ReturnVerifying(call.again)
  /\ UNCHANGED <<seq, mu, device, history, contexts, cursor, late, spotifyVars, events>>

\* setCurrent (when the resumed playback has a context), then verifyStarted
Mark ==
  /\ pc[Button] = "mark" /\ mu = Free
  /\ IF call.mark # NoUri
       THEN /\ current' = call.mark
            /\ cursor' = IndexOf(contexts, call.mark)
       ELSE UNCHANGED <<current, cursor>>
  /\ ReturnVerifying(call.again)
  /\ UNCHANGED <<seq, mu, device, history, contexts, late, spotifyVars, events>>

-----------------------------------------------------------------------------
(* refreshChannels and playChannel, with the lock held.                    *)

\* the end of refreshChannels on the list c, when cur is r.current, and the
\* choice of the first channel to play: the most recent one, or for Select the
\* neighbour of the selected one
AlignAndChoose(c, cur) ==
  LET front == cur # NoUri /\ IndexOf(c, cur) = 0
      list == IF front THEN <<cur>> \o c ELSE c
      at == IF cur = NoUri THEN 0 ELSE IF front THEN 1 ELSE IndexOf(c, cur)
      n == Len(list)
      cycle == call.cmd = "select" /\ at # 0
  IN /\ contexts' = list
     /\ cursor' = at
     /\ IF cycle /\ n = 1                      \* no other channel to select
          THEN mu' = Free /\ Return(Button)
          ELSE /\ mu' = Button
               /\ Goto(Button, "play") /\ UNCHANGED <<attempt, dev, verify>>
               /\ call' = [call EXCEPT
                             !.idx = IF cycle THEN StepFrom(at, n) ELSE 1,
                             !.left = IF cycle THEN n - 2 ELSE 0]

\* mutant of Noticed: what the user chose from the phone is not looked at
NoticedNothing == current

\* what refreshChannels takes for the current context: what plays or is paused
\* on our device, the user may have chosen it from the phone
Noticed ==
  IF OurDevice(call.state) /\ call.state.ctx # NoUri THEN call.state.ctx
                                                     ELSE current

\* refreshChannels with a list that is not stale
RefreshFresh ==
  /\ pc[Button] = "lock" /\ mu = Free
  /\ contexts # <<>>
  /\ current' = Noticed
  /\ AlignAndChoose(contexts, Noticed)
  /\ UNCHANGED <<seq, device, history, late, spotifyVars, events>>

\* refreshChannels with an empty or stale list: it gives the lock up to poll
RefreshStale ==
  /\ pc[Button] = "lock" /\ mu = Free
  /\ current' = Noticed
  /\ Jump(Button, "poll")
  /\ UNCHANGED <<seq, mu, device, history, contexts, cursor, late, spotifyVars,
                 events>>

\* mergeHistory under the lock: contexts enter the history or move in it, and
\* below the cap of 200 none leaves it (SpotifyHistory has the details)
MergeHistory ==
  /\ mu = Free
  /\ Event
  /\ history' \in {h \in Channels : Elements(history) \subseteq Elements(h)}

\* pollHistory of refreshChannels, best effort
RefreshPoll ==
  /\ pc[Button] = "poll"
  /\ MergeHistory \/ UNCHANGED <<history, events>>
  /\ Jump(Button, "relock")
  /\ UNCHANGED <<seq, mu, device, channelVars, late, spotifyVars>>

\* the lock is taken back and the list re-taken from the history
RefreshRelock ==
  /\ pc[Button] = "relock" /\ mu = Free
  /\ IF history = <<>>                        \* no listening history yet
       THEN contexts' = <<>> /\ Return(Button) /\ UNCHANGED <<mu, cursor>>
       ELSE AlignAndChoose(history, current)
  /\ UNCHANGED <<seq, device, history, current, late, spotifyVars, events>>

\* playChannel(idx) is accepted: the channel is selected, the lock released
PlayChannel ==
  /\ pc[Button] = "play" /\ mu = Button
  /\ PlayAccepted(contexts[call.idx])
  /\ cursor' = call.idx /\ current' = contexts[call.idx]
  /\ ReturnVerifying(contexts[call.idx])
  /\ mu' = Free
  /\ UNCHANGED <<seq, device, history, contexts, late, events>>

\* mutant of PlayChannelNotFound: the early return forgets the lock
PlayChannelNotFoundLocked ==
  /\ pc[Button] = "play" /\ mu = Button
  /\ PlayNotFound
  /\ Jump(Button, "gone")
  /\ UNCHANGED <<seq, mu, device, history, channelVars, late, events>>

\* 404: fn returns, its deferred unlock runs, withDevice tries again
PlayChannelNotFound ==
  /\ pc[Button] = "play" /\ mu = Button
  /\ PlayNotFound
  /\ mu' = Free /\ Jump(Button, "gone")
  /\ UNCHANGED <<seq, device, history, channelVars, late, events>>

\* any other error: Select skips to the next channel while there is one left,
\* otherwise the command fails
PlayChannelRefused ==
  /\ pc[Button] = "play" /\ mu = Button
  /\ PlayRefused
  /\ IF call.left > 0
       THEN /\ call' = [call EXCEPT !.idx = StepFrom(@, Len(contexts)),
                                    !.left = @ - 1]
            /\ UNCHANGED <<mu, pc, attempt, dev, verify>>
       ELSE mu' = Free /\ Return(Button)
  /\ UNCHANGED <<seq, device, history, channelVars, late, events>>

ButtonStep ==
  \/ PlayerFails \/ ReadPlayer \/ SkipSong \/ SkipBecomesToggle \/ StopCall
  \/ WithDevice(Button)
  \/ PlayMorning \/ Resume \/ GoForChannel \/ Mark
  \/ RefreshFresh \/ RefreshStale \/ RefreshPoll \/ RefreshRelock
  \/ PlayChannel \/ PlayChannelNotFound \/ PlayChannelRefused

-----------------------------------------------------------------------------
(* verifyStarted: sleep, check r.seq, ask Player(), drop the cached device *)
(* and play again.                                                         *)

EndVerification(v) ==
  /\ Goto(v, "done")
  /\ verify' = [verify EXCEPT ![v] = NoVerify]
  /\ UNCHANGED <<attempt, dev, call>>

\* mutant of VerifyCheck: r.seq is not compared
VerifyCheckNever(v) ==
  /\ pc[v] = "sleep" /\ Jump(v, "ask")
  /\ UNCHANGED <<seq, mu, device, history, channelVars, late, spotifyVars,
                 events>>

\* after the delay: superseded by a newer command?
VerifyCheck(v) ==
  /\ pc[v] = "sleep"
  /\ IF seq # v THEN EndVerification(v) ELSE Jump(v, "ask")
  /\ UNCHANGED <<seq, mu, device, history, channelVars, late, spotifyVars,
                 events>>

\* Player(): an error or a playing device ends the verification
VerifyPlayer(v) ==
  /\ pc[v] = "ask"
  /\ \/ EndVerification(v)
     \/ ~PlayingHere(player) /\ Jump(v, "reset")
  /\ UNCHANGED <<seq, mu, device, history, channelVars, late, spotifyVars,
                 events>>

VerifyReset(v) ==
  /\ pc[v] = "reset" /\ mu = Free
  /\ device' = FALSE
  /\ Jump(v, "enter")
  /\ UNCHANGED <<seq, mu, history, channelVars, late, spotifyVars, events>>

\* the play command of the retry is accepted
VerifyPlay(v) ==
  /\ pc[v] = "call"
  /\ PlayAccepted(verify[v].uri)
  /\ late' = [late EXCEPT ![v] = IF seq # v THEN @ + 1 ELSE @]
  /\ Return(v)
  /\ UNCHANGED <<seq, mu, device, history, channelVars, events>>

\* ... or not: a 404 goes back to withDevice, another error to the next round
VerifyPlayFails(v) ==
  /\ pc[v] = "call"
  /\ \/ PlayNotFound /\ Jump(v, "gone")
     \/ PlayRefused /\ Return(v)
  /\ UNCHANGED <<seq, mu, device, history, channelVars, late, events>>

VerifierStep(v) ==
  \/ VerifyCheck(v) \/ VerifyPlayer(v) \/ VerifyReset(v)
  \/ WithDevice(v)
  \/ VerifyPlay(v) \/ VerifyPlayFails(v)

-----------------------------------------------------------------------------
(* Around the remote. *)

\* Run's poller, and the library lookup of resolveMorningPlaylist
BackgroundPoll ==
  /\ MergeHistory
  /\ UNCHANGED <<seq, mu, device, channelVars, frames, late, spotifyVars>>

\* the user starts a context with the phone, here or elsewhere, pauses what
\* plays, or playback has been over for so long that Spotify forgets it
Phone ==
  /\ Event
  /\ \/ \E u \in Uris, here \in BOOLEAN :
          /\ here => listed /\ session
          /\ player' = [on |-> TRUE, here |-> here, ctx |-> u]
     \/ player # Nothing /\ player' = [player EXCEPT !.on = FALSE]
     \/ player # Nothing /\ ~player.on /\ player' = Nothing
  /\ UNCHANGED <<seq, mu, device, history, channelVars, frames, late, listed,
                 session>>

\* librespot crashes: playback here stops and Spotify no longer lists it
ReceiverCrash ==
  /\ Event
  /\ listed' = FALSE /\ session' = FALSE
  /\ player' = IF PlayingHere(player) THEN [player EXCEPT !.on = FALSE]
                                      ELSE player
  /\ UNCHANGED <<seq, mu, device, history, channelVars, frames, late>>

\* librespot silently loses its session while Spotify still lists it
SessionLost ==
  /\ Event
  /\ session /\ listed /\ ~PlayingHere(player)
  /\ session' = FALSE
  /\ UNCHANGED <<seq, mu, device, history, channelVars, frames, late, player,
                 listed>>

\* ... and registers again
Reregister ==
  /\ ~listed
  /\ listed' = TRUE /\ session' = TRUE
  /\ UNCHANGED <<seq, mu, device, history, channelVars, frames, late, player,
                 events>>

-----------------------------------------------------------------------------
Init ==
  /\ seq = 0 /\ mu = Free /\ device = FALSE
  /\ history \in Loaded
  /\ contexts = <<>> /\ cursor = 0 /\ current = NoUri
  /\ pc = [p \in Procs |-> IF p = Button THEN "idle" ELSE "none"]
  /\ attempt = [p \in Procs |-> 0]
  /\ dev = [p \in Procs |-> FALSE]
  /\ call = NoCall
  /\ verify = [v \in Verifiers |-> NoVerify]
  /\ late = [v \in Verifiers |-> 0]
  /\ player = Nothing /\ listed = TRUE /\ session = TRUE
  /\ events = 0

Next ==
  \/ Press("toggle", FALSE) \/ Press("skip", FALSE)
  \/ \E f \in BOOLEAN : Press("select", f)
  \/ ButtonStep
  \/ \E v \in Verifiers : VerifierStep(v)
  \/ BackgroundPoll
  \/ Phone \/ ReceiverCrash \/ SessionLost \/ Reregister

Spec == Init /\ [][Next]_vars

\* the goroutines of the program are scheduled and its calls return (the HTTP
\* client has a timeout of 15 s); nobody else owes anything
FairSpec ==
  /\ Spec
  /\ WF_vars(ButtonStep)
  /\ \A v \in Verifiers : WF_vars(VerifierStep(v))

-----------------------------------------------------------------------------
(* Properties. *)

ButtonPlaces == {"idle", "player", "pause", "skip", "enter", "lookup", "call",
                 "gone", "resume", "mark", "lock", "poll", "relock", "play"}
VerifierPlaces == {"none", "sleep", "ask", "reset", "enter", "lookup", "call",
                   "gone", "done"}

\* Types of the state of the remote, its goroutines and Spotify.
TypeOK ==
  /\ seq \in 0 .. MaxSeq
  /\ mu \in {Free, Button}
  /\ device \in BOOLEAN
  /\ history \in Channels
  /\ contexts \in Seq(Uris)
  /\ cursor \in Nat
  /\ current \in Uris \cup {NoUri}
  /\ pc \in [Procs -> ButtonPlaces \cup VerifierPlaces]
  /\ pc[Button] \in ButtonPlaces
  /\ attempt \in [Procs -> 0 .. Attempts]
  /\ dev \in [Procs -> BOOLEAN]
  /\ call \in [cmd : {"toggle", "select", "skip"}, forward : BOOLEAN,
               state : PlayerStates, idx : Int, left : Int,
               mark : Uris \cup {NoUri}, again : Uris \cup {NoUri}]
  /\ verify \in [Verifiers -> [uri : Uris \cup {NoUri}, round : 0 .. Rounds]]
  /\ late \in [Verifiers -> Nat]
  /\ player \in PlayerStates /\ listed \in BOOLEAN /\ session \in BOOLEAN
  /\ events \in 0 .. MaxEvents

\* Whenever the channel list is not being refreshed, the cursor the next press
\* steps from is the place of the current channel in a list without
\* duplicates, although the list, the cursor and the current channel are
\* written by different commands and the lock is given up in the middle of
\* refreshChannels (sound/spotify.go:525-577).  And the index the button plays
\* from is inside the list, also after the list was replaced, grew in front or
\* channels were skipped: r.contexts[idx] cannot panic (398-411, 510-511).
CursorAligned ==
  /\ pc[Button] \notin {"poll", "relock"} =>
       /\ Distinct(contexts)
       /\ cursor = IndexOf(contexts, current)
  /\ pc[Button] = "play" => mu = Button /\ call.idx \in DOMAIN contexts

\* A press of back or forward that selects a channel never selects the one
\* that was playing or paused here when the press came in, also when the user
\* had chosen that one from the phone (sound/spotify.go:541-577).
SelectMovesOn ==
  [][ PlayChannel /\ call.cmd = "select" /\ OurDevice(call.state)
        => current' # call.state.ctx ]_vars

\* A retry of a superseded command reaches Spotify at most once: the next
\* check of r.seq ends the verification (sound/spotify.go:480-505).
LateRetryBounded == \A v \in Verifiers : late[v] <= 1

\* The retries stop as soon as the user issues a newer command: no retry is
\* played for a command that is not the newest one (sound/spotify.go:475-476).
RetriesStopOnNewerCommand == \A v \in Verifiers : late[v] = 0

\* In the end every press has given the hub's goroutine back and every
\* verification is over, whatever the user, the receiver and Spotify do:
\* neither the lock nor the waits for a receiver that is gone hold them forever.
PressesEnd ==
  <>[](pc[Button] = "idle" /\ \A v \in Verifiers : pc[v] \in {"none", "done"})
=============================================================================
