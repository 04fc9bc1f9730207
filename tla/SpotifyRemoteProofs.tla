------------------------ MODULE SpotifyRemoteProofs ------------------------
(***************************************************************************)
(* For every set of contexts, number of commands, attempts and rounds, and *)
(* whatever the phone, the receiver and Spotify do: the cursor is that of  *)
(* the current channel, a press moves on, a superseded verification plays  *)
(* at most once, and no command or verification goes on for ever.          *)
(*                                                                         *)
(* The parts of the inductive invariant, each proved from the ones before: *)
(* types; where the button and the verifications can be (Places); who holds*)
(* the lock (Lock); the channel list (Aligned); how far a press that is    *)
(* refused has walked (Walked); what a late play leaves behind (Overtaken).*)
(*                                                                         *)
(* The end of commands and verifications is by a distance that their steps *)
(* make smaller in a well-founded order (NearerEnds, NearerTheEnd).        *)
(***************************************************************************)
EXTENDS SpotifyRemote, FiniteSetTheorems, WellFoundedInduction, TLAPS

-----------------------------------------------------------------------------
(* Channel lists. *)

\* A channel list is a sequence of contexts without duplicates.
LEMMA ChannelsAreSeqs ==
  ASSUME NEW h \in Channels, RemoteAssumption
  PROVE  h \in Seq(Uris) /\ Distinct(h)
  <1>1. Cardinality(Uris) \in Nat
    BY FS_CardinalityType DEF RemoteAssumption
  <1>2. PICK n \in 0 .. Cardinality(Uris) : h \in [1 .. n -> Uris]
    BY DEF Channels
  <1>3. n \in Nat
    BY <1>1, <1>2
  <1> QED
    BY <1>2, <1>3 DEF Channels

\* indexOf finds a place of u, or says that there is none.
LEMMA IndexOfFinds ==
  ASSUME NEW s \in Seq(Uris), NEW u, Distinct(s)
  PROVE  /\ IndexOf(s, u) \in 0 .. Len(s)
         /\ IndexOf(s, u) # 0 => s[IndexOf(s, u)] = u
         /\ IndexOf(s, u) = 0 <=> \A i \in DOMAIN s : s[i] # u
  <1>1. CASE \E i \in DOMAIN s : s[i] = u
    <2>1. PICK i \in DOMAIN s : s[i] = u
      BY <1>1
    <2>2. \A j \in DOMAIN s : s[j] = u => i <= j
      BY <2>1 DEF Distinct
    <2>3. /\ IndexOf(s, u) \in DOMAIN s
          /\ s[IndexOf(s, u)] = u
      BY <2>1, <2>2 DEF IndexOf
    <2> QED
      BY <2>1, <2>3
  <1>2. CASE ~ \E i \in DOMAIN s : s[i] = u
    BY <1>2 DEF IndexOf
  <1> QED
    BY <1>1, <1>2

\* In a list without duplicates a place is found by what is there.
LEMMA IndexOfAt ==
  ASSUME NEW s \in Seq(Uris), Distinct(s), NEW i \in DOMAIN s
  PROVE  IndexOf(s, s[i]) = i
  BY IndexOfFinds DEF Distinct

\* A context that is not in the list may be put in front of it.
LEMMA InFront ==
  ASSUME NEW s \in Seq(Uris), Distinct(s), NEW u \in Uris, IndexOf(s, u) = 0
  PROVE  /\ <<u>> \o s \in Seq(Uris)
         /\ Distinct(<<u>> \o s)
         /\ IndexOf(<<u>> \o s, u) = 1
         /\ Len(<<u>> \o s) = Len(s) + 1
  <1> DEFINE t == <<u>> \o s
  <1>1. /\ t \in Seq(Uris) /\ Len(t) = Len(s) + 1
        /\ t[1] = u
        /\ \A i \in DOMAIN t : i # 1 => i - 1 \in DOMAIN s /\ t[i] = s[i - 1]
    OBVIOUS
  <1>2. \A i \in DOMAIN s : s[i] # u
    BY IndexOfFinds
  <1>3. Distinct(t)
    <2> SUFFICES ASSUME NEW i \in DOMAIN t, NEW j \in DOMAIN t, t[i] = t[j]
                 PROVE  i = j
      BY DEF Distinct
    <2>1. CASE i = 1 /\ j = 1
      BY <2>1
    <2>2. CASE (i = 1 /\ j # 1) \/ (i # 1 /\ j = 1)
      BY <2>2, <1>1, <1>2
    <2>3. CASE i # 1 /\ j # 1
      <3>1. s[i - 1] = s[j - 1] /\ i - 1 \in DOMAIN s /\ j - 1 \in DOMAIN s
        BY <2>3, <1>1
      <3>2. i - 1 = j - 1
        BY <3>1 DEF Distinct
      <3> QED
        BY <3>2, <1>1
    <2> QED
      BY <2>1, <2>2, <2>3
  <1>4. 1 \in DOMAIN t
    BY <1>1
  <1>5. IndexOf(t, u) = 1
    BY <1>1, <1>3, <1>4, IndexOfAt
  <1> QED
    BY <1>1, <1>3, <1>5

-----------------------------------------------------------------------------
(* The inductive invariant. *)

\* A command begun has a number of its own, whose verification has not begun;
\* a skip that may still become a Toggle has one to spare.
Places ==
  /\ \A v \in Verifiers : pc[v] \in VerifierPlaces
  /\ \A v \in Verifiers : v > seq => pc[v] = "none"
  /\ pc[Button] # "idle" => seq \in Verifiers /\ pc[seq] = "none"
  /\ pc[Button] = "player" /\ call.cmd = "skip" => seq < MaxSeq

\* The button holds the lock over its steps while it plays a channel of the
\* list, and nobody else does.
Lock ==
  /\ mu = Button <=> pc[Button] = "play"
  /\ pc[Button] = "play" => call.idx \in DOMAIN contexts

\* The history never becomes empty again, nor does a list taken from it while
\* the cursor is on one of its channels.
Aligned ==
  /\ Distinct(contexts)
  /\ contexts = <<>> => cursor = 0
  /\ contexts # <<>> => history # <<>>
  /\ pc[Button] \notin {"poll", "relock"} => cursor = IndexOf(contexts, current)

\* The place i steps away from place c of n, in the direction of the press.
Away(c, i, n) ==
  IF call.forward THEN (IF c > i THEN c - i ELSE c - i + n)
                  ELSE (IF c + i <= n THEN c + i ELSE c + i - n)

\* What plays here when the press comes in stays the current channel until
\* another one is selected, and a channel tried is less than a round away.
Walked ==
  OurDevice(call.state) /\ call.state.ctx # NoUri =>
    /\ pc[Button] \in {"poll", "relock", "play"} => current = call.state.ctx
    /\ pc[Button] = "play" /\ call.cmd = "select" =>
         /\ cursor \in DOMAIN contexts
         /\ call.left \in 0 .. Len(contexts) - 2
         /\ call.idx = Away(cursor, Len(contexts) - 1 - call.left, Len(contexts))

\* A verification that played late is about to see it, or has.
Overtaken ==
  \A v \in Verifiers :
    /\ late[v] \in {0, 1}
    /\ late[v] = 1 => v < seq /\ pc[v] \in {"sleep", "done"}

IInv == TypeOK /\ Places /\ Lock /\ Aligned /\ Walked /\ Overtaken

-----------------------------------------------------------------------------
(* Types. *)

\* The places of the types that follow from the rest of the invariant.
LEMMA Ranges ==
  ASSUME RemoteAssumption, LoadedAssumption, TypeOK, Places
  PROVE  /\ Button \in Procs /\ Verifiers \subseteq Procs /\ Button \notin Verifiers
         /\ NoCall.state \notin PlayerState
         /\ Noticed \in Uris \cup {NoUri}
         /\ ContextOf(call.state) \in Uris \cup {NoUri}
         /\ MaxSeq \in Nat /\ Free # Button
         /\ \A v \in Verifiers : pc[v] \in VerifierPlaces
  BY DEF RemoteAssumption, TypeOK, Places, Button, Procs, Verifiers, Free, NoCall,
         PlayerState, PlayerStates, Noticed, OurDevice, ContextOf

\* The locals of a process that returns from withDevice.
LEMMA ReturnTypes ==
  ASSUME RemoteAssumption, LoadedAssumption, TypeOK, Places, NEW p \in Procs, Return(p)
  PROVE  /\ pc' \in [Procs -> ButtonPlaces \cup VerifierPlaces]
         /\ pc'[Button] \in ButtonPlaces
         /\ attempt' \in [Procs -> 0 .. Attempts] /\ dev' \in [Procs -> BOOLEAN]
         /\ call' = call \/ call' = NoCall
         /\ verify' \in [Verifiers -> [uri : Uris \cup {NoUri}, round : 0 .. Rounds]]
  <1>1. /\ Attempts \in Nat /\ Rounds \in Nat
        /\ pc \in [Procs -> ButtonPlaces \cup VerifierPlaces] /\ pc[Button] \in ButtonPlaces
        /\ attempt \in [Procs -> 0 .. Attempts] /\ dev \in [Procs -> BOOLEAN]
        /\ verify \in [Verifiers -> [uri : Uris \cup {NoUri}, round : 0 .. Rounds]]
        /\ p = Button \/ p \in Verifiers
        /\ Button \in Procs /\ Button \notin Verifiers
    BY Ranges DEF RemoteAssumption, TypeOK, Procs
  <1>2. attempt' \in [Procs -> 0 .. Attempts] /\ dev' \in [Procs -> BOOLEAN]
    BY <1>1 DEF Return
  <1>3. CASE p = Button
    <2>1. pc' = [pc EXCEPT ![p] = "idle"] /\ call' = NoCall /\ verify' = verify
      BY <1>3 DEF Return, Goto
    <2> QED
      BY <1>1, <1>2, <1>3, <2>1 DEF ButtonPlaces
  <1>4. CASE p \in Verifiers
    <2>1. p # Button /\ call' = call
      BY <1>1, <1>4 DEF Return
    <2>2. \/ pc' = [pc EXCEPT ![p] = "sleep"]
          \/ pc' = [pc EXCEPT ![p] = "done"]
      BY <2>1 DEF Return, Goto
    <2>3. pc' \in [Procs -> ButtonPlaces \cup VerifierPlaces] /\ pc'[Button] = pc[Button]
      BY <1>1, <2>1, <2>2 DEF VerifierPlaces
    <2>4. \/ verify' = [verify EXCEPT ![p] = NoVerify]
          \/ /\ verify[p].round < Rounds
             /\ verify' = [verify EXCEPT ![p].round = @ + 1]
      BY <2>1 DEF Return
    <2>5. verify' \in [Verifiers -> [uri : Uris \cup {NoUri}, round : 0 .. Rounds]]
      BY <1>1, <1>4, <2>4 DEF NoVerify
    <2> QED
      BY <1>1, <1>2, <2>1, <2>3, <2>5
  <1> QED
    BY <1>1, <1>3, <1>4

\* The place of a process after a step within its command or verification.
LEMMA GotoTypes ==
  ASSUME TypeOK, NEW p \in Procs, NEW l, Goto(p, l),
         l \in ButtonPlaces \/ (p # Button /\ l \in VerifierPlaces)
  PROVE  /\ pc' \in [Procs -> ButtonPlaces \cup VerifierPlaces]
         /\ pc'[Button] \in ButtonPlaces
  <1>1. pc \in [Procs -> ButtonPlaces \cup VerifierPlaces] /\ pc[Button] \in ButtonPlaces
    BY DEF TypeOK
  <1>2. Button \in Procs
    BY DEF Button, Procs
  <1> QED
    BY <1>1, <1>2 DEF Goto

\* The locals when a command leaves a verification behind.
LEMMA VerifyingTypes ==
  ASSUME RemoteAssumption, LoadedAssumption, TypeOK, Places,
         pc[Button] # "idle", NEW u \in Uris \cup {NoUri}, ReturnVerifying(u)
  PROVE  /\ pc' \in [Procs -> ButtonPlaces \cup VerifierPlaces]
         /\ pc'[Button] \in ButtonPlaces
         /\ attempt' \in [Procs -> 0 .. Attempts] /\ dev' \in [Procs -> BOOLEAN]
         /\ call' = NoCall
         /\ verify' \in [Verifiers -> [uri : Uris \cup {NoUri}, round : 0 .. Rounds]]
  <1>1. /\ Attempts \in Nat /\ 1 \in 0 .. Rounds
        /\ pc \in [Procs -> ButtonPlaces \cup VerifierPlaces] /\ pc[Button] \in ButtonPlaces
        /\ attempt \in [Procs -> 0 .. Attempts] /\ dev \in [Procs -> BOOLEAN]
        /\ verify \in [Verifiers -> [uri : Uris \cup {NoUri}, round : 0 .. Rounds]]
        /\ seq \in Verifiers /\ seq \in Procs /\ seq # Button
        /\ Button \in Procs
    BY Ranges DEF RemoteAssumption, TypeOK, Places
  <1>2. pc' = [pc EXCEPT ![Button] = "idle", ![seq] = "sleep"]
    BY DEF ReturnVerifying
  <1>3. pc' \in [Procs -> ButtonPlaces \cup VerifierPlaces] /\ pc'[Button] = "idle"
    BY <1>1, <1>2 DEF VerifierPlaces, ButtonPlaces
  <1>4. attempt' \in [Procs -> 0 .. Attempts] /\ dev' \in [Procs -> BOOLEAN]
    BY <1>1 DEF ReturnVerifying
  <1>5. verify' \in [Verifiers -> [uri : Uris \cup {NoUri}, round : 0 .. Rounds]]
    BY <1>1 DEF ReturnVerifying
  <1> QED
    BY <1>3, <1>4, <1>5 DEF ReturnVerifying, ButtonPlaces

\* What Spotify has after it accepted a play command.
LEMMA PlayedTypes ==
  ASSUME TypeOK, NEW u \in Uris \cup {NoUri}, PlayAccepted(u)
  PROVE  player' \in PlayerStates /\ listed' \in BOOLEAN /\ session' \in BOOLEAN
  <1>1. player \in PlayerState \/ player = Nothing
    BY DEF TypeOK, PlayerStates
  <1>2. Started(u) \in PlayerState
    <2> DEFINE ctx == IF u # NoUri THEN u
                      ELSE IF player = Nothing THEN NoUri ELSE player.ctx
    <2>1. ctx \in Uris \cup {NoUri}
      BY <1>1 DEF PlayerState
    <2>2. Started(u) = [on |-> TRUE, here |-> TRUE, ctx |-> ctx]
      BY DEF Started
    <2> HIDE DEF ctx
    <2> QED
      BY <2>1, <2>2 DEF PlayerState
  <1>3. player' = Started(u) \/ player' = player
    BY DEF PlayAccepted
  <1> QED
    BY <1>1, <1>2, <1>3 DEF TypeOK, PlayAccepted, PlayerStates

\* Taking the list c, in which cur is current, keeps it aligned; when a channel
\* is played next its place is inside the list.
LEMMA AlignTypes ==
  ASSUME RemoteAssumption, LoadedAssumption, TypeOK, Places,
         NEW c \in Seq(Uris), Distinct(c), c # <<>>,
         NEW cur \in Uris \cup {NoUri}, AlignAndChoose(c, cur)
  PROVE  /\ contexts' \in Seq(Uris) /\ Distinct(contexts') /\ contexts' # <<>>
         /\ cursor' \in Nat /\ cursor' = IndexOf(contexts', cur)
         /\ cur # NoUri => cursor' \in DOMAIN contexts'
         /\ \/ mu' = Free /\ Return(Button)
            \/ /\ mu' = Button /\ Goto(Button, "play") /\ UNCHANGED <<attempt, dev, verify>>
               /\ call' = [call EXCEPT !.idx = call'.idx, !.left = call'.left]
               /\ call'.idx \in DOMAIN contexts' /\ call'.left \in Int
               /\ call.cmd = "select" /\ cursor' # 0 =>
                    /\ call'.left = Len(contexts') - 2
                    /\ Len(contexts') # 1
                    /\ call'.idx = StepFrom(cursor', Len(contexts'))
  <1> DEFINE front == cur # NoUri /\ IndexOf(c, cur) = 0
             list == IF front THEN <<cur>> \o c ELSE c
             at == IF cur = NoUri THEN 0 ELSE IF front THEN 1 ELSE IndexOf(c, cur)
             n == Len(list)
             cycle == call.cmd = "select" /\ at # 0
  <1>1. /\ list \in Seq(Uris) /\ Distinct(list) /\ n \in Nat \ {0}
        /\ DOMAIN list = 1 .. n
    BY InFront
  <1>2. at = IndexOf(list, cur) /\ at \in 0 .. n /\ (cur # NoUri => at # 0)
    <2>1. CASE cur = NoUri
      <3>1. \A i \in DOMAIN c : c[i] # NoUri
        BY DEF RemoteAssumption
      <3> QED
        BY <1>1, <2>1, <3>1, IndexOfFinds
    <2>2. CASE cur # NoUri
      BY <1>1, <2>2, InFront, IndexOfFinds
    <2> QED
      BY <2>1, <2>2
  <1>3. contexts' = list /\ cursor' = at
    BY DEF AlignAndChoose
  <1>4. CASE cycle /\ n = 1
    BY <1>1, <1>2, <1>3, <1>4 DEF AlignAndChoose
  <1>5. CASE ~(cycle /\ n = 1)
    <2>1. /\ mu' = Button /\ Goto(Button, "play") /\ UNCHANGED <<attempt, dev, verify>>
          /\ call' = [call EXCEPT !.idx = IF cycle THEN StepFrom(at, n) ELSE 1,
                                  !.left = IF cycle THEN n - 2 ELSE 0]
      BY <1>5 DEF AlignAndChoose
    <2>2. /\ call'.idx = IF cycle THEN StepFrom(at, n) ELSE 1
          /\ call'.left = IF cycle THEN n - 2 ELSE 0
          /\ call' = [call EXCEPT !.idx = call'.idx, !.left = call'.left]
      BY <2>1 DEF TypeOK
    <2> HIDE DEF list, at
    <2>3. call'.idx \in 1 .. n /\ call'.left \in Int
      BY <1>1, <1>2, <2>2 DEF StepFrom
    <2> QED
      BY <1>1, <1>2, <1>3, <1>5, <2>1, <2>2, <2>3
  <1> QED
    BY <1>4, <1>5

\* Merging contexts into the history leaves a channel list that has them all.
LEMMA Merged ==
  ASSUME RemoteAssumption, LoadedAssumption, TypeOK, MergeHistory
  PROVE  /\ history' \in Channels /\ events' \in 0 .. MaxEvents
         /\ history # <<>> => history' # <<>>
         /\ mu = Free
  <1>1. history' \in Channels /\ Elements(history) \subseteq Elements(history')
    BY DEF MergeHistory
  <1>2. history \in Seq(Uris) /\ history' \in Seq(Uris)
    BY <1>1, ChannelsAreSeqs DEF TypeOK
  <1>3. history # <<>> => history' # <<>>
    <2> SUFFICES ASSUME history # <<>>, history' = <<>> PROVE FALSE
      OBVIOUS
    <2>1. history[1] \in Elements(history)
      BY <1>2 DEF Elements
    <2> QED
      BY <1>1, <2>1 DEF Elements
  <1>4. events' \in 0 .. MaxEvents
    BY DEF MergeHistory, Event, TypeOK, RemoteAssumption
  <1> QED
    BY <1>1, <1>3, <1>4 DEF MergeHistory

\* A step of withDevice keeps the types.
LEMMA WithDeviceTypes ==
  ASSUME RemoteAssumption, LoadedAssumption, TypeOK, Places, NEW p \in Procs, WithDevice(p)
  PROVE  TypeOK'
  <1>1. /\ Attempts \in Nat /\ device \in BOOLEAN
        /\ attempt \in [Procs -> 0 .. Attempts] /\ dev \in [Procs -> BOOLEAN]
        /\ NoCall \in [cmd : {"toggle", "select", "skip"}, forward : BOOLEAN,
                       state : PlayerStates, idx : Int, left : Int,
                       mark : Uris \cup {NoUri}, again : Uris \cup {NoUri}]
        /\ {"lookup", "call"} \subseteq ButtonPlaces
    BY DEF RemoteAssumption, TypeOK, NoCall, PlayerStates, ButtonPlaces
  <1>2. CASE ReadCache(p)
    <2>1. /\ dev' \in [Procs -> BOOLEAN]
          /\ Goto(p, "call") \/ Goto(p, "lookup")
      BY <1>1, <1>2 DEF ReadCache
    <2> QED
      BY <1>1, <1>2, <2>1, GotoTypes DEF ReadCache, TypeOK, channelVars, spotifyVars
  <1>3. CASE Lookup(p)
    <2>1. dev' \in [Procs -> BOOLEAN] /\ Goto(p, "call")
      BY <1>1, <1>3 DEF Lookup
    <2> QED
      BY <1>1, <1>3, <2>1, GotoTypes DEF Lookup, TypeOK, channelVars, spotifyVars
  <1>4. CASE LookupMissing(p)
    <2>1. CASE attempt[p] < Attempts - 1
      <3>1. attempt' \in [Procs -> 0 .. Attempts]
        BY <1>1, <1>4, <2>1 DEF LookupMissing
      <3> QED
        BY <1>4, <2>1, <3>1 DEF LookupMissing, TypeOK, channelVars, spotifyVars
    <2>2. CASE ~(attempt[p] < Attempts - 1)
      <3>1. Return(p)
        BY <1>4, <2>2 DEF LookupMissing
      <3> QED
        BY <1>1, <1>4, <3>1, ReturnTypes DEF LookupMissing, TypeOK, channelVars, spotifyVars
    <2> QED
      BY <2>1, <2>2
  <1>5. CASE LookupFails(p)
    BY <1>1, <1>5, ReturnTypes DEF LookupFails, TypeOK, channelVars, spotifyVars
  <1>6. CASE DropDevice(p)
    <2>1. CASE attempt[p] + 1 < Attempts
      <3>1. attempt' \in [Procs -> 0 .. Attempts] /\ dev' \in [Procs -> BOOLEAN]
        <4>1. /\ attempt' = [attempt EXCEPT ![p] = @ + 1]
              /\ dev' = [dev EXCEPT ![p] = FALSE]
          BY <1>6, <2>1 DEF DropDevice
        <4>2. attempt[p] + 1 \in 0 .. Attempts
          BY <1>1, <2>1
        <4> QED
          BY <1>1, <4>1, <4>2
      <3>2. Goto(p, "lookup")
        BY <1>6, <2>1 DEF DropDevice
      <3> QED
        BY <1>1, <1>6, <2>1, <3>1, <3>2, GotoTypes
        DEF DropDevice, TypeOK, channelVars, spotifyVars
    <2>2. CASE ~(attempt[p] + 1 < Attempts)
      <3>1. Return(p)
        BY <1>6, <2>2 DEF DropDevice
      <3> QED
        BY <1>1, <1>6, <3>1, ReturnTypes DEF DropDevice, TypeOK, channelVars, spotifyVars
    <2> QED
      BY <2>1, <2>2
  <1> QED
    BY <1>2, <1>3, <1>4, <1>5, <1>6 DEF WithDevice

\* What a command's locals are.
CallType ==
  [cmd : {"toggle", "select", "skip"}, forward : BOOLEAN,
   state : PlayerStates, idx : Int, left : Int,
   mark : Uris \cup {NoUri}, again : Uris \cup {NoUri}]

\* A step of the button outside withDevice keeps the types.
LEMMA ButtonTypes ==
  ASSUME RemoteAssumption, LoadedAssumption, IInv,
         \/ PlayerFails \/ ReadPlayer \/ SkipSong \/ SkipBecomesToggle \/ StopCall
         \/ PlayMorning \/ Resume \/ GoForChannel \/ Mark
         \/ RefreshFresh \/ RefreshStale \/ RefreshPoll \/ RefreshRelock
         \/ PlayChannel \/ PlayChannelNotFound \/ PlayChannelRefused
  PROVE  TypeOK'
  <1> USE DEF IInv
  <1>1. /\ call \in CallType /\ NoCall \in CallType
        /\ Button \in Procs /\ Free # Button
        /\ NoUri \in Uris \cup {NoUri}
        /\ {"player", "pause", "skip", "enter", "call", "gone", "resume", "mark", "lock",
            "poll", "relock", "play"} \subseteq ButtonPlaces
    BY Ranges DEF TypeOK, CallType, NoCall, PlayerStates, ButtonPlaces
  <1>2. CASE PlayerFails
    BY <1>1, <1>2, ReturnTypes DEF PlayerFails, TypeOK, channelVars, spotifyVars, CallType
  <1>3. CASE ReadPlayer
    <2>1. call' \in CallType
      BY <1>1, <1>3 DEF ReadPlayer, TypeOK, CallType
    <2>2. Goto(Button, "pause") \/ Goto(Button, "enter")
      BY <1>3 DEF ReadPlayer
    <2> QED
      BY <1>1, <1>3, <2>1, <2>2, GotoTypes
      DEF ReadPlayer, TypeOK, channelVars, spotifyVars, CallType
  <1>4. CASE SkipSong
    <2>1. CASE Return(Button)
      BY <1>1, <1>4, <2>1, ReturnTypes DEF SkipSong, TypeOK, channelVars, spotifyVars, CallType
    <2>2. CASE Jump(Button, "skip")
      BY <1>1, <1>4, <2>2, GotoTypes
      DEF SkipSong, Jump, TypeOK, channelVars, spotifyVars
    <2> QED
      BY <1>4, <2>1, <2>2 DEF SkipSong
  <1>5. CASE SkipBecomesToggle
    <2>1. call' \in CallType
      BY <1>1, <1>5 DEF SkipBecomesToggle, CallType
    <2>2. seq' \in 0 .. MaxSeq
      BY <1>5 DEF SkipBecomesToggle, Places, TypeOK, RemoteAssumption
    <2> QED
      BY <1>5, <2>1, <2>2 DEF SkipBecomesToggle, TypeOK, channelVars, spotifyVars, CallType
  <1>6. CASE StopCall
    <2>1. player' \in PlayerStates
      BY <1>6 DEF StopCall, TypeOK, PlayerStates, PlayerState, PlayingHere, OurDevice
    <2>2. Return(Button)
      BY <1>6 DEF StopCall
    <2> QED
      BY <1>1, <1>6, <2>1, <2>2, ReturnTypes DEF StopCall, TypeOK, channelVars, CallType
  <1>7. CASE PlayMorning \/ Resume
    <2>1. PICK u \in Uris \cup {NoUri}, m \in Uris \cup {NoUri} :
            \/ /\ PlayAccepted(u)
               /\ call' = [call EXCEPT !.mark = m, !.again = u]
               /\ Goto(Button, "mark") /\ UNCHANGED <<attempt, dev, verify>>
            \/ PlayNotFound /\ Jump(Button, "gone")
            \/ PlayRefused /\ Jump(Button, "resume")
            \/ PlayRefused /\ Jump(Button, "lock")
      <3>1. CASE PlayMorning
        BY <3>1 DEF PlayMorning, RemoteAssumption
      <3>2. CASE Resume
        <4>1. call.state.ctx \in Uris \cup {NoUri}
          BY <3>2 DEF Resume, TypeOK, PlayerStates, PlayerState
        <4> QED
          BY <1>1, <3>2, <4>1 DEF Resume
      <3> QED
        BY <1>7, <3>1, <3>2
    <2>2. UNCHANGED <<seq, mu, device, history, channelVars, late, events>>
      BY <1>7 DEF PlayMorning, Resume
    <2>3. CASE PlayAccepted(u) /\ call' = [call EXCEPT !.mark = m, !.again = u]
               /\ Goto(Button, "mark") /\ UNCHANGED <<attempt, dev, verify>>
      <3>1. call' \in CallType
        BY <1>1, <2>3 DEF CallType
      <3> QED
        BY <1>1, <2>2, <2>3, <3>1, GotoTypes, PlayedTypes DEF TypeOK, channelVars, CallType
    <2>4. ASSUME UNCHANGED spotifyVars, NEW l \in ButtonPlaces, Jump(Button, l)
          PROVE  TypeOK'
      BY <1>1, <2>2, <2>4, GotoTypes DEF Jump, TypeOK, channelVars, spotifyVars
    <2> QED
      BY <1>1, <2>1, <2>3, <2>4 DEF PlayNotFound, PlayRefused
  <1>8. CASE GoForChannel
    BY <1>1, <1>8, GotoTypes DEF GoForChannel, Jump, TypeOK, channelVars, spotifyVars
  <1>9. CASE Mark
    <2>1. current' \in Uris \cup {NoUri} /\ cursor' \in Nat
      BY <1>1, <1>9, IndexOfFinds DEF Mark, TypeOK, CallType, Aligned
    <2>2. ReturnVerifying(call.again) /\ pc[Button] # "idle" /\ call.again \in Uris \cup {NoUri}
      BY <1>1, <1>9 DEF Mark, CallType
    <2> QED
      BY <1>1, <1>9, <2>1, <2>2, VerifyingTypes DEF Mark, TypeOK, spotifyVars, CallType
  <1>10. CASE RefreshFresh \/ (RefreshRelock /\ history # <<>>)
    <2>1. PICK c \in Seq(Uris), cur \in Uris \cup {NoUri} :
            /\ Distinct(c) /\ c # <<>> /\ AlignAndChoose(c, cur) /\ current' = cur
      <3>1. CASE RefreshFresh
        BY <3>1, Ranges DEF RefreshFresh, TypeOK, Aligned
      <3>2. CASE RefreshRelock /\ history # <<>>
        BY <3>2, ChannelsAreSeqs DEF RefreshRelock, TypeOK
      <3> QED
        BY <1>10, <3>1, <3>2
    <2>2. UNCHANGED <<seq, device, history, late, spotifyVars, events>>
      BY <1>10 DEF RefreshFresh, RefreshRelock
    <2>3. contexts' \in Seq(Uris) /\ cursor' \in Nat /\ mu' \in {Free, Button}
      BY <2>1, AlignTypes
    <2>4. CASE Return(Button)
      BY <1>1, <2>1, <2>2, <2>3, <2>4, ReturnTypes DEF TypeOK, spotifyVars, CallType
    <2>5. CASE /\ Goto(Button, "play") /\ UNCHANGED <<attempt, dev, verify>>
               /\ call' = [call EXCEPT !.idx = call'.idx, !.left = call'.left]
               /\ call'.idx \in DOMAIN contexts' /\ call'.left \in Int
      <3>1. call'.idx \in Int
        BY <2>3, <2>5
      <3>2. call' \in CallType
        BY <1>1, <2>5, <3>1 DEF CallType
      <3> QED
        BY <1>1, <2>1, <2>2, <2>3, <2>5, <3>2, GotoTypes DEF TypeOK, spotifyVars, CallType
    <2> QED
      BY <2>1, <2>4, <2>5, AlignTypes
  <1>11. CASE RefreshRelock /\ history = <<>>
    <2>1. Return(Button) /\ contexts' = <<>>
          /\ UNCHANGED <<seq, mu, device, history, cursor, current, late, spotifyVars, events>>
      BY <1>11 DEF RefreshRelock
    <2>2. contexts' \in Seq(Uris)
      BY <2>1
    <2> QED
      BY <1>1, <2>1, <2>2, ReturnTypes DEF TypeOK, spotifyVars, CallType
  <1>12. CASE RefreshStale
    <2>1. current' \in Uris \cup {NoUri}
      BY <1>12, Ranges DEF RefreshStale
    <2> QED
      BY <1>1, <1>12, <2>1, GotoTypes DEF RefreshStale, Jump, TypeOK, spotifyVars
  <1>13. CASE RefreshPoll
    <2>1. history' \in Channels /\ events' \in 0 .. MaxEvents
      BY <1>13, Merged DEF RefreshPoll, TypeOK
    <2> QED
      BY <1>1, <1>13, <2>1, GotoTypes DEF RefreshPoll, Jump, TypeOK, channelVars, spotifyVars
  <1>14. CASE PlayChannel
    <2>1. /\ contexts[call.idx] \in Uris \cup {NoUri} /\ call.idx \in Nat
          /\ pc[Button] # "idle"
      BY <1>14 DEF PlayChannel, Lock, TypeOK
    <2>2. /\ ReturnVerifying(contexts[call.idx]) /\ PlayAccepted(contexts[call.idx])
          /\ cursor' = call.idx /\ current' = contexts[call.idx] /\ mu' = Free
          /\ UNCHANGED <<seq, device, history, contexts, late, events>>
      BY <1>14 DEF PlayChannel
    <2> QED
      BY <1>1, <2>1, <2>2, VerifyingTypes, PlayedTypes DEF TypeOK, CallType
  <1>15. CASE PlayChannelNotFound
    BY <1>1, <1>15, GotoTypes
    DEF PlayChannelNotFound, PlayNotFound, Jump, TypeOK, channelVars, spotifyVars
  <1>16. CASE PlayChannelRefused
    <2>1. CASE call.left > 0
      <3>1. StepFrom(call.idx, Len(contexts)) \in Int /\ call.left - 1 \in Int
        BY <1>1, <2>1 DEF StepFrom, CallType, TypeOK
      <3>2. call' = [call EXCEPT !.idx = StepFrom(call.idx, Len(contexts)),
                                 !.left = call.left - 1]
        BY <1>1, <1>16, <2>1 DEF PlayChannelRefused, CallType
      <3>3. call' \in CallType
        BY <1>1, <3>1, <3>2 DEF CallType
      <3> QED
        BY <1>16, <2>1, <3>3
        DEF PlayChannelRefused, PlayRefused, TypeOK, channelVars, spotifyVars, CallType
    <2>2. CASE ~(call.left > 0)
      BY <1>1, <1>16, <2>2, ReturnTypes
      DEF PlayChannelRefused, PlayRefused, TypeOK, channelVars, spotifyVars, CallType
    <2> QED
      BY <2>1, <2>2
  <1> QED
    BY <1>2, <1>3, <1>4, <1>5, <1>6, <1>7, <1>8, <1>9, <1>10, <1>11, <1>12, <1>13, <1>14,
       <1>15, <1>16

\* So does a step of a verification.
LEMMA VerifierTypes ==
  ASSUME RemoteAssumption, LoadedAssumption, IInv, NEW v \in Verifiers, VerifierStep(v)
  PROVE  TypeOK'
  <1> USE DEF IInv
  <1>1. /\ v \in Procs /\ v # Button
        /\ {"ask", "reset", "enter", "gone", "done"} \subseteq VerifierPlaces
        /\ NoVerify \in [uri : Uris \cup {NoUri}, round : 0 .. Rounds]
        /\ verify[v].uri \in Uris \cup {NoUri}
    BY Ranges DEF VerifierPlaces, NoVerify, TypeOK, RemoteAssumption
  <1>2. ASSUME NEW l \in VerifierPlaces, Jump(v, l), device' \in BOOLEAN,
               UNCHANGED <<seq, mu, history, channelVars, late, spotifyVars, events>>
        PROVE  TypeOK'
    BY <1>1, <1>2, GotoTypes DEF Jump, TypeOK, channelVars, spotifyVars
  <1>3. ASSUME EndVerification(v),
               UNCHANGED <<seq, mu, device, history, channelVars, late, spotifyVars, events>>
        PROVE  TypeOK'
    <2>1. verify' \in [Verifiers -> [uri : Uris \cup {NoUri}, round : 0 .. Rounds]]
      BY <1>1, <1>3 DEF EndVerification, TypeOK
    <2> QED
      BY <1>1, <1>3, <2>1, GotoTypes DEF EndVerification, TypeOK, channelVars, spotifyVars
  <1>4. ASSUME Return(v), PlayAccepted(verify[v].uri) \/ UNCHANGED spotifyVars,
               late' \in [Verifiers -> Nat],
               UNCHANGED <<seq, mu, device, history, channelVars, events>>
        PROVE  TypeOK'
    <2>1. player' \in PlayerStates /\ listed' \in BOOLEAN /\ session' \in BOOLEAN
      BY <1>1, <1>4, PlayedTypes DEF TypeOK, spotifyVars
    <2>2. call' \in CallType
      BY <1>1, <1>4 DEF Return, TypeOK, CallType
    <2> QED
      BY <1>1, <1>4, <2>1, <2>2, ReturnTypes DEF TypeOK, channelVars, CallType
  <1>5. CASE VerifyCheck(v)
    BY <1>1, <1>2, <1>3, <1>5 DEF VerifyCheck, TypeOK
  <1>6. CASE VerifyPlayer(v)
    BY <1>1, <1>2, <1>3, <1>6 DEF VerifyPlayer, TypeOK
  <1>7. CASE VerifyReset(v)
    BY <1>1, <1>2, <1>7 DEF VerifyReset
  <1>8. CASE WithDevice(v)
    BY <1>1, <1>8, WithDeviceTypes
  <1>9. CASE VerifyPlay(v)
    <2>1. late' \in [Verifiers -> Nat]
      BY <1>9 DEF VerifyPlay, TypeOK
    <2> QED
      BY <1>4, <1>9, <2>1 DEF VerifyPlay
  <1>10. CASE VerifyPlayFails(v)
    <2>1. late' \in [Verifiers -> Nat] /\ device' \in BOOLEAN
      BY <1>10 DEF VerifyPlayFails, TypeOK
    <2> QED
      BY <1>1, <1>2, <1>4, <1>10, <2>1 DEF VerifyPlayFails, PlayNotFound, PlayRefused
  <1> QED
    BY <1>5, <1>6, <1>7, <1>8, <1>9, <1>10 DEF VerifierStep

\* The poller, the phone and the receiver.
Around ==
  BackgroundPoll \/ Phone \/ ReceiverCrash \/ SessionLost \/ Reregister

\* They keep the types.
LEMMA AroundTypes ==
  ASSUME RemoteAssumption, LoadedAssumption, TypeOK, Around
  PROVE  TypeOK'
  <1>1. CASE BackgroundPoll
    BY <1>1, Merged DEF BackgroundPoll, TypeOK, channelVars, frames, spotifyVars
  <1>2. CASE Phone
    <2>1. player' \in PlayerStates
      <3>1. player \in PlayerState \/ player = Nothing
        BY DEF TypeOK, PlayerStates
      <3>2. \/ \E u \in Uris, here \in BOOLEAN :
                 player' = [on |-> TRUE, here |-> here, ctx |-> u]
            \/ player # Nothing /\ player' = [player EXCEPT !.on = FALSE]
            \/ player' = Nothing
        BY <1>2 DEF Phone
      <3>3. player # Nothing => [player EXCEPT !.on = FALSE] \in PlayerState
        BY <3>1 DEF PlayerState
      <3>4. \A u \in Uris, here \in BOOLEAN :
              [on |-> TRUE, here |-> here, ctx |-> u] \in PlayerState
        BY DEF PlayerState
      <3> QED
        BY <3>2, <3>3, <3>4 DEF PlayerStates
    <2>2. events' \in 0 .. MaxEvents
      BY <1>2 DEF Phone, Event, TypeOK, RemoteAssumption
    <2> QED
      BY <1>2, <2>1, <2>2 DEF Phone, TypeOK, channelVars, frames
  <1>3. CASE ReceiverCrash \/ SessionLost
    <2>1. player' \in PlayerStates
      BY <1>3 DEF ReceiverCrash, SessionLost, TypeOK, PlayerStates, PlayerState,
                  PlayingHere, OurDevice
    <2>2. events' \in 0 .. MaxEvents
      BY <1>3 DEF ReceiverCrash, SessionLost, Event, TypeOK, RemoteAssumption
    <2> QED
      BY <1>3, <2>1, <2>2 DEF ReceiverCrash, SessionLost, TypeOK, channelVars, frames
  <1>4. CASE Reregister
    BY <1>4 DEF Reregister, TypeOK, channelVars, frames
  <1> QED
    BY <1>1, <1>2, <1>3, <1>4 DEF Around

\* A press keeps the types.
LEMMA PressTypes ==
  ASSUME RemoteAssumption, LoadedAssumption, TypeOK,
         NEW c \in {"toggle", "select", "skip"}, NEW f \in BOOLEAN, Press(c, f)
  PROVE  TypeOK'
  <1>1. seq' \in 0 .. MaxSeq
    BY DEF Press, TypeOK, RemoteAssumption
  <1>2. call' \in CallType
    BY DEF Press, TypeOK, CallType
  <1>3. Goto(Button, "player") /\ "player" \in ButtonPlaces /\ Button \in Procs
    BY DEF Press, ButtonPlaces, Procs
  <1> QED
    BY <1>1, <1>2, <1>3, GotoTypes DEF Press, TypeOK, CallType, channelVars, spotifyVars

\* Every press is one of the three commands.
Presses == \E c \in {"toggle", "select", "skip"}, f \in BOOLEAN : Press(c, f)

\* Types are kept.
LEMMA TypesKept ==
  ASSUME RemoteAssumption, LoadedAssumption, IInv, [Next]_vars
  PROVE  TypeOK'
  <1>1. CASE UNCHANGED vars
    BY <1>1 DEF IInv, TypeOK, vars, channelVars, frames, spotifyVars
  <1>2. CASE Presses
    BY <1>2, PressTypes DEF IInv, Presses
  <1>3. CASE ButtonStep
    BY <1>3, ButtonTypes, WithDeviceTypes, Ranges DEF IInv, ButtonStep
  <1>4. CASE \E v \in Verifiers : VerifierStep(v)
    BY <1>4, VerifierTypes
  <1>5. CASE Around
    BY <1>5, AroundTypes DEF IInv
  <1> QED
    BY <1>1, <1>2, <1>3, <1>4, <1>5 DEF Next, Presses, Around

-----------------------------------------------------------------------------
(* Where everybody is, and what a late play leaves behind. *)

\* A process stays where it is.
LEMMA Stays ==
  ASSUME TypeOK, NEW p \in Procs, pc' = pc
  PROVE  Goto(p, pc[p])
  BY DEF TypeOK, Goto

\* A step of withDevice moves its process alone, to another of its places.
LEMMA WithDeviceMoves ==
  ASSUME TypeOK, NEW p \in Procs, WithDevice(p)
  PROVE  /\ pc[p] \in {"enter", "lookup", "gone"}
         /\ Goto(p, "call") \/ Goto(p, "lookup") \/ Return(p)
         /\ Return(p) \/ call' = call
         /\ UNCHANGED <<seq, mu, history, channelVars, late>>
  <1>1. CASE ReadCache(p)
    BY <1>1 DEF ReadCache
  <1>2. CASE Lookup(p)
    BY <1>2 DEF Lookup
  <1>3. CASE LookupMissing(p)
    <2>1. pc[p] = "lookup" /\ UNCHANGED <<seq, mu, history, channelVars, late>>
      BY <1>3 DEF LookupMissing
    <2>2. (pc' = pc /\ call' = call) \/ Return(p)
      BY <1>3 DEF LookupMissing
    <2> QED
      BY <2>1, <2>2, Stays
  <1>4. CASE LookupFails(p)
    BY <1>4 DEF LookupFails
  <1>5. CASE DropDevice(p)
    BY <1>5 DEF DropDevice
  <1> QED
    BY <1>1, <1>2, <1>3, <1>4, <1>5 DEF WithDevice

\* A step of a verification moves nobody else, and ends nowhere it begins.
LEMMA VerifierMoves ==
  ASSUME RemoteAssumption, LoadedAssumption, TypeOK, Places,
         NEW v \in Verifiers, VerifierStep(v)
  PROVE  /\ seq' = seq /\ call' = call /\ UNCHANGED <<mu, history, channelVars>>
         /\ pc[v] \notin {"none", "done"}
         /\ \E l \in VerifierPlaces \ {"none"} : Goto(v, l)
         /\ pc[v] # "call" => late' = late
  <1>1. /\ v \in Procs /\ v # Button
        /\ {"sleep", "ask", "reset", "enter", "lookup", "call", "gone", "done"}
             \subseteq VerifierPlaces \ {"none"}
    BY Ranges DEF VerifierPlaces
  <1>2. ASSUME Return(v) PROVE call' = call /\ \E l \in {"sleep", "done"} : Goto(v, l)
    BY <1>1, <1>2 DEF Return
  <1>3. CASE VerifyCheck(v) \/ VerifyPlayer(v) \/ VerifyReset(v)
    BY <1>1, <1>3 DEF VerifyCheck, VerifyPlayer, VerifyReset, Jump, EndVerification,
                      channelVars
  <1>4. CASE WithDevice(v)
    BY <1>1, <1>2, <1>4, WithDeviceMoves
  <1>5. CASE VerifyPlay(v)
    BY <1>1, <1>2, <1>5 DEF VerifyPlay, channelVars
  <1>6. CASE VerifyPlayFails(v)
    BY <1>1, <1>2, <1>6 DEF VerifyPlayFails, Jump, channelVars
  <1> QED
    BY <1>3, <1>4, <1>5, <1>6 DEF VerifierStep

\* A step of the button moves the button, and at the end of a command its
\* verification.
LEMMA ButtonMoves ==
  ASSUME RemoteAssumption, LoadedAssumption, TypeOK, Places, ButtonStep
  PROVE  /\ pc[Button] # "idle" /\ late' = late
         /\ \/ seq' = seq /\ \E l \in ButtonPlaces \ {"player"} : Goto(Button, l)
            \/ SkipBecomesToggle
            \/ seq' = seq /\ \E u : ReturnVerifying(u)
  <1>1. /\ Button \in Procs
        /\ {"idle", "pause", "skip", "enter", "lookup", "call", "gone", "resume", "mark",
            "lock", "poll", "relock", "play"} \subseteq ButtonPlaces \ {"player"}
    BY Ranges DEF ButtonPlaces
  <1>2. Return(Button) => Goto(Button, "idle")
    BY DEF Return
  <1>3. CASE PlayerFails \/ ReadPlayer \/ SkipSong \/ SkipBecomesToggle \/ StopCall
    BY <1>1, <1>2, <1>3
    DEF PlayerFails, ReadPlayer, SkipSong, SkipBecomesToggle, StopCall, Jump
  <1>4. CASE WithDevice(Button)
    BY <1>1, <1>2, <1>4, WithDeviceMoves
  <1>5. CASE PlayMorning \/ Resume \/ GoForChannel \/ Mark
    BY <1>1, <1>5 DEF PlayMorning, Resume, GoForChannel, Mark, Jump
  <1>6. CASE RefreshFresh \/ RefreshRelock
    BY <1>1, <1>2, <1>6 DEF RefreshFresh, RefreshRelock, AlignAndChoose
  <1>7. CASE RefreshStale \/ RefreshPoll
    BY <1>1, <1>7 DEF RefreshStale, RefreshPoll, Jump
  <1>8. CASE PlayChannel \/ PlayChannelNotFound
    BY <1>1, <1>8 DEF PlayChannel, PlayChannelNotFound, Jump
  <1>9. CASE PlayChannelRefused
    <2>1. pc[Button] = "play" /\ UNCHANGED <<seq, late>> /\ (pc' = pc \/ Return(Button))
      BY <1>9 DEF PlayChannelRefused
    <2> QED
      BY <1>1, <1>2, <2>1, Stays
  <1> QED
    BY <1>3, <1>4, <1>5, <1>6, <1>7, <1>8, <1>9 DEF ButtonStep

\* Places and Overtaken are kept.
LEMMA PlacesKept ==
  ASSUME RemoteAssumption, LoadedAssumption, IInv, [Next]_vars
  PROVE  Places' /\ Overtaken'
  <1>1. /\ pc \in [Procs -> ButtonPlaces \cup VerifierPlaces] /\ pc[Button] \in ButtonPlaces
        /\ seq \in 0 .. MaxSeq /\ MaxSeq \in Nat
        /\ Button \in Procs /\ Button \notin Verifiers /\ Verifiers \subseteq Procs
        /\ Verifiers = 1 .. MaxSeq
        /\ late \in [Verifiers -> Nat]
        /\ Places /\ Overtaken
    BY Ranges DEF IInv, TypeOK, Verifiers
  <1>2. CASE UNCHANGED vars \/ Around
    <2>1. UNCHANGED <<seq, pc, call, late>>
      BY <1>2 DEF vars, Around, BackgroundPoll, Phone, ReceiverCrash, SessionLost,
                  Reregister, frames
    <2> QED
      BY <1>1, <2>1 DEF Places, Overtaken
  <1>3. CASE Presses
    <2>1. PICK c \in {"toggle", "select", "skip"}, f \in BOOLEAN : Press(c, f)
      BY <1>3 DEF Presses
    <2>2. /\ seq' = seq + 1 /\ late' = late /\ pc[Button] = "idle"
          /\ pc' = [pc EXCEPT ![Button] = "player"]
          /\ seq + 1 \in Verifiers
          /\ c = "skip" => seq + 2 <= MaxSeq
      BY <1>1, <2>1 DEF Press, Goto
    <2>3. call'.cmd = c
      BY <2>1 DEF Press, IInv, TypeOK
    <2>4. \A v \in Verifiers : pc'[v] = pc[v]
      BY <1>1, <2>2
    <2> QED
      BY <1>1, <2>2, <2>3, <2>4 DEF Places, Overtaken
  <1>4. CASE ButtonStep
    <2>1. pc[Button] # "idle" /\ late' = late /\ seq \in Verifiers /\ pc[seq] = "none"
      BY <1>1, <1>4, ButtonMoves DEF IInv, Places
    <2>2. CASE seq' = seq /\ \E l \in ButtonPlaces \ {"player"} : Goto(Button, l)
      <3>1. PICK l \in ButtonPlaces \ {"player"} : Goto(Button, l)
        BY <2>2
      <3>2. pc'[Button] = l /\ \A v \in Verifiers : pc'[v] = pc[v]
        BY <1>1, <3>1 DEF Goto
      <3> QED
        BY <1>1, <2>1, <2>2, <3>2 DEF Places, Overtaken
    <2>3. CASE SkipBecomesToggle
      <3>1. /\ seq' = seq + 1 /\ pc' = pc /\ pc[Button] = "player" /\ call.cmd = "skip"
        BY <2>3 DEF SkipBecomesToggle
      <3>2. call'.cmd = "toggle"
        BY <2>3 DEF SkipBecomesToggle, IInv, TypeOK
      <3>3. seq + 1 \in Verifiers
        BY <1>1, <3>1 DEF Places
      <3> QED
        BY <1>1, <2>1, <3>1, <3>2, <3>3 DEF Places, Overtaken
    <2>4. CASE seq' = seq /\ \E u : ReturnVerifying(u)
      <3>1. /\ pc'[Button] = "idle" /\ pc'[seq] = "sleep"
            /\ \A v \in Verifiers : v # seq => pc'[v] = pc[v]
        BY <1>1, <2>1, <2>4 DEF ReturnVerifying
      <3>2. "sleep" \in VerifierPlaces
        BY DEF VerifierPlaces
      <3> QED
        BY <1>1, <2>1, <2>4, <3>1, <3>2 DEF Places, Overtaken
    <2> QED
      BY <1>4, <2>2, <2>3, <2>4, ButtonMoves DEF IInv
  <1>5. CASE \E v \in Verifiers : VerifierStep(v)
    <2>1. PICK v \in Verifiers : VerifierStep(v)
      BY <1>5
    <2>2. /\ seq' = seq /\ call' = call /\ pc[v] \notin {"none", "done"}
          /\ pc[v] # "call" => late' = late
      BY <2>1, VerifierMoves DEF IInv
    <2>3. PICK l \in VerifierPlaces \ {"none"} : Goto(v, l)
      BY <2>1, VerifierMoves DEF IInv
    <2>4. pc'[v] = l /\ \A p \in Procs : p # v => pc'[p] = pc[p]
      BY <1>1, <2>3 DEF Goto
    <2>5. v <= seq /\ (pc[Button] # "idle" => v # seq)
      BY <1>1, <2>2 DEF Places
    <2>6. Places'
      BY <1>1, <2>2, <2>4, <2>5 DEF Places
    <2>7. CASE VerifyPlay(v)
      <3>1. /\ pc[v] = "call" /\ late' = [late EXCEPT ![v] = IF seq # v THEN @ + 1 ELSE @]
            /\ Return(v)
        BY <2>7 DEF VerifyPlay
      <3>2. pc'[v] \in {"sleep", "done"}
        BY <1>1, <3>1 DEF Return, Goto
      <3>3. late[v] = 0
        BY <1>1, <3>1 DEF Overtaken
      <3> QED
        BY <1>1, <2>2, <2>4, <2>5, <2>6, <3>1, <3>2, <3>3 DEF Overtaken
    <2>8. CASE ~VerifyPlay(v)
      <3>1. late' = late
        BY <2>1, <2>2, <2>8, WithDeviceMoves, Ranges
        DEF VerifierStep, VerifyPlayFails, VerifyCheck, VerifyPlayer, VerifyReset, IInv
      <3>2. CASE late[v] = 1
        <4>1. pc[v] = "sleep" /\ seq # v
          BY <1>1, <2>2, <3>2 DEF Overtaken
        <4>2. EndVerification(v)
          BY <2>1, <4>1, WithDeviceMoves, Ranges
          DEF VerifierStep, VerifyPlay, VerifyPlayFails, VerifyCheck, VerifyPlayer,
              VerifyReset, IInv
        <4>3. pc'[v] = "done"
          BY <1>1, <4>2 DEF EndVerification, Goto
        <4> QED
          BY <1>1, <2>2, <2>4, <2>6, <3>1, <4>3 DEF Overtaken
      <3>3. CASE late[v] # 1
        BY <1>1, <2>2, <2>4, <2>6, <3>1, <3>3 DEF Overtaken
      <3> QED
        BY <3>2, <3>3
    <2> QED
      BY <2>7, <2>8
  <1> QED
    BY <1>2, <1>3, <1>4, <1>5 DEF Next, Presses, Around

-----------------------------------------------------------------------------
(* The lock, the channel list, and the walk through it. *)

\* What the three parts below are about.
List == Lock /\ Aligned /\ Walked

\* Steps outside refreshChannels and playChannel leave the list alone.
LEMMA ElsewhereKept ==
  ASSUME RemoteAssumption, LoadedAssumption, IInv, UNCHANGED <<mu, channelVars>>,
         history # <<>> => history' # <<>>,
         \/ pc'[Button] = pc[Button] /\ call' = call
         \/ /\ pc[Button] \notin {"poll", "relock", "play"}
            /\ pc'[Button] \notin {"poll", "relock", "play"}
  PROVE  List'
  <1>1. List /\ Free # Button
    BY Ranges DEF IInv, List
  <1>2. CASE pc'[Button] = pc[Button] /\ call' = call
    BY <1>1, <1>2 DEF List, Lock, Aligned, Walked, Away, channelVars
  <1>3. CASE /\ pc[Button] \notin {"poll", "relock", "play"}
             /\ pc'[Button] \notin {"poll", "relock", "play"}
    BY <1>1, <1>3 DEF List, Lock, Aligned, Walked, channelVars
  <1> QED
    BY <1>2, <1>3

\* The button's steps outside refreshChannels and playChannel are such.
LEMMA OutsideMoves ==
  ASSUME RemoteAssumption, LoadedAssumption, IInv,
         \/ PlayerFails \/ ReadPlayer \/ SkipSong \/ SkipBecomesToggle \/ StopCall
         \/ WithDevice(Button) \/ PlayMorning \/ Resume \/ GoForChannel
  PROVE  List'
  <1>1. Button \in Procs /\ pc \in [Procs -> ButtonPlaces \cup VerifierPlaces] /\ TypeOK
    BY Ranges DEF IInv, TypeOK
  <1>2. \A l : Goto(Button, l) => pc'[Button] = l
    BY <1>1 DEF Goto
  <1>3. Return(Button) => pc'[Button] = "idle"
    BY <1>2 DEF Return
  <1>4. UNCHANGED <<mu, history, channelVars>>
    BY <1>1, WithDeviceMoves
    DEF PlayerFails, ReadPlayer, SkipSong, SkipBecomesToggle, StopCall, PlayMorning,
        Resume, GoForChannel
  <1>5. pc[Button] \notin {"poll", "relock", "play"}
    BY <1>1, WithDeviceMoves
    DEF PlayerFails, ReadPlayer, SkipSong, SkipBecomesToggle, StopCall, PlayMorning,
        Resume, GoForChannel
  <1>6. pc'[Button] \notin {"poll", "relock", "play"}
    <2>1. CASE PlayerFails \/ ReadPlayer \/ SkipSong \/ SkipBecomesToggle \/ StopCall
      BY <1>2, <1>3, <1>5, <2>1
      DEF PlayerFails, ReadPlayer, SkipSong, SkipBecomesToggle, StopCall, Jump
    <2>2. CASE WithDevice(Button)
      BY <1>1, <1>2, <1>3, <2>2, WithDeviceMoves
    <2>3. CASE PlayMorning \/ Resume \/ GoForChannel
      BY <1>2, <2>3 DEF PlayMorning, Resume, GoForChannel, Jump
    <2> QED
      BY <2>1, <2>2, <2>3
  <1> QED
    BY <1>4, <1>5, <1>6, ElsewhereKept

\* A step of Select is one place further away.
LEMMA StepAway ==
  ASSUME NEW c \in Nat, NEW n \in Nat, NEW i \in Nat, call.forward \in BOOLEAN,
         1 <= c, c <= n, i + 1 < n
  PROVE  /\ Away(c, i, n) \in 1 .. n
         /\ StepFrom(Away(c, i, n), n) = Away(c, i + 1, n)
         /\ Away(c, i + 1, n) # c
         /\ StepFrom(c, n) = Away(c, 1, n)
  BY DEF Away, StepFrom

\* A list is taken: aligned, and the first channel is one place away.
LEMMA TakenKept ==
  ASSUME RemoteAssumption, LoadedAssumption, IInv,
         RefreshFresh \/ (RefreshRelock /\ history # <<>>)
  PROVE  List'
  <1>1. PICK c \in Seq(Uris), cur \in Uris \cup {NoUri} :
          /\ Distinct(c) /\ c # <<>> /\ AlignAndChoose(c, cur) /\ current' = cur
          /\ OurDevice(call.state) /\ call.state.ctx # NoUri => cur = call.state.ctx
    <2>1. CASE RefreshFresh
      BY <2>1, Ranges DEF RefreshFresh, IInv, TypeOK, Aligned, Noticed
    <2>2. CASE RefreshRelock /\ history # <<>>
      BY <2>2, ChannelsAreSeqs DEF RefreshRelock, IInv, TypeOK, Walked
    <2> QED
      BY <2>1, <2>2
  <1>2. history' # <<>>
    BY DEF RefreshFresh, RefreshRelock, IInv, Aligned
  <1>3. /\ contexts' \in Seq(Uris) /\ Distinct(contexts') /\ contexts' # <<>>
        /\ cursor' \in Nat /\ cursor' = IndexOf(contexts', current')
        /\ current' # NoUri => cursor' \in DOMAIN contexts'
        /\ \/ mu' = Free /\ Return(Button)
           \/ /\ mu' = Button /\ Goto(Button, "play")
              /\ call' = [call EXCEPT !.idx = call'.idx, !.left = call'.left]
              /\ call'.idx \in DOMAIN contexts' /\ call'.left \in Int
              /\ call.cmd = "select" /\ cursor' # 0 =>
                   /\ call'.left = Len(contexts') - 2
                   /\ Len(contexts') # 1
                   /\ call'.idx = StepFrom(cursor', Len(contexts'))
    BY <1>1, AlignTypes DEF IInv
  <1>4. /\ Button \in Procs /\ pc \in [Procs -> ButtonPlaces \cup VerifierPlaces]
        /\ Free # Button /\ NoCall.state = Nothing /\ call \in CallType
        /\ Len(contexts') \in Nat \ {0} /\ DOMAIN contexts' = 1 .. Len(contexts')
    BY <1>3, Ranges DEF IInv, TypeOK, NoCall, CallType
  <1>5. CASE mu' = Free /\ Return(Button)
    <2>1. pc'[Button] = "idle" /\ call' = NoCall
      BY <1>4, <1>5 DEF Return, Goto
    <2> QED
      BY <1>2, <1>3, <1>4, <1>5, <2>1 DEF List, Lock, Aligned, Walked, OurDevice
  <1>6. CASE /\ mu' = Button /\ Goto(Button, "play")
             /\ call' = [call EXCEPT !.idx = call'.idx, !.left = call'.left]
             /\ call'.idx \in DOMAIN contexts' /\ call'.left \in Int
             /\ call.cmd = "select" /\ cursor' # 0 =>
                  /\ call'.left = Len(contexts') - 2
                  /\ Len(contexts') # 1
                  /\ call'.idx = StepFrom(cursor', Len(contexts'))
    <2>1. /\ pc'[Button] = "play"
          /\ call'.cmd = call.cmd /\ call'.state = call.state
          /\ call'.forward = call.forward /\ call.forward \in BOOLEAN
      BY <1>4, <1>6 DEF Goto, CallType
    <2>2. Lock' /\ Aligned'
      BY <1>2, <1>3, <1>4, <1>6, <2>1 DEF Lock, Aligned
    <2>3. ASSUME OurDevice(call.state), call.state.ctx # NoUri, call.cmd = "select"
          PROVE  /\ cursor' \in DOMAIN contexts'
                 /\ call'.left \in 0 .. Len(contexts') - 2
                 /\ call'.idx = Away(cursor', Len(contexts') - 1 - call'.left, Len(contexts'))
      <3>1. current' = call.state.ctx /\ cursor' \in 1 .. Len(contexts')
        BY <1>1, <1>3, <1>4, <2>3
      <3>2. /\ call'.left = Len(contexts') - 2 /\ Len(contexts') # 1
            /\ call'.idx = StepFrom(cursor', Len(contexts'))
        BY <1>6, <2>3, <3>1
      <3>3. StepFrom(cursor', Len(contexts')) = Away(cursor', 1, Len(contexts'))
        BY <1>4, <2>1, <3>1, <3>2 DEF StepFrom, Away
      <3> QED
        BY <1>4, <3>1, <3>2, <3>3
    <2>4. Walked'
      BY <1>1, <2>1, <2>3 DEF Walked, Away, OurDevice
    <2> QED
      BY <2>2, <2>4 DEF List
  <1> QED
    BY <1>3, <1>5, <1>6

\* A channel is played, or is not: the walk goes on or ends.
LEMMA PlayKept ==
  ASSUME RemoteAssumption, LoadedAssumption, IInv,
         PlayChannel \/ PlayChannelNotFound \/ PlayChannelRefused
  PROVE  List'
  <1>1. /\ Button \in Procs /\ pc \in [Procs -> ButtonPlaces \cup VerifierPlaces]
        /\ Free # Button /\ NoCall.state = Nothing /\ call \in CallType
        /\ contexts \in Seq(Uris) /\ Len(contexts) \in Nat
        /\ DOMAIN contexts = 1 .. Len(contexts)
        /\ pc[Button] = "play" /\ call.idx \in DOMAIN contexts
        /\ contexts # <<>> /\ history # <<>> /\ Distinct(contexts)
        /\ cursor = IndexOf(contexts, current)
        /\ history' = history /\ contexts' = contexts
    BY Ranges
    DEF IInv, TypeOK, NoCall, CallType, Lock, Aligned, PlayChannel, PlayChannelNotFound,
        PlayChannelRefused, channelVars
  <1>2. CASE PlayChannel
    <2>1. /\ pc'[Button] = "idle" /\ call' = NoCall /\ mu' = Free
          /\ cursor' = call.idx /\ current' = contexts[call.idx]
      <3>1. seq # Button /\ ReturnVerifying(contexts[call.idx])
        BY <1>1, <1>2, Ranges DEF PlayChannel, IInv, Places
      <3> QED
        BY <1>1, <1>2, <3>1 DEF PlayChannel, ReturnVerifying
    <2>2. IndexOf(contexts, contexts[call.idx]) = call.idx
      BY <1>1, IndexOfAt
    <2> QED
      BY <1>1, <2>1, <2>2 DEF List, Lock, Aligned, Walked, OurDevice
  <1>3. CASE PlayChannelNotFound
    <2>1. /\ pc'[Button] = "gone" /\ call' = call /\ mu' = Free
          /\ cursor' = cursor /\ current' = current
      BY <1>1, <1>3 DEF PlayChannelNotFound, Jump, Goto, channelVars
    <2> QED
      BY <1>1, <2>1 DEF List, Lock, Aligned, Walked
  <1>4. CASE PlayChannelRefused /\ ~(call.left > 0)
    <2>1. /\ pc'[Button] = "idle" /\ call' = NoCall /\ mu' = Free
          /\ cursor' = cursor /\ current' = current
      BY <1>1, <1>4 DEF PlayChannelRefused, Return, Goto, channelVars
    <2> QED
      BY <1>1, <2>1 DEF List, Lock, Aligned, Walked, OurDevice
  <1>5. CASE PlayChannelRefused /\ call.left > 0
    <2> DEFINE n == Len(contexts)
    <2>1. /\ pc' = pc /\ mu' = mu /\ cursor' = cursor /\ current' = current
          /\ call'.idx = StepFrom(call.idx, n) /\ call'.left = call.left - 1
          /\ call'.cmd = call.cmd /\ call'.state = call.state
          /\ call'.forward = call.forward /\ call.forward \in BOOLEAN
      BY <1>1, <1>5 DEF PlayChannelRefused, CallType, channelVars
    <2>2. StepFrom(call.idx, n) \in 1 .. n
      BY <1>1, <2>1 DEF StepFrom
    <2>3. Lock' /\ Aligned'
      BY <1>1, <2>1, <2>2 DEF Lock, Aligned, IInv
    <2>4. ASSUME OurDevice(call.state), call.state.ctx # NoUri
          PROVE  /\ current = call.state.ctx
                 /\ call.cmd = "select" =>
                      /\ cursor \in DOMAIN contexts
                      /\ call.left - 1 \in 0 .. n - 2
                      /\ StepFrom(call.idx, n) = Away(cursor, n - 1 - (call.left - 1), n)
      <3>1. /\ current = call.state.ctx
            /\ call.cmd = "select" =>
                 /\ cursor \in 1 .. n /\ call.left \in 0 .. n - 2
                 /\ call.idx = Away(cursor, n - 1 - call.left, n)
        BY <1>1, <2>4 DEF IInv, Walked
      <3>2. ASSUME cursor \in 1 .. n, call.left \in 0 .. n - 2
            PROVE  StepFrom(Away(cursor, n - 1 - call.left, n), n)
                     = Away(cursor, n - 1 - (call.left - 1), n)
        <4>1. /\ n - 1 - call.left \in Nat /\ (n - 1 - call.left) + 1 < n
              /\ (n - 1 - call.left) + 1 = n - 1 - (call.left - 1)
          BY <1>1, <1>5, <3>2
        <4> QED
          BY <1>1, <2>1, <3>2, <4>1, StepAway
      <3> QED
        BY <1>1, <1>5, <3>1, <3>2
    <2>5. Walked'
      BY <1>1, <2>1, <2>4 DEF Walked, Away, OurDevice
    <2> QED
      BY <2>3, <2>5 DEF List
  <1> QED
    BY <1>2, <1>3, <1>4, <1>5

\* Lock, Aligned and Walked are kept.
LEMMA ListKept ==
  ASSUME RemoteAssumption, LoadedAssumption, IInv, [Next]_vars
  PROVE  List'
  <1>1. /\ Button \in Procs /\ Button \notin Verifiers /\ TypeOK /\ List /\ Free # Button
        /\ pc \in [Procs -> ButtonPlaces \cup VerifierPlaces]
        /\ contexts \in Seq(Uris) /\ Distinct(contexts)
    BY Ranges DEF IInv, TypeOK, List, Aligned
  <1>2. CASE UNCHANGED vars \/ Around
    <2>1. UNCHANGED <<mu, channelVars, pc, call>> /\ (history # <<>> => history' # <<>>)
      BY <1>1, <1>2, Merged
      DEF vars, Around, BackgroundPoll, Phone, ReceiverCrash, SessionLost, Reregister,
          frames, channelVars
    <2> QED
      BY <2>1, ElsewhereKept
  <1>3. CASE Presses
    <2>1. /\ UNCHANGED <<mu, channelVars, history>>
          /\ pc[Button] = "idle" /\ pc'[Button] = "player"
      BY <1>1, <1>3 DEF Presses, Press, Goto
    <2> QED
      BY <2>1, ElsewhereKept
  <1>4. CASE \E v \in Verifiers : VerifierStep(v)
    <2>1. UNCHANGED <<mu, channelVars, history, call>> /\ pc'[Button] = pc[Button]
      BY <1>1, <1>4, VerifierMoves DEF IInv, Goto
    <2> QED
      BY <2>1, ElsewhereKept
  <1>5. CASE Mark
    <2>1. /\ mu' = mu /\ contexts' = contexts /\ history' = history
          /\ pc[Button] = "mark" /\ pc'[Button] = "idle" /\ call' = NoCall
      <3>1. seq # Button
        BY <1>1, <1>5 DEF Mark, IInv, Places
      <3> QED
        BY <1>1, <1>5, <3>1 DEF Mark, ReturnVerifying
    <2>2. cursor' = IndexOf(contexts, current')
      BY <1>1, <1>5, <2>1 DEF Mark, List, Aligned
    <2>3. contexts = <<>> => cursor' = 0
      <3>1. IndexOf(<<>>, current') = 0
        BY DEF IndexOf
      <3> QED
        BY <2>2, <3>1
    <2> QED
      BY <1>1, <2>1, <2>2, <2>3 DEF List, Lock, Aligned, Walked, OurDevice, NoCall
  <1>6. CASE RefreshRelock /\ history = <<>>
    <2>1. /\ contexts' = <<>> /\ pc'[Button] = "idle" /\ call' = NoCall
          /\ mu' = mu /\ mu = Free /\ cursor' = cursor
          /\ contexts = <<>> /\ cursor = 0
      BY <1>1, <1>6 DEF RefreshRelock, Return, Goto, List, Aligned
    <2>2. Distinct(<<>>) /\ IndexOf(<<>>, current') = 0
      BY DEF Distinct, IndexOf
    <2> QED
      BY <1>1, <2>1, <2>2 DEF List, Lock, Aligned, Walked, OurDevice, NoCall
  <1>7. CASE RefreshStale
    <2>1. /\ mu' = mu /\ contexts' = contexts /\ cursor' = cursor /\ history' = history
          /\ pc[Button] = "lock" /\ pc'[Button] = "poll" /\ call' = call
          /\ current' = Noticed
      BY <1>1, <1>7 DEF RefreshStale, Jump, Goto
    <2> QED
      BY <1>1, <2>1 DEF List, Lock, Aligned, Walked, Noticed
  <1>8. CASE RefreshPoll
    <2>1. /\ mu' = mu /\ contexts' = contexts /\ cursor' = cursor /\ current' = current
          /\ pc[Button] = "poll" /\ pc'[Button] = "relock" /\ call' = call
          /\ (history # <<>> => history' # <<>>)
      BY <1>1, <1>8, Merged DEF RefreshPoll, Jump, Goto, channelVars
    <2> QED
      BY <1>1, <2>1 DEF List, Lock, Aligned, Walked
  <1>9. CASE ButtonStep /\ ~(Mark \/ RefreshStale \/ RefreshPoll \/ (RefreshRelock /\ history = <<>>))
    BY <1>9, OutsideMoves, TakenKept, PlayKept DEF ButtonStep
  <1> QED
    BY <1>2, <1>3, <1>4, <1>5, <1>6, <1>7, <1>8, <1>9 DEF Next, Presses, Around, ButtonStep

-----------------------------------------------------------------------------
(* The theorems. *)

\* At start nothing has been pressed and no list has been taken.
LEMMA InitInv ==
  ASSUME RemoteAssumption, LoadedAssumption, Init
  PROVE  IInv
  <1>1. TypeOK
    <2>1. /\ NoVerify \in [uri : Uris \cup {NoUri}, round : 0 .. Rounds]
          /\ NoCall \in CallType
          /\ <<>> \in Seq(Uris) /\ 0 \in 0 .. Attempts /\ 0 \in 0 .. MaxSeq
          /\ 0 \in 0 .. MaxEvents /\ Nothing \in PlayerStates
      BY DEF RemoteAssumption, NoVerify, NoCall, CallType, PlayerStates
    <2>2. /\ pc \in [Procs -> ButtonPlaces \cup VerifierPlaces]
          /\ pc[Button] \in ButtonPlaces
      BY DEF Init, Button, Procs, ButtonPlaces, VerifierPlaces
    <2> QED
      BY <2>1, <2>2 DEF Init, TypeOK, CallType, LoadedAssumption
  <1>2. /\ Button \in Procs /\ Button \notin Verifiers /\ Verifiers \subseteq Procs
        /\ Free # Button
    BY DEF Button, Verifiers, Procs, Free, RemoteAssumption
  <1>3. Places /\ Overtaken
    BY <1>2 DEF Init, Places, Overtaken, VerifierPlaces
  <1>4. Distinct(<<>>) /\ IndexOf(<<>>, NoUri) = 0
    BY DEF Distinct, IndexOf
  <1>5. Lock /\ Aligned /\ Walked
    BY <1>2, <1>4 DEF Init, Lock, Aligned, Walked, NoCall, OurDevice
  <1> QED
    BY <1>1, <1>3, <1>5 DEF IInv

\* The inductive invariant holds in every reachable state.
THEOREM RemoteInvariant == Spec => []IInv
  <1>1. Init => IInv
    BY InitInv, RemoteAssumption, LoadedAssumption
  <1>2. IInv /\ [Next]_vars => IInv'
    BY TypesKept, PlacesKept, ListKept, RemoteAssumption, LoadedAssumption DEF IInv, List
  <1> QED
    BY <1>1, <1>2, PTL DEF Spec

\* For every number of contexts and every history the cursor is the place of
\* the current channel, and the index played from is inside the list
\* (sound/spotify.go:398-411, 510-577).
THEOREM RemoteAligned == Spec => []CursorAligned
  <1>1. IInv => CursorAligned
    BY DEF IInv, Lock, Aligned, CursorAligned
  <1> QED
    BY <1>1, RemoteInvariant, PTL

\* However many commands, rounds and attempts: a superseded command's retry is
\* accepted at most once (sound/spotify.go:480-505).
THEOREM RemoteLateOnce == Spec => []LateRetryBounded
  <1>1. IInv => LateRetryBounded
    BY DEF IInv, Overtaken, LateRetryBounded
  <1> QED
    BY <1>1, RemoteInvariant, PTL

\* However many channels are refused on the way: back or forward never selects
\* what was playing here when it was pressed (sound/spotify.go:398-411).
THEOREM RemoteMovesOn == Spec => SelectMovesOn
  <1>1. ASSUME IInv, PlayChannel, call.cmd = "select", OurDevice(call.state)
        PROVE  current' # call.state.ctx
    <2>1. /\ pc[Button] = "play" /\ call.idx \in DOMAIN contexts
          /\ current' = contexts[call.idx]
          /\ contexts \in Seq(Uris) /\ Len(contexts) \in Nat /\ call.forward \in BOOLEAN
          /\ Distinct(contexts) /\ cursor = IndexOf(contexts, current)
      BY <1>1 DEF IInv, TypeOK, Lock, Aligned, PlayChannel
    <2>2. CASE call.state.ctx = NoUri
      BY <2>1, <2>2, RemoteAssumption DEF RemoteAssumption
    <2>3. CASE call.state.ctx # NoUri
      <3> DEFINE n == Len(contexts)
                 i == n - 2 - call.left
      <3>1. /\ current = call.state.ctx
            /\ cursor \in 1 .. n /\ call.left \in 0 .. n - 2
            /\ call.idx = Away(cursor, n - 1 - call.left, n)
        BY <1>1, <2>1, <2>3 DEF IInv, Walked
      <3>2. i \in Nat /\ i + 1 < n /\ i + 1 = n - 1 - call.left
        BY <2>1, <3>1
      <3>3. call.idx # cursor
        <4>1. n \in Nat /\ cursor \in Nat /\ 1 <= cursor /\ cursor <= n
          BY <2>1, <3>1
        <4> HIDE DEF i
        <4>2. Away(cursor, i + 1, n) # cursor
          BY <2>1, <3>2, <4>1, StepAway
        <4> QED
          BY <3>1, <3>2, <4>2
      <3>4. contexts[cursor] = current
        BY <2>1, <3>1, IndexOfFinds
      <3> QED
        BY <2>1, <3>1, <3>3, <3>4 DEF Distinct
    <2> QED
      BY <2>2, <2>3
  <1>2. IInv /\ [Next]_vars => [PlayChannel /\ call.cmd = "select" /\ OurDevice(call.state)
                                  => current' # call.state.ctx]_vars
    BY <1>1
  <1> QED
    BY <1>2, RemoteInvariant, PTL DEF Spec, SelectMovesOn

\* The types of the state hold in every reachable state.
THEOREM RemoteTypes == Spec => []TypeOK
  <1>1. IInv => TypeOK
    BY DEF IInv
  <1> QED
    BY <1>1, RemoteInvariant, PTL

-----------------------------------------------------------------------------
(* Every command and every verification comes to its end. *)

\* The order of the places of a command, the last ones first.
ButtonStage(place, cmd) ==
  CASE place = "player" /\ cmd = "skip" -> 11
    [] place = "player" /\ cmd # "skip" -> 10
    [] place = "enter"  -> 9
    [] place = "lookup" -> 8
    [] place = "call"   -> 7
    [] place = "resume" -> 6
    [] place = "lock"   -> 5
    [] place = "poll"   -> 4
    [] place = "relock" -> 3
    [] place = "play"   -> 2
    [] place \in {"gone", "mark", "pause", "skip", "idle"} -> 1

\* The order of the places of a round of a verification.
VerifierStage(place) ==
  CASE place = "sleep"  -> 7
    [] place = "ask"    -> 6
    [] place = "reset"  -> 5
    [] place = "enter"  -> 4
    [] place = "lookup" -> 3
    [] place = "call"   -> 2
    [] place \in {"gone", "none", "done"} -> 1

\* What there is left to do: rounds, attempts of withDevice in the round, steps
\* of the attempt, channels to try in a step.
Distance(rounds, tries, steps, channels) == <<<<rounds, tries>>, <<steps, channels>>>>

CommandDistance ==
  IF pc[Button] = "idle" THEN Distance(0, 0, 0, 0)
  ELSE Distance(1, Attempts - attempt[Button], ButtonStage(pc[Button], call.cmd),
                IF call.left > 0 THEN call.left ELSE 0)

VerificationDistance(v) ==
  IF pc[v] \in {"none", "done"} THEN Distance(0, 0, 0, 0)
  ELSE Distance(1 + Rounds - verify[v].round, Attempts - attempt[v], VerifierStage(pc[v]), 0)

\* Distances are compared as words are in a dictionary.
Less == OpToRel(<, Nat)
LessPairs == LexPairOrdering(Less, Less, Nat, Nat)
Pairs == Nat \X Nat
Nearer == LexPairOrdering(LessPairs, LessPairs, Pairs, Pairs)

LEMMA NearerBy ==
  ASSUME NEW r \in Nat, NEW t \in Nat, NEW s \in Nat, NEW c \in Nat,
         NEW rr \in Nat, NEW tt \in Nat, NEW ss \in Nat, NEW cc \in Nat,
         \/ rr < r
         \/ rr = r /\ tt < t
         \/ rr = r /\ tt = t /\ ss < s
         \/ rr = r /\ tt = t /\ ss = s /\ cc < c
  PROVE  <<Distance(rr, tt, ss, cc), Distance(r, t, s, c)>> \in Nearer
  <1>1. ASSUME NEW x \in Nat, NEW y \in Nat, x < y PROVE <<x, y>> \in Less
    BY <1>1 DEF Less, OpToRel
  <1>2. ASSUME NEW x \in Nat, NEW y \in Nat, NEW xx \in Nat, NEW yy \in Nat,
               xx < x \/ (xx = x /\ yy < y)
        PROVE  <<<<xx, yy>>, <<x, y>>>> \in LessPairs
    <2>1. <<xx, x>> \in Less \/ (xx = x /\ <<yy, y>> \in Less)
      BY <1>1, <1>2
    <2> QED
      BY <2>1 DEF LessPairs, LexPairOrdering
  <1>3. \/ <<<<rr, tt>>, <<r, t>>>> \in LessPairs
        \/ <<rr, tt>> = <<r, t>> /\ <<<<ss, cc>>, <<s, c>>>> \in LessPairs
    BY <1>2
  <1>4. <<rr, tt>> \in Pairs /\ <<r, t>> \in Pairs /\ <<ss, cc>> \in Pairs /\ <<s, c>> \in Pairs
    BY DEF Pairs
  <1> QED
    BY <1>3, <1>4 DEF Nearer, LexPairOrdering, Distance

\* There is no way to come nearer for ever.
THEOREM NearerEnds == IsWellFoundedOn(Nearer, Pairs \X Pairs)
  <1>1. IsWellFoundedOn(Less, Nat)
    BY NatLessThanWellFounded DEF Less
  <1>2. IsWellFoundedOn(LessPairs, Pairs)
    BY <1>1, WFLexPairOrdering DEF LessPairs, Pairs
  <1> QED
    BY <1>2, WFLexPairOrdering DEF Nearer

\* A command nears its end when it is over, has failed once more, has gone on
\* to a later place, or stays there with fewer channels left.
LEMMA CommandNears ==
  ASSUME RemoteAssumption, TypeOK, TypeOK', pc[Button] # "idle",
         \/ pc'[Button] = "idle"
         \/ attempt'[Button] > attempt[Button]
         \/ /\ attempt'[Button] = attempt[Button]
            /\ ButtonStage(pc'[Button], call'.cmd) < ButtonStage(pc[Button], call.cmd)
         \/ /\ attempt'[Button] = attempt[Button]
            /\ ButtonStage(pc'[Button], call'.cmd) = ButtonStage(pc[Button], call.cmd)
            /\ call.left > 0 /\ call'.left < call.left
  PROVE  <<CommandDistance', CommandDistance>> \in Nearer
  <1> DEFINE Left(n) == IF n > 0 THEN n ELSE 0
  <1>1. /\ Attempts \in Nat
        /\ attempt[Button] \in 0 .. Attempts /\ attempt'[Button] \in 0 .. Attempts
        /\ pc[Button] \in ButtonPlaces /\ pc'[Button] \in ButtonPlaces
        /\ call.left \in Int /\ call'.left \in Int
    BY Ranges DEF TypeOK, RemoteAssumption, Procs
  <1>2. \A place \in ButtonPlaces : \A cmd : ButtonStage(place, cmd) \in Nat
    BY DEF ButtonStage, ButtonPlaces
  <1>3. /\ Attempts - attempt[Button] \in Nat /\ Attempts - attempt'[Button] \in Nat
        /\ Left(call.left) \in Nat /\ Left(call'.left) \in Nat
        /\ call.left > 0 /\ call'.left < call.left => Left(call'.left) < Left(call.left)
        /\ attempt'[Button] > attempt[Button] =>
             Attempts - attempt'[Button] < Attempts - attempt[Button]
    BY <1>1
  <1>4. CommandDistance = Distance(1, Attempts - attempt[Button],
                                   ButtonStage(pc[Button], call.cmd), Left(call.left))
    BY DEF CommandDistance
  <1>5. CASE pc'[Button] = "idle"
    <2>1. CommandDistance' = Distance(0, 0, 0, 0)
      BY <1>5 DEF CommandDistance
    <2>2. ButtonStage(pc[Button], call.cmd) \in Nat
      BY <1>1, <1>2
    <2>3. ASSUME NEW t \in Nat, NEW s \in Nat, NEW c \in Nat
          PROVE  <<Distance(0, 0, 0, 0), Distance(1, t, s, c)>> \in Nearer
      <3>1. 0 \in Nat /\ 1 \in Nat /\ 0 < 1
        OBVIOUS
      <3> QED
        BY <3>1, NearerBy
    <2> HIDE DEF Left
    <2> QED
      BY <1>3, <1>4, <2>1, <2>2, <2>3
  <1>6. CASE pc'[Button] # "idle"
    <2>1. CommandDistance' = Distance(1, Attempts - attempt'[Button],
                                      ButtonStage(pc'[Button], call'.cmd), Left(call'.left))
      BY <1>6 DEF CommandDistance
    <2> HIDE DEF Left
    <2> QED
      BY <1>1, <1>2, <1>3, <1>4, <1>6, <2>1, NearerBy
  <1> QED
    BY <1>5, <1>6

\* A verification nears its end when it is over, is a round further, has failed
\* once more in it, or has gone on to a later place.
LEMMA VerificationNears ==
  ASSUME RemoteAssumption, TypeOK, TypeOK', NEW v \in Verifiers,
         pc[v] \in VerifierPlaces \ {"none", "done"}, pc'[v] \in VerifierPlaces,
         \/ pc'[v] = "done"
         \/ verify'[v].round > verify[v].round
         \/ verify'[v].round = verify[v].round /\ attempt'[v] > attempt[v]
         \/ /\ verify'[v].round = verify[v].round /\ attempt'[v] = attempt[v]
            /\ VerifierStage(pc'[v]) < VerifierStage(pc[v])
  PROVE  <<VerificationDistance(v)', VerificationDistance(v)>> \in Nearer
  <1>1. /\ Attempts \in Nat /\ Rounds \in Nat
        /\ attempt[v] \in 0 .. Attempts /\ attempt'[v] \in 0 .. Attempts
        /\ verify[v].round \in 0 .. Rounds /\ verify'[v].round \in 0 .. Rounds
    BY DEF TypeOK, RemoteAssumption, Procs
  <1>2. \A place \in VerifierPlaces : VerifierStage(place) \in Nat
    BY DEF VerifierStage, VerifierPlaces
  <1>3. /\ Attempts - attempt[v] \in Nat /\ Attempts - attempt'[v] \in Nat
        /\ 1 + Rounds - verify[v].round \in Nat \ {0} /\ 1 + Rounds - verify'[v].round \in Nat
        /\ attempt'[v] > attempt[v] => Attempts - attempt'[v] < Attempts - attempt[v]
        /\ verify'[v].round > verify[v].round =>
             1 + Rounds - verify'[v].round < 1 + Rounds - verify[v].round
    BY <1>1
  <1>4. VerificationDistance(v) = Distance(1 + Rounds - verify[v].round, Attempts - attempt[v],
                                           VerifierStage(pc[v]), 0)
    BY DEF VerificationDistance
  <1>5. CASE pc'[v] \in {"none", "done"}
    <2>1. VerificationDistance(v)' = Distance(0, 0, 0, 0)
      BY <1>5 DEF VerificationDistance
    <2>2. 0 < 1 + Rounds - verify[v].round
      BY <1>3
    <2> QED
      BY <1>1, <1>2, <1>3, <1>4, <2>1, <2>2, NearerBy
  <1>6. CASE pc'[v] \notin {"none", "done"}
    <2>1. VerificationDistance(v)' = Distance(1 + Rounds - verify'[v].round,
                                         Attempts - attempt'[v], VerifierStage(pc'[v]), 0)
      BY <1>6 DEF VerificationDistance
    <2> QED
      BY <1>1, <1>2, <1>3, <1>4, <1>6, <2>1, NearerBy
  <1> QED
    BY <1>5, <1>6

\* A step of withDevice nears the end of the command or verification it is part of.
LEMMA WithDeviceNears ==
  ASSUME RemoteAssumption, TypeOK, NEW p \in Procs, WithDevice(p)
  PROVE  \/ Return(p)
         \/ /\ UNCHANGED <<call, verify>>
            /\ \/ attempt' = [attempt EXCEPT ![p] = @ + 1]
               \/ /\ attempt' = attempt
                  /\ pc[p] = "enter" /\ Goto(p, "call")
               \/ /\ attempt' = attempt
                  /\ pc[p] = "enter" /\ Goto(p, "lookup")
               \/ /\ attempt' = attempt
                  /\ pc[p] = "lookup" /\ Goto(p, "call")
  BY DEF WithDevice, ReadCache, Lookup, LookupMissing, LookupFails, DropDevice

\* Every step of a command nears its end.
LEMMA ButtonNears ==
  ASSUME RemoteAssumption, LoadedAssumption, TypeOK, TypeOK', Places, ButtonStep
  PROVE  <<CommandDistance', CommandDistance>> \in Nearer
  <1>1. /\ Button \in Procs /\ pc[Button] # "idle" /\ Attempts \in Nat
        /\ pc \in [Procs -> ButtonPlaces \cup VerifierPlaces]
        /\ attempt \in [Procs -> 0 .. Attempts] /\ attempt[Button] \in Int
        /\ call \in CallType
    <2>1. pc[Button] # "idle"
      BY ButtonMoves
    <2> QED
      BY <2>1, Ranges DEF TypeOK, RemoteAssumption, CallType
  <1>2. ASSUME Return(Button) \/ \E u : ReturnVerifying(u)
        PROVE  <<CommandDistance', CommandDistance>> \in Nearer
    <2>1. seq # Button
      BY <1>1, Ranges DEF Places
    <2>2. pc'[Button] = "idle"
      BY <1>1, <1>2, <2>1 DEF Return, ReturnVerifying, Goto
    <2> QED
      BY <1>1, <2>2, CommandNears
  <1>3. ASSUME NEW place, Goto(Button, place), attempt' = attempt,
               ButtonStage(place, call'.cmd) < ButtonStage(pc[Button], call.cmd)
        PROVE  <<CommandDistance', CommandDistance>> \in Nearer
    <2>1. pc'[Button] = place /\ attempt'[Button] = attempt[Button]
      BY <1>1, <1>3 DEF Goto
    <2> QED
      BY <1>1, <1>3, <2>1, CommandNears
  <1>4. ASSUME NEW place, Jump(Button, place),
               ButtonStage(place, call.cmd) < ButtonStage(pc[Button], call.cmd)
        PROVE  <<CommandDistance', CommandDistance>> \in Nearer
    BY <1>3, <1>4 DEF Jump
  <1>5. CASE PlayerFails \/ StopCall
    BY <1>2, <1>5 DEF PlayerFails, StopCall
  <1>6. CASE ReadPlayer
    <2>1. call'.cmd = call.cmd /\ attempt' = attempt /\ pc[Button] = "player"
          /\ call.cmd # "skip"
      BY <1>1, <1>6 DEF ReadPlayer, CallType
    <2>2. Goto(Button, "pause") \/ Goto(Button, "enter")
      BY <1>6 DEF ReadPlayer
    <2> QED
      BY <1>3, <2>1, <2>2 DEF ButtonStage
  <1>7. CASE SkipSong
    BY <1>2, <1>4, <1>7 DEF SkipSong, ButtonStage
  <1>8. CASE SkipBecomesToggle
    <2>1. call'.cmd = "toggle" /\ pc' = pc /\ attempt' = attempt
          /\ pc[Button] = "player" /\ call.cmd = "skip"
      BY <1>1, <1>8 DEF SkipBecomesToggle, CallType
    <2> QED
      BY <1>1, <1>3, <2>1, Stays DEF ButtonStage
  <1>9. CASE WithDevice(Button)
    <2>1. CASE attempt' = [attempt EXCEPT ![Button] = @ + 1]
      <3>1. attempt'[Button] > attempt[Button]
        BY <1>1, <2>1
      <3> QED
        BY <1>1, <3>1, CommandNears
    <2> QED
      BY <1>1, <1>2, <1>3, <1>9, <2>1, WithDeviceNears DEF ButtonStage
  <1>10. CASE PlayMorning \/ Resume
    <2>1. /\ pc[Button] \in {"call", "resume"}
          /\ \/ Jump(Button, "gone") \/ Jump(Button, "lock")
             \/ pc[Button] = "call" /\ Jump(Button, "resume")
             \/ Goto(Button, "mark") /\ attempt' = attempt
      BY <1>10 DEF PlayMorning, Resume
    <2>2. CASE Jump(Button, "gone") \/ Jump(Button, "lock")
      BY <1>4, <2>1, <2>2 DEF ButtonStage
    <2>3. CASE pc[Button] = "call" /\ Jump(Button, "resume")
      BY <1>4, <2>3 DEF ButtonStage
    <2>4. CASE Goto(Button, "mark") /\ attempt' = attempt
      <3>1. ButtonStage("mark", call'.cmd) < ButtonStage(pc[Button], call.cmd)
        BY <2>1 DEF ButtonStage
      <3> QED
        BY <1>3, <2>4, <3>1
    <2> QED
      BY <2>1, <2>2, <2>3, <2>4
  <1>11. CASE GoForChannel
    BY <1>4, <1>11 DEF GoForChannel, ButtonStage
  <1>12. CASE Mark \/ PlayChannel
    BY <1>2, <1>12 DEF Mark, PlayChannel
  <1>13. CASE RefreshFresh \/ RefreshRelock
    <2>1. /\ pc[Button] \in {"lock", "relock"}
          /\ \/ Return(Button)
             \/ Goto(Button, "play") /\ attempt' = attempt
      BY <1>13 DEF RefreshFresh, RefreshRelock, AlignAndChoose
    <2>2. CASE ~Return(Button)
      <3>1. ButtonStage("play", call'.cmd) < ButtonStage(pc[Button], call.cmd)
        BY <2>1 DEF ButtonStage
      <3> QED
        BY <1>3, <2>1, <2>2, <3>1
    <2> QED
      BY <1>2, <2>2
  <1>14. CASE RefreshStale \/ RefreshPoll
    BY <1>4, <1>14 DEF RefreshStale, RefreshPoll, ButtonStage
  <1>15. CASE PlayChannelNotFound
    BY <1>4, <1>15 DEF PlayChannelNotFound, ButtonStage
  <1>16. CASE PlayChannelRefused
    <2>1. CASE call.left > 0
      <3>1. /\ pc' = pc /\ attempt' = attempt
            /\ call' = [call EXCEPT !.idx = StepFrom(call.idx, Len(contexts)),
                                    !.left = call.left - 1]
        BY <1>16, <2>1 DEF PlayChannelRefused
      <3>2. call'.cmd = call.cmd /\ call'.left = call.left - 1
        BY <1>1, <3>1 DEF CallType
      <3>3. call'.left < call.left
        BY <1>1, <3>2 DEF CallType
      <3> QED
        BY <1>1, <2>1, <3>1, <3>2, <3>3, CommandNears
    <2> QED
      BY <1>2, <1>16, <2>1 DEF PlayChannelRefused
  <1> QED
    BY <1>5, <1>6, <1>7, <1>8, <1>9, <1>10, <1>11, <1>12, <1>13, <1>14, <1>15, <1>16
    DEF ButtonStep

\* Every step of a verification nears its end, and no other verification's.
LEMMA VerifierNears ==
  ASSUME RemoteAssumption, LoadedAssumption, TypeOK, TypeOK', Places, Places',
         NEW v \in Verifiers, VerifierStep(v)
  PROVE  /\ <<VerificationDistance(v)', VerificationDistance(v)>> \in Nearer
         /\ call' = call
         /\ \A p \in Procs : p # v => pc'[p] = pc[p] /\ attempt'[p] = attempt[p]
         /\ \A w \in Verifiers : w # v => verify'[w] = verify[w]
  <1>1. /\ v \in Procs /\ v # Button /\ Attempts \in Nat /\ Rounds \in Nat
        /\ pc \in [Procs -> ButtonPlaces \cup VerifierPlaces]
        /\ attempt \in [Procs -> 0 .. Attempts] /\ attempt[v] \in Int
        /\ verify \in [Verifiers -> [uri : Uris \cup {NoUri}, round : 0 .. Rounds]]
        /\ pc[v] \in VerifierPlaces \ {"none", "done"} /\ pc'[v] \in VerifierPlaces
    <2>1. pc[v] \notin {"none", "done"}
      BY VerifierMoves
    <2>2. pc[v] \in VerifierPlaces /\ pc'[v] \in VerifierPlaces
      BY DEF Places
    <2>3. v \in Procs /\ v # Button
      BY Ranges
    <2>4. /\ Attempts \in Nat /\ Rounds \in Nat
          /\ pc \in [Procs -> ButtonPlaces \cup VerifierPlaces]
          /\ attempt \in [Procs -> 0 .. Attempts]
          /\ verify \in [Verifiers -> [uri : Uris \cup {NoUri}, round : 0 .. Rounds]]
      BY DEF TypeOK, RemoteAssumption
    <2> QED
      BY <2>1, <2>2, <2>3, <2>4
  <1>2. ASSUME \E l : Goto(v, l),
               attempt' = attempt \/ (\E n : attempt' = [attempt EXCEPT ![v] = n]),
               verify' = verify \/ (\E r : verify' = [verify EXCEPT ![v] = r])
        PROVE  /\ \A p \in Procs : p # v => pc'[p] = pc[p] /\ attempt'[p] = attempt[p]
               /\ \A w \in Verifiers : w # v => verify'[w] = verify[w]
    BY <1>1, <1>2 DEF Goto
  <1>3. ASSUME Return(v)
        PROVE  /\ <<VerificationDistance(v)', VerificationDistance(v)>> \in Nearer
               /\ \A p \in Procs : p # v => pc'[p] = pc[p] /\ attempt'[p] = attempt[p]
               /\ \A w \in Verifiers : w # v => verify'[w] = verify[w]
    <2>1. CASE verify[v].round < Rounds
      <3>1. /\ Goto(v, "sleep") /\ attempt' = [attempt EXCEPT ![v] = 0]
            /\ verify' = [verify EXCEPT ![v] = [verify[v] EXCEPT !.round = @ + 1]]
        BY <1>1, <1>3, <2>1 DEF Return
      <3>2. verify'[v].round > verify[v].round
        BY <1>1, <3>1
      <3> QED
        BY <1>1, <1>2, <3>1, <3>2, VerificationNears
    <2>2. CASE ~(verify[v].round < Rounds)
      <3>1. /\ Goto(v, "done") /\ attempt' = [attempt EXCEPT ![v] = 0]
            /\ verify' = [verify EXCEPT ![v] = NoVerify]
        BY <1>1, <1>3, <2>2 DEF Return
      <3>2. pc'[v] = "done"
        BY <1>1, <3>1 DEF Goto
      <3> QED
        BY <1>1, <1>2, <3>1, <3>2, VerificationNears
    <2> QED
      BY <2>1, <2>2
  <1>4. ASSUME NEW place, Goto(v, place), attempt' = attempt, verify' = verify,
               VerifierStage(place) < VerifierStage(pc[v])
        PROVE  /\ <<VerificationDistance(v)', VerificationDistance(v)>> \in Nearer
               /\ \A p \in Procs : p # v => pc'[p] = pc[p] /\ attempt'[p] = attempt[p]
               /\ \A w \in Verifiers : w # v => verify'[w] = verify[w]
    <2>1. pc'[v] = place
      BY <1>1, <1>4 DEF Goto
    <2> QED
      BY <1>1, <1>2, <1>4, <2>1, VerificationNears
  <1>5. ASSUME EndVerification(v)
        PROVE  /\ <<VerificationDistance(v)', VerificationDistance(v)>> \in Nearer
               /\ \A p \in Procs : p # v => pc'[p] = pc[p] /\ attempt'[p] = attempt[p]
               /\ \A w \in Verifiers : w # v => verify'[w] = verify[w]
    <2>1. pc'[v] = "done"
      BY <1>1, <1>5 DEF EndVerification, Goto
    <2> QED
      BY <1>1, <1>2, <1>5, <2>1, VerificationNears DEF EndVerification
  <1>6. call' = call
    BY VerifierMoves
  <1>7. CASE VerifyCheck(v) \/ VerifyPlayer(v) \/ VerifyReset(v)
    BY <1>4, <1>5, <1>6, <1>7
    DEF VerifyCheck, VerifyPlayer, VerifyReset, Jump, VerifierStage
  <1>8. CASE WithDevice(v)
    <2>1. CASE ~Return(v) /\ attempt' = [attempt EXCEPT ![v] = @ + 1]
      <3>1. attempt'[v] > attempt[v] /\ verify' = verify
        BY <1>1, <1>8, <2>1, WithDeviceNears
      <3>2. \E l : Goto(v, l)
        BY <1>1, <1>8, <2>1, WithDeviceMoves
      <3> QED
        BY <1>1, <1>2, <1>6, <2>1, <3>1, <3>2, VerificationNears
    <2> QED
      BY <1>1, <1>3, <1>4, <1>6, <1>8, <2>1, WithDeviceNears DEF VerifierStage
  <1>9. CASE VerifyPlay(v) \/ VerifyPlayFails(v)
    BY <1>3, <1>4, <1>6, <1>9 DEF VerifyPlay, VerifyPlayFails, Jump, VerifierStage
  <1> QED
    BY <1>7, <1>8, <1>9 DEF VerifierStep

\* What a step does to the distances: a step of a command or verification makes
\* its own smaller, and nothing else changes that of a command or verification
\* under way.
NearerTheEnd ==
  /\ ButtonStep => <<CommandDistance', CommandDistance>> \in Nearer
  /\ ~ButtonStep /\ pc[Button] # "idle" => CommandDistance' = CommandDistance
  /\ \A v \in Verifiers :
       /\ VerifierStep(v) => <<VerificationDistance(v)', VerificationDistance(v)>> \in Nearer
       /\ ~VerifierStep(v) /\ pc[v] # "none" =>
            VerificationDistance(v)' = VerificationDistance(v)

\* ... stated of steps that are none.
LEMMA NothingNears ==
  ASSUME RemoteAssumption, LoadedAssumption, TypeOK, TypeOK', Places, Places',
         UNCHANGED <<pc, attempt, call, verify>>
  PROVE  /\ CommandDistance' = CommandDistance
         /\ \A v \in Verifiers : VerificationDistance(v)' = VerificationDistance(v)
  BY DEF CommandDistance, VerificationDistance

\* Every step goes by NearerTheEnd.
LEMMA StepNears ==
  ASSUME RemoteAssumption, LoadedAssumption, TypeOK, TypeOK', Places, Places', [Next]_vars
  PROVE  NearerTheEnd
  <1>1. /\ Button \in Procs /\ Button \notin Verifiers /\ Verifiers \subseteq Procs
        /\ pc \in [Procs -> ButtonPlaces \cup VerifierPlaces]
        /\ attempt \in [Procs -> 0 .. Attempts] /\ dev \in [Procs -> BOOLEAN]
        /\ verify \in [Verifiers -> [uri : Uris \cup {NoUri}, round : 0 .. Rounds]]
    BY Ranges DEF TypeOK
  <1>2. \A v \in Verifiers : VerifierStep(v) => pc[v] \notin {"none", "done"}
    BY VerifierMoves
  <1>3. ButtonStep => pc[Button] # "idle"
    BY ButtonMoves
  <1>4. ASSUME ButtonStep
        PROVE  \A v \in Verifiers :
                 pc[v] # "none" => /\ pc'[v] = pc[v] /\ attempt'[v] = attempt[v]
                                   /\ verify'[v] = verify[v]
    <2>1. pc[seq] = "none" /\ seq \in Verifiers
      BY <1>3, <1>4 DEF Places
    <2>2. ASSUME Return(Button) \/ \E u : ReturnVerifying(u)
          PROVE  \A v \in Verifiers :
                   pc[v] # "none" => /\ pc'[v] = pc[v] /\ attempt'[v] = attempt[v]
                                     /\ verify'[v] = verify[v]
      BY <1>1, <2>1, <2>2 DEF Return, ReturnVerifying, Goto
    <2>3. ASSUME \E l : Goto(Button, l), verify' = verify,
                 attempt' = attempt \/ \E n : attempt' = [attempt EXCEPT ![Button] = n]
          PROVE  \A v \in Verifiers :
                   /\ pc'[v] = pc[v] /\ attempt'[v] = attempt[v] /\ verify'[v] = verify[v]
      BY <1>1, <2>3 DEF Goto
    <2>4. CASE PlayerFails \/ ReadPlayer \/ SkipSong \/ SkipBecomesToggle \/ StopCall
      BY <2>2, <2>3, <2>4, Stays, <1>1
      DEF PlayerFails, ReadPlayer, SkipSong, SkipBecomesToggle, StopCall, Jump
    <2>5. CASE WithDevice(Button)
      <3>1. CASE ~Return(Button)
        <4>1. \E l : Goto(Button, l)
          BY <1>1, <2>5, <3>1, WithDeviceMoves
        <4>2. /\ verify' = verify
              /\ attempt' = attempt \/ \E n : attempt' = [attempt EXCEPT ![Button] = n]
          BY <1>1, <2>5, <3>1, WithDeviceNears
        <4> QED
          BY <2>3, <4>1, <4>2
      <3> QED
        BY <2>2, <3>1
    <2>6. CASE PlayMorning \/ Resume \/ GoForChannel \/ Mark
      BY <2>2, <2>3, <2>6 DEF PlayMorning, Resume, GoForChannel, Mark, Jump
    <2>7. CASE RefreshFresh \/ RefreshStale \/ RefreshPoll \/ RefreshRelock
      BY <2>2, <2>3, <2>7
      DEF RefreshFresh, RefreshStale, RefreshPoll, RefreshRelock, AlignAndChoose, Jump
    <2>8. CASE PlayChannel \/ PlayChannelNotFound \/ PlayChannelRefused
      BY <1>1, <2>2, <2>3, <2>8, Stays
      DEF PlayChannel, PlayChannelNotFound, PlayChannelRefused, Jump
    <2> QED
      BY <1>4, <2>4, <2>5, <2>6, <2>7, <2>8 DEF ButtonStep
  <1>5. CASE ButtonStep
    <2>1. <<CommandDistance', CommandDistance>> \in Nearer
      BY <1>5, ButtonNears
    <2>2. ASSUME NEW v \in Verifiers, pc[v] # "none"
          PROVE  VerificationDistance(v)' = VerificationDistance(v)
      BY <1>4, <1>5, <2>2 DEF VerificationDistance
    <2>3. ASSUME NEW v \in Verifiers, VerifierStep(v)
          PROVE  <<VerificationDistance(v)', VerificationDistance(v)>> \in Nearer
      BY <2>3, VerifierNears
    <2> QED
      BY <1>5, <2>1, <2>2, <2>3 DEF NearerTheEnd
  <1>6. CASE \E w \in Verifiers : VerifierStep(w)
    <2>1. PICK w \in Verifiers : VerifierStep(w)
      BY <1>6
    <2>2. /\ call' = call
          /\ \A p \in Procs : p # w => pc'[p] = pc[p] /\ attempt'[p] = attempt[p]
          /\ \A v \in Verifiers : v # w => verify'[v] = verify[v]
      BY <2>1, VerifierNears
    <2>3. CommandDistance' = CommandDistance
      BY <1>1, <2>2 DEF CommandDistance
    <2>4. ASSUME NEW v \in Verifiers, ~VerifierStep(v)
          PROVE  VerificationDistance(v)' = VerificationDistance(v)
      BY <1>1, <2>1, <2>2, <2>4 DEF VerificationDistance
    <2>5. ASSUME NEW v \in Verifiers, VerifierStep(v)
          PROVE  <<VerificationDistance(v)', VerificationDistance(v)>> \in Nearer
      BY <2>5, VerifierNears
    <2>6. ButtonStep => <<CommandDistance', CommandDistance>> \in Nearer
      BY ButtonNears
    <2> QED
      BY <2>3, <2>4, <2>5, <2>6 DEF NearerTheEnd
  <1>7. CASE ~ButtonStep /\ ~(\E w \in Verifiers : VerifierStep(w)) /\ ~Presses
    <2>1. UNCHANGED <<pc, attempt, call, verify>>
      BY <1>7 DEF Next, Presses, vars, BackgroundPoll, Phone, ReceiverCrash, SessionLost,
                  Reregister, frames
    <2> QED
      BY <1>7, <2>1, NothingNears DEF NearerTheEnd
  <1>8. CASE Presses /\ ~ButtonStep /\ ~(\E w \in Verifiers : VerifierStep(w))
    <2>1. /\ pc[Button] = "idle" /\ Goto(Button, "player")
          /\ attempt' = attempt /\ verify' = verify
      BY <1>8 DEF Presses, Press
    <2>2. \A v \in Verifiers : VerificationDistance(v)' = VerificationDistance(v)
      BY <1>1, <2>1 DEF VerificationDistance, Goto
    <2> QED
      BY <1>8, <2>1, <2>2 DEF NearerTheEnd
  <1> QED
    BY <1>5, <1>6, <1>7, <1>8

\* However many commands, attempts, rounds and channels: a step of a command or
\* of a verification brings it nearer to its end, in an order in which nothing
\* comes nearer for ever (NearerEnds), and no press, poll, act of the user or
\* loss on the way, nor any other goroutine, takes it back.  A command that
\* keeps running is over after finitely many steps of its own
\* (sound/spotify.go:232-268, 363-415, 475-505).
THEOREM RemoteNearsTheEnd == Spec => [][NearerTheEnd]_vars
  <1>1. IInv /\ IInv' /\ [Next]_vars => [NearerTheEnd]_vars
    BY StepNears, RemoteAssumption, LoadedAssumption DEF IInv
  <1> QED
    BY <1>1, RemoteInvariant, PTL DEF Spec

=============================================================================
