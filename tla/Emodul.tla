------------------------------- MODULE Emodul -------------------------------
(***************************************************************************)
(* The boiler controller's client (emodul/emodul.go) and the REST requests *)
(* that set the buffer tank's two target temperatures.                     *)
(*                                                                         *)
(* A request writes one target, waits until it has taken effect, and       *)
(* writes the other.  What it waits for is what the parser made of the     *)
(* data the minute's fetch signalled; its own fetches only replace the raw *)
(* data.  Requests run in goroutines of their own and share the raw data,  *)
(* the parsed data and the cookies with the fetching goroutine.            *)
(*                                                                         *)
(* The controller is external.  As the code uses it, it applies a write    *)
(* some time after it answered, a later write replaces one not yet         *)
(* applied, and each target is limited by the other: bottom <= top.        *)
(***************************************************************************)
EXTENDS Integers, Sequences, FiniteSets

CONSTANTS
  Handlers,      \* goroutines of REST requests
  Jobs,          \* what requests ask: [top, bottom]
  Start,         \* the controller's targets at start: [top, bottom]
  Low, High,     \* the limits of both targets
  RetryMax,      \* attempts of a call (3)
  MaxEvents      \* bound: requests, failures, sessions that expire and changes
                 \* by hand, together

ASSUME EmodulAssumption ==
  /\ "fetcher" \notin Handlers
  /\ Low \in Nat \ {0} /\ High \in Nat /\ RetryMax \in Nat \ {0, 1}
  /\ MaxEvents \in Nat
  /\ Jobs \subseteq [top : Low .. High, bottom : Low .. High]
  /\ Start \in [top : Low .. High, bottom : Low .. High] /\ Start.bottom <= Start.top

VARIABLES
  boiler,        \* the controller: targets, and the write not yet applied
  jar,           \* params.Cookies are those of a session that is logged in
  menuData,      \* the raw data: the targets, when there are any
  parsed,        \* topBufferTemp and bottomBufferTemp
  dataUpdate,    \* the channel of one signal
  reader,        \* the parser's goroutine: where it is, and the data it took
  frame,         \* the other goroutines
  events

vars == <<boiler, jar, menuData, parsed, dataUpdate, reader, frame, events>>

Fetcher == "fetcher"       \* Start's own loop
Goroutines == Handlers \cup {Fetcher}

NoMenu == [top |-> 0, bottom |-> 0]

\* a write: a target and its temperature, or another control (working mode,
\* fire up, damping), which is not waited for
Control == [device |-> "control", temp |-> 0]
NoWrite == [device |-> "none", temp |-> 0]
Top(t) == [device |-> "top", temp |-> t]
Bottom(t) == [device |-> "bottom", temp |-> t]

\* at: the next step; writes: those left, the current one first; call: the
\* call that logs in again; tries: its attempts; session: its cookies are
\* logged in; body: the menu it was answered with.
\* asked: the job; clean: since the request began nothing disturbed it;
\* alone: nothing but an expired session disturbed the call
IdleFrame == [at |-> "idle", writes |-> <<>>, call |-> "none", tries |-> 1,
              session |-> FALSE, body |-> NoMenu, asked |-> NoMenu,
              clean |-> FALSE, alone |-> TRUE]

Goto(p, f) == frame' = [frame EXCEPT ![p] = f]
At(p, l) == [frame[p] EXCEPT !.at = l]

\* a call of the frontend begins: SetCookies
Calling(f, l) == [f EXCEPT !.at = l, !.tries = 1, !.session = jar, !.alone = TRUE]

\* ... and ends
Called(f, l) == [f EXCEPT !.at = l, !.tries = 1, !.session = FALSE, !.alone = TRUE]

\* ... or is given up
GivenUp(f) == [f EXCEPT !.at = "failed", !.tries = 1, !.session = FALSE]

Target(b, device) == IF device = "top" THEN b.top ELSE b.bottom
InLimits(w) == CASE w.device = "top" -> w.temp \in boiler.bottom .. High
                 [] w.device = "bottom" -> w.temp \in Low .. boiler.top
                 [] OTHER -> TRUE

Event == events < MaxEvents /\ events' = events + 1

Crashed == reader.at = "dead"

-----------------------------------------------------------------------------
(* httpclient.Do with the retry policy of emodul_token.go. *)

\* an attempt fails, or its answer is lost
TryAgain(p) ==
  LET f == [frame[p] EXCEPT !.alone = FALSE]
  IN  /\ Event
      /\ Goto(p, IF f.tries < RetryMax THEN [f EXCEPT !.tries = @ + 1] ELSE GivenUp(f))

\* 401: FrontendLogin begins, with no cookies for anybody ...
Unauthorized(p) ==
  /\ frame[p].at \in {"post", "menu"} /\ ~frame[p].session
  /\ jar' = FALSE
  /\ frame' = [q \in Goroutines |->
       IF q = p THEN [frame[p] EXCEPT !.at = "login", !.call = frame[p].at]
       ELSE [frame[q] EXCEPT !.alone = FALSE]]
  /\ UNCHANGED <<boiler, menuData, parsed, dataUpdate, reader, events>>

\* the next attempt of the call that met the 401
Again(p, f) == IF f.tries < RetryMax
  THEN [f EXCEPT !.at = frame[p].call, !.call = "none", !.tries = @ + 1]
  ELSE [GivenUp(f) EXCEPT !.call = "none"]

\* ... and gets a session, or not
Login(p) ==
  /\ frame[p].at = "login"
  /\ \/ jar' = TRUE /\ Goto(p, At(p, "cookies")) /\ UNCHANGED events
     \/ /\ Event
        /\ Goto(p, Again(p, [frame[p] EXCEPT !.alone = FALSE]))
        /\ UNCHANGED jar
  /\ UNCHANGED <<boiler, menuData, parsed, dataUpdate, reader>>

\* mutant of TakeCookies: the repeated request keeps its old cookies
TakeNoCookies(p) ==
  /\ frame[p].at = "cookies"
  /\ Goto(p, Again(p, frame[p]))
  /\ UNCHANGED <<boiler, jar, menuData, parsed, dataUpdate, reader, events>>

\* SetCookies on the request that is repeated
TakeCookies(p) ==
  /\ frame[p].at = "cookies"
  /\ Goto(p, Again(p, [frame[p] EXCEPT !.session = jar]))
  /\ UNCHANGED <<boiler, jar, menuData, parsed, dataUpdate, reader, events>>

-----------------------------------------------------------------------------
(* SetBufferTargetTemps and the other controls. *)

\* mutant of Ordered: the bottom target always goes first
OrderedBottomFirst(job) == <<Bottom(job.bottom), Top(job.top)>>

\* the bottom target goes first when the parsed limits allow it
Ordered(job) ==
  IF job.bottom \in parsed.min .. parsed.max
    THEN <<Bottom(job.bottom), Top(job.top)>>
    ELSE <<Top(job.top), Bottom(job.bottom)>>

\* everything the program knows of the targets is as they are
UpToDate ==
  LET known == {[top |-> parsed.top, bottom |-> parsed.bottom], menuData}
                 \cup (IF reader.at = "idle" THEN {} ELSE {reader.menu})
                 \cup (IF frame[Fetcher].at = "store" THEN {frame[Fetcher].body} ELSE {})
  IN  /\ boiler.pending = NoWrite /\ parsed.max = boiler.top
      /\ known = {[top |-> boiler.top, bottom |-> boiler.bottom]}

\* a request arrives: one of the other controls, or one for targets, which no
\* other such request is undisturbed by
Ask(h) ==
  /\ frame[h].at = "idle" /\ Event
  /\ \/ Goto(h, [Calling(IdleFrame, "post") EXCEPT !.writes = <<Control>>])
     \/ \E job \in Jobs :
          frame' = [p \in Goroutines |->
            IF p # h THEN [frame[p] EXCEPT !.clean = FALSE]
            ELSE [Calling(IdleFrame, "post") EXCEPT
                    !.writes = Ordered(job), !.asked = job,
                    !.clean = /\ UpToDate
                              /\ \A q \in Handlers : frame[q].asked = NoMenu]]
  /\ UNCHANGED <<boiler, jar, menuData, parsed, dataUpdate, reader>>

\* what follows a write: the other one, or the end
Onward(f) == IF Len(f.writes) > 1
  THEN Calling([f EXCEPT !.writes = Tail(@)], "post")
  ELSE [Called(f, "ok") EXCEPT !.writes = <<>>]

\* sendControlData: the controller takes the write in place of one it has not
\* applied, or refuses one outside the limits.  A target is waited for
Post(p) ==
  LET w == Head(frame[p].writes) IN
  /\ frame[p].at = "post" /\ frame[p].session
  /\ \/ /\ boiler' = IF w = Control THEN boiler ELSE [boiler EXCEPT !.pending = w]
        /\ \/ Goto(p, IF w = Control THEN Onward(frame[p])
                                  ELSE Calling(frame[p], "menu"))
              /\ UNCHANGED events
           \/ TryAgain(p)
     \/ ~InLimits(w) /\ Goto(p, Called(frame[p], "refused")) /\ UNCHANGED <<boiler, events>>
     \/ TryAgain(p) /\ UNCHANGED boiler
  /\ UNCHANGED <<jar, menuData, parsed, dataUpdate, reader>>

\* mutant of Wait: goes on once its own fetch is done
WaitFetched(h) ==
  /\ h # Fetcher /\ frame[h].at = "compare"
  /\ Goto(h, Onward(frame[h]))
  /\ UNCHANGED <<boiler, jar, menuData, parsed, dataUpdate, reader, events>>

\* the wait goes on, until the parsed target is the one written ...
Wait(h) ==
  LET w == Head(frame[h].writes) IN
  /\ h # Fetcher /\ frame[h].at = "compare"
  /\ Goto(h, IF Target(parsed, w.device) = w.temp THEN Onward(frame[h])
                                                  ELSE Calling(frame[h], "menu"))
  /\ UNCHANGED <<boiler, jar, menuData, parsed, dataUpdate, reader, events>>

\* ... or until two minutes have passed, which is no error
TimeUp(h) ==
  LET w == Head(frame[h].writes) IN
  /\ h # Fetcher /\ frame[h].at = "compare" /\ Target(parsed, w.device) # w.temp
  /\ Goto(h, Onward([frame[h] EXCEPT !.clean = FALSE]))
  /\ UNCHANGED <<boiler, jar, menuData, parsed, dataUpdate, reader, events>>

\* the request is answered
Answered(h) ==
  /\ h # Fetcher /\ frame[h].at \in {"ok", "refused", "failed"}
  /\ Goto(h, IdleFrame)
  /\ UNCHANGED <<boiler, jar, menuData, parsed, dataUpdate, reader, events>>

-----------------------------------------------------------------------------
(* fetchData: by the fetcher every minute, and by a request that waits. *)

\* the module's data by the API, which matters here only when it fails, and
\* the menu by the frontend
Menu(p) ==
  /\ frame[p].at = "menu" /\ frame[p].session
  /\ \/ /\ Goto(p, [Called(frame[p], "store") EXCEPT
                     !.body = [top |-> boiler.top, bottom |-> boiler.bottom]])
        /\ UNCHANGED events
     \/ TryAgain(p)
  /\ UNCHANGED <<boiler, jar, menuData, parsed, dataUpdate, reader>>

Store(p) ==
  /\ frame[p].at = "store"
  /\ menuData' = frame[p].body
  /\ Goto(p, [frame[p] EXCEPT !.at = IF p = Fetcher THEN "signal" ELSE "compare",
                              !.body = NoMenu])
  /\ UNCHANGED <<boiler, jar, parsed, dataUpdate, reader, events>>

\* dataUpdate <- struct{}{}: blocks while the parser has not taken the last one
Signal ==
  /\ frame[Fetcher].at = "signal" /\ ~dataUpdate
  /\ dataUpdate' = TRUE
  /\ Goto(Fetcher, At(Fetcher, "sleep"))
  /\ UNCHANGED <<boiler, jar, menuData, parsed, reader, events>>


\* the ticker ticks, after an error as after a signal
Minute ==
  /\ frame[Fetcher].at \in {"sleep", "failed"}
  /\ Goto(Fetcher, Calling(frame[Fetcher], "menu"))
  /\ UNCHANGED <<boiler, jar, menuData, parsed, dataUpdate, reader, events>>

-----------------------------------------------------------------------------
(* The parser's goroutine. *)

\* a sensor is parsed, or its data is missing and the last one is kept: first
\* the top one, then, when it has been published, the bottom one
Take ==
  /\ reader.at = "idle" /\ dataUpdate
  /\ dataUpdate' = FALSE
  /\ reader' = [at |-> "bottom", menu |-> menuData]
  /\ \/ parsed' = [parsed EXCEPT !.top = menuData.top] /\ UNCHANGED events
     \/ Event /\ UNCHANGED parsed
  /\ UNCHANGED <<boiler, jar, menuData, frame>>

ParseBottom ==
  /\ reader.at = "bottom"
  /\ reader' = [at |-> "idle", menu |-> NoMenu]
  /\ \/ /\ parsed' = [parsed EXCEPT !.bottom = reader.menu.bottom,
                                    !.min = Low, !.max = reader.menu.top]
        /\ UNCHANGED events
     \/ Event /\ UNCHANGED parsed
  /\ UNCHANGED <<boiler, jar, menuData, dataUpdate, frame>>

-----------------------------------------------------------------------------
(* The controller and its server. *)

\* the write that waits is applied, or dropped when it is outside the limits
TakeEffect ==
  /\ ~Crashed /\ boiler.pending # NoWrite
  /\ boiler' = LET w == boiler.pending
                   b == [boiler EXCEPT !.pending = NoWrite]
               IN  IF ~InLimits(w) THEN b
                   ELSE IF w.device = "top" THEN [b EXCEPT !.top = w.temp]
                                            ELSE [b EXCEPT !.bottom = w.temp]
  /\ UNCHANGED <<jar, menuData, parsed, dataUpdate, reader, frame, events>>

\* somebody sets a target at the boiler
ByHand ==
  /\ ~Crashed /\ Event
  /\ \E t \in Low .. High :
       \/ t >= boiler.bottom /\ t # boiler.top /\ boiler' = [boiler EXCEPT !.top = t]
       \/ t <= boiler.top /\ t # boiler.bottom /\ boiler' = [boiler EXCEPT !.bottom = t]
  /\ frame' = [p \in Goroutines |-> [frame[p] EXCEPT !.clean = FALSE]]
  /\ UNCHANGED <<jar, menuData, parsed, dataUpdate, reader>>

\* the session expires, of all requests
Expire ==
  /\ ~Crashed /\ Event
  /\ jar' = FALSE
  /\ frame' = [p \in Goroutines |-> [frame[p] EXCEPT
       !.session = FALSE, !.alone = @ /\ frame[p].tries = 1 /\ frame[p].call = "none"]]
  /\ UNCHANGED <<boiler, menuData, parsed, dataUpdate, reader>>

-----------------------------------------------------------------------------
(* Two goroutines in calls of the frontend use the map of cookies at once,  *)
(* which Go does not let pass: the process ends.                            *)
Fault ==
  /\ Cardinality({p \in Goroutines :
       frame[p].at \in {"post", "menu", "login", "cookies"}}) > 1
  /\ frame' = [p \in Goroutines |-> [IdleFrame EXCEPT !.at = "dead"]]
  /\ reader' = [reader EXCEPT !.at = "dead"]
  /\ UNCHANGED <<boiler, jar, menuData, parsed, dataUpdate, events>>

-----------------------------------------------------------------------------
\* NewEmodulClient, and Init's login
Init ==
  /\ boiler = [top |-> Start.top, bottom |-> Start.bottom, pending |-> NoWrite]
  /\ jar = TRUE
  /\ menuData = NoMenu
  /\ parsed = [top |-> 0, bottom |-> 0, min |-> 0, max |-> 0]
  /\ dataUpdate = FALSE
  /\ reader = [at |-> "idle", menu |-> NoMenu]
  /\ frame = [p \in Goroutines |->
       IF p = Fetcher THEN Calling(IdleFrame, "menu") ELSE IdleFrame]
  /\ events = 0

\* a step of a goroutine that calls
Call(p) ==
  \/ Post(p)
  \/ Wait(p)
  \/ TimeUp(p)
  \/ Answered(p)
  \/ Menu(p)
  \/ Store(p)
  \/ Unauthorized(p)
  \/ Login(p)
  \/ TakeCookies(p)

Parse == Take \/ ParseBottom

Next ==
  \/ \E h \in Handlers : Ask(h)
  \/ \E p \in Goroutines : Call(p)
  \/ Signal
  \/ Minute
  \/ Parse
  \/ TakeEffect
  \/ ByHand
  \/ Expire
  \/ Fault

Spec == Init /\ [][Next]_vars

\* goroutines go on, the tickers tick, the controller applies what it took,
\* and a wait that goes on and on comes to its two minutes
FairSpec ==
  /\ Spec
  /\ \A p \in Goroutines : WF_vars(Call(p))
  /\ \A h \in Handlers : SF_vars(TimeUp(h))
  /\ WF_vars(Signal)
  /\ WF_vars(Minute)
  /\ WF_vars(Parse)
  /\ WF_vars(TakeEffect)

-----------------------------------------------------------------------------
Menus == [top : 0 .. High, bottom : 0 .. High]
Writes == [device : {"top", "bottom", "control", "none"}, temp : 0 .. High]

TypeOK ==
  /\ boiler \in [top : Low .. High, bottom : Low .. High, pending : Writes]
  /\ boiler.bottom <= boiler.top
  /\ {jar, dataUpdate} \subseteq BOOLEAN
  /\ menuData \in Menus
  /\ parsed \in [top : 0 .. High, bottom : 0 .. High, min : 0 .. Low, max : 0 .. High]
  /\ reader \in [at : {"idle", "bottom", "dead"}, menu : Menus]
  /\ \A p \in Goroutines :
       /\ frame[p].at \in {"idle", "post", "menu", "store", "compare", "signal",
                           "sleep", "login", "cookies", "ok", "refused", "failed", "dead"}
       /\ frame[p].writes \in Seq(Writes) /\ frame[p].tries \in 1 .. RetryMax
       /\ frame[p].call \in {"none", "post", "menu"}
       /\ {frame[p].session, frame[p].clean, frame[p].alone} \subseteq BOOLEAN
       /\ frame[p].body \in Menus /\ frame[p].asked \in Menus
  /\ events \in 0 .. MaxEvents

\* A request that is answered with success has both its targets in effect, if
\* nobody else set any meanwhile, what the program knew of them was up to date
\* when it began and none of its waits ran out.
DoneInEffect ==
  \A h \in Handlers : frame[h].at = "ok" /\ frame[h].clean =>
    boiler.top = frame[h].asked.top /\ boiler.bottom = frame[h].asked.bottom

\* Such a request is not refused half way: of two targets with bottom <= top
\* the first is written that the limits allow, and then the other one's allow it.
NeverRefused ==
  \A h \in Handlers : frame[h].at = "refused" /\ frame[h].clean =>
    frame[h].asked.bottom > frame[h].asked.top

\* A call that met nothing but an expired session succeeds: it logs in and is
\* repeated with the new cookies, unless another call's login took them away.
ExpirySurvived == \A p \in Goroutines : frame[p].at = "failed" => ~frame[p].alone

=============================================================================
