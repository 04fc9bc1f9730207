---------------------------- MODULE EmodulProofs ----------------------------
(***************************************************************************)
(* For any requests, limits, number of handlers, attempts and disturbances *)
(* a request that nobody disturbs is not refused half way and is in effect *)
(* when it is answered, and a call that met an expired session succeeds.   *)
(***************************************************************************)
EXTENDS Emodul, SequenceTheorems, TLAPS

-----------------------------------------------------------------------------
(* The inductive invariant. *)

Frames == [at : {"idle", "post", "menu", "store", "compare", "signal", "sleep", "login",
                 "cookies", "ok", "refused", "failed", "dead"},
           writes : Seq(Writes), call : {"none", "post", "menu"}, tries : 1 .. RetryMax,
           session : BOOLEAN, body : Menus, asked : Menus, clean : BOOLEAN, alone : BOOLEAN]

Types ==
  /\ boiler \in [top : Low .. High, bottom : Low .. High, pending : Writes]
  /\ boiler.bottom <= boiler.top
  /\ boiler.pending = NoWrite \/ boiler.pending.device \in {"top", "bottom"}
  /\ jar \in BOOLEAN
  /\ menuData \in Menus
  /\ parsed \in [top : 0 .. High, bottom : 0 .. High, min : 0 .. Low, max : 0 .. High]
  /\ reader \in [at : {"idle", "bottom", "dead"}, menu : Menus]
  /\ frame \in [Goroutines -> Frames]

\* What a goroutine is doing, also while it logs in for it.
Stage(f) == IF f.at \in {"login", "cookies"} THEN f.call ELSE f.at

\* A call that only an expired session disturbed is at its first attempt, or at
\* a later one with the cookies of a session; good: the client's are those of one.
Undisturbed(f, good) ==
  /\ f.at \in {"login", "cookies"} => f.call # "none"
  /\ f.alone =>
       /\ f.at \in {"post", "menu"} => f.tries = 1 \/ f.session
       /\ f.at \in {"login", "cookies"} => f.tries = 1
       /\ f.at = "cookies" => good
       /\ f.at # "failed"

\* The writes a request for a may have left.
Plans(a) == {<<Top(a.top), Bottom(a.bottom)>>, <<Bottom(a.bottom), Top(a.top)>>,
             <<Top(a.top)>>, <<Bottom(a.bottom)>>}

Pending == {"post", "menu", "store", "compare"}

\* Only a request for targets writes targets, waits, and can be clean.
Shape(p, f) ==
  /\ p = Fetcher => /\ f.asked = NoMenu
                    /\ Stage(f) \in {"menu", "store", "signal", "sleep", "failed", "dead"}
  /\ p # Fetcher /\ f.asked = NoMenu =>
       /\ Stage(f) \in {"idle", "post", "ok", "refused", "failed", "dead"}
       /\ Stage(f) = "post" => f.writes = <<Control>>
  /\ f.asked = NoMenu => ~f.clean
  /\ f.asked # NoMenu =>
       /\ f.asked \in Jobs
       /\ Stage(f) \in Pending \cup {"ok", "refused", "failed"}
       /\ Stage(f) \in Pending => f.writes \in Plans(f.asked)

\* Who knows a target to be as asked has it from the controller.
Truly(v, a) ==
  /\ v.top = a.top => boiler.top = a.top
  /\ v.bottom = a.bottom => boiler.bottom = a.bottom

Known(a) ==
  /\ Truly(parsed, a)
  /\ Truly(menuData, a)
  /\ reader.at # "idle" => Truly(reader.menu, a)
  /\ \A p \in Goroutines : frame[p].at = "store" => Truly(frame[p].body, a)

\* How far the controller is with the writes ws of a clean request for a: at
\* the first of two, with the limits as they were; or at the last, the other
\* target in effect.
Progress(ws, a) ==
  IF Head(ws).device = "top"
    THEN /\ Len(ws) = 2 => /\ boiler.pending \in {NoWrite, Top(a.top)}
                           /\ a.bottom <= a.top => boiler.bottom <= a.top
         /\ Len(ws) = 1 => boiler.bottom = a.bottom
    ELSE /\ Len(ws) = 2 => /\ boiler.pending \in {NoWrite, Bottom(a.bottom)}
                           /\ a.bottom <= boiler.top
         /\ Len(ws) = 1 => boiler.top = a.top

\* Where the controller is when a clean request, whose frame is f, is at f.
Reached(f) ==
  LET a == f.asked IN
  /\ Stage(f) \in Pending => Progress(f.writes, a)
  /\ Stage(f) = "ok" => boiler.top = a.top /\ boiler.bottom = a.bottom
  /\ Stage(f) = "refused" => a.bottom > a.top

\* A clean request is the only one that writes targets, and the controller is
\* where the request has brought it.
Clean(h) ==
  frame[h].clean =>
    /\ \A q \in Handlers \ {h} : frame[q].asked = NoMenu
    /\ boiler.pending \in {NoWrite, Top(frame[h].asked.top), Bottom(frame[h].asked.bottom)}
    /\ Known(frame[h].asked)
    /\ Reached(frame[h])

IInv ==
  /\ Types
  /\ \A p \in Goroutines : Undisturbed(frame[p], jar) /\ Shape(p, frame[p])
  /\ \A h \in Handlers : Clean(h)

-----------------------------------------------------------------------------
(* What a request has left to write. *)

LEMMA PlanFacts ==
  ASSUME EmodulAssumption, NEW a \in Jobs, NEW ws \in Plans(a)
  PROVE  /\ ws \in Seq(Writes) /\ Len(ws) \in {1, 2}
         /\ Head(ws) \in {Top(a.top), Bottom(a.bottom)} /\ Head(ws) \in Writes
         /\ Len(ws) = 2 => /\ Tail(ws) \in Plans(a) /\ Len(Tail(ws)) = 1
                           /\ Head(ws) = Top(a.top) => Head(Tail(ws)) = Bottom(a.bottom)
                           /\ Head(ws) = Bottom(a.bottom) => Head(Tail(ws)) = Top(a.top)
  <1>1. Top(a.top) \in Writes /\ Bottom(a.bottom) \in Writes /\ Top(a.top) # Bottom(a.bottom)
    BY DEF EmodulAssumption, Top, Bottom, Writes
  <1> DEFINE t == Top(a.top)
             b == Bottom(a.bottom)
  <1>2. Plans(a) = {<<t, b>>, <<b, t>>, <<t>>, <<b>>}
    BY DEF Plans
  <1> HIDE DEF t, b
  <1>3. CASE ws = <<t, b>>
    <2>1. Tail(ws) = <<b>>
      BY <1>1, <1>3 DEF t, b
    <2> QED
      BY <1>1, <1>2, <1>3, <2>1 DEF t, b
  <1>4. CASE ws = <<b, t>>
    <2>1. Tail(ws) = <<t>>
      BY <1>1, <1>4 DEF t, b
    <2> QED
      BY <1>1, <1>2, <1>4, <2>1 DEF t, b
  <1>5. CASE ws = <<t>>
    <2>1. Len(ws) = 1 /\ Head(ws) = t /\ ws \in Seq(Writes)
      BY <1>1, <1>5 DEF t
    <2> QED
      BY <1>1, <2>1 DEF t
  <1>6. CASE ws = <<b>>
    <2>1. Len(ws) = 1 /\ Head(ws) = b /\ ws \in Seq(Writes)
      BY <1>1, <1>6 DEF b
    <2> QED
      BY <1>1, <2>1 DEF b
  <1> QED
    BY <1>2, <1>3, <1>4, <1>5, <1>6

-----------------------------------------------------------------------------
(* A step of one goroutine. *)

\* What a step of p to the frame f has to show when it leaves the controller's
\* targets alone: f is a frame that may be, and no cleaner than the one before.
Fair(p, f) ==
  /\ f \in Frames
  /\ Undisturbed(f, jar') /\ Shape(p, f)
  /\ f.asked \in {frame[p].asked, NoMenu}
  /\ f.at = "store" => f.body = [top |-> boiler.top, bottom |-> boiler.bottom]
  /\ f.clean => frame[p].clean /\ f.asked = frame[p].asked /\ Reached(f)

\* The controller takes the first write of f's, a request's for targets.
Taken(p, f) ==
  /\ boiler' = [boiler EXCEPT !.pending = Head(f.writes)]
  /\ f.asked = frame[p].asked /\ f.asked # NoMenu
  /\ f.writes \in Plans(f.asked)

LEMMA StepByOne ==
  ASSUME EmodulAssumption, IInv, NEW p \in Goroutines, NEW f, Fair(p, f), Goto(p, f),
         boiler' = boiler \/ Taken(p, f),
         jar' \in {jar, TRUE}, UNCHANGED <<parsed, reader>>,
         \/ menuData' = menuData
         \/ frame[p].at = "store" /\ menuData' = frame[p].body
  PROVE  IInv'
  <1> USE DEF IInv
  <1>1. /\ frame' \in [Goroutines -> Frames] /\ frame'[p] = f
        /\ \A q \in Goroutines : q # p => frame'[q] = frame[q]
    BY DEF Goto, Fair, Types
  <1>2. Types'
    <2>1. menuData' \in Menus
      BY DEF Types, Frames
    <2>2. ASSUME Taken(p, f)
          PROVE  Head(f.writes) \in Writes /\ Head(f.writes).device \in {"top", "bottom"}
      <3>1. f.asked \in Jobs /\ f.writes \in Plans(f.asked)
        BY <2>2 DEF Taken, Fair, Shape
      <3>2. /\ Head(f.writes) \in Writes
            /\ Head(f.writes) \in {Top(f.asked.top), Bottom(f.asked.bottom)}
        BY <3>1, PlanFacts
      <3> QED
        BY <3>2 DEF Top, Bottom
    <2> QED
      BY <1>1, <2>1, <2>2 DEF Types, Taken
  <1>3. \A q \in Goroutines : (Undisturbed(frame[q], jar) /\ Shape(q, frame[q]))'
    <2> SUFFICES ASSUME NEW q \in Goroutines
                 PROVE  Undisturbed(frame'[q], jar') /\ Shape(q, frame'[q])
      BY DEF Undisturbed, Shape, Stage, Plans, Pending
    <2>1. CASE q = p
      BY <1>1, <2>1 DEF Fair
    <2>2. CASE q # p
      <3>1. Undisturbed(frame[q], jar) /\ Shape(q, frame[q]) /\ frame'[q] = frame[q]
        BY <1>1, <2>2
      <3>2. Undisturbed(frame[q], jar')
        BY <3>1 DEF Undisturbed, Types
      <3> QED
        BY <3>1, <3>2
    <2> QED
      BY <2>1, <2>2
  <1>0. boiler'.top = boiler.top /\ boiler'.bottom = boiler.bottom
    BY DEF Taken, Types
  <1>4. ASSUME NEW a, Known(a) PROVE Known(a)'
    <2>1. /\ Truly(parsed, a)' /\ Truly(menuData, a)'
          /\ reader'.at # "idle" => Truly(reader.menu, a)'
      BY <1>0, <1>4 DEF Known, Truly
    <2>2. ASSUME NEW q \in Goroutines, frame'[q].at = "store" PROVE Truly(frame'[q].body, a)
      BY <1>1, <1>4, <2>2 DEF Known, Truly, Fair
    <2> QED
      BY <1>0, <2>1, <2>2 DEF Known, Truly
  <1>5. ASSUME NEW h \in Handlers, frame'[h].clean PROVE Clean(h)'
    <2>1. h \in Goroutines /\ frame[h].clean /\ frame'[h].asked = frame[h].asked
      BY <1>1, <1>5 DEF Fair, Goroutines
    <2>2. \A q \in Handlers \ {h} : frame'[q].asked = NoMenu
      BY <1>1, <2>1 DEF Clean, Fair, Goroutines
    <2>3. Known(frame[h].asked)'
      <3>1. PICK a : a = frame[h].asked
        OBVIOUS
      <3>2. Known(a)' /\ frame'[h].asked = a
        BY <1>4, <2>1, <3>1 DEF Clean
      <3> QED
        BY <3>2 DEF Known, Truly
    <2>4. Reached(frame[h])'
      <3>1. Reached(frame'[h])
        BY <1>1, <1>5, <2>1 DEF Clean, Fair
      <3>2. CASE boiler' = boiler
        BY <3>1, <3>2 DEF Reached, Progress
      <3>3. CASE Taken(p, f)
        <4>1. h = p
          BY <2>1, <3>3 DEF Clean, Taken, Shape, Goroutines
        <4>2. f.asked \in Jobs
          BY <3>3 DEF Fair, Shape, Taken
        <4>3. boiler'.pending = Head(f.writes) /\ Head(f.writes) \in {Top(f.asked.top), Bottom(f.asked.bottom)}
          BY <3>3, <4>2, PlanFacts DEF Taken, Types
        <4> QED
          BY <1>0, <1>1, <3>1, <4>1, <4>3 DEF Reached, Progress, Top, Bottom
      <3> QED
        BY <3>2, <3>3
    <2>5. boiler'.pending \in {NoWrite, Top(frame'[h].asked.top), Bottom(frame'[h].asked.bottom)}
      <3>1. CASE boiler' = boiler
        BY <2>1, <3>1 DEF Clean
      <3>2. CASE Taken(p, f)
        <4>1. h = p
          BY <2>1, <3>2 DEF Clean, Taken, Shape, Goroutines
        <4> QED
          BY <1>1, <3>2, <4>1, PlanFacts DEF Taken, Fair, Shape, Types
      <3> QED
        BY <3>1, <3>2
    <2> QED
      BY <2>1, <2>2, <2>3, <2>4, <2>5 DEF Clean
  <1> QED
    BY <1>2, <1>3, <1>5 DEF Clean

-----------------------------------------------------------------------------
(* The steps of a call. *)

\* What becomes of a frame when its call begins, ends or is given up.
LEMMA GivenUpForm ==
  ASSUME EmodulAssumption, NEW f \in Frames
  PROVE  LET g == GivenUp(f) IN
         /\ g \in Frames /\ g.at = "failed" /\ g.alone = f.alone
         /\ g.asked = f.asked /\ g.clean = f.clean /\ g.writes = f.writes
  <1>1. 1 \in 1 .. RetryMax
    BY DEF EmodulAssumption
  <1> QED
    BY <1>1 DEF Frames, GivenUp

LEMMA CalledForm ==
  ASSUME EmodulAssumption, NEW f \in Frames, NEW l \in {"ok", "refused", "store"}
  PROVE  LET g == Called(f, l) IN
         /\ g \in Frames /\ g.at = l /\ g.body = f.body
         /\ g.asked = f.asked /\ g.clean = f.clean /\ g.writes = f.writes
  <1>1. 1 \in 1 .. RetryMax
    BY DEF EmodulAssumption
  <1> QED
    BY <1>1 DEF Frames, Called

LEMMA CallingForm ==
  ASSUME EmodulAssumption, jar \in BOOLEAN, NEW f \in Frames, NEW l \in {"post", "menu"}
  PROVE  LET g == Calling(f, l) IN
         /\ g \in Frames /\ g.at = l /\ g.tries = 1
         /\ g.asked = f.asked /\ g.clean = f.clean /\ g.writes = f.writes
  <1>1. 1 \in 1 .. RetryMax
    BY DEF EmodulAssumption
  <1> QED
    BY <1>1 DEF Frames, Calling

\* A frame at the same stage, or given up, is shaped and reached as before.
LEMMA Stays ==
  ASSUME EmodulAssumption, IInv, NEW p \in Goroutines, NEW g,
         g.asked = frame[p].asked, g.clean => frame[p].clean, g.writes = frame[p].writes,
         g.clean \in BOOLEAN, Stage(g) \in {Stage(frame[p]), "failed"}
  PROVE  Shape(p, g) /\ (g.clean => Reached(g))
  <1>1. Shape(p, frame[p])
    BY DEF IInv
  <1>2. Shape(p, g)
    BY <1>1 DEF Shape, Pending
  <1>3. g.clean => Clean(p) /\ p \in Handlers
    BY <1>1 DEF IInv, Shape, Goroutines
  <1> QED
    BY <1>2, <1>3 DEF Clean, Reached, Pending

\* A failed attempt, also of a write that the controller took.
LEMMA TryAgainKept ==
  ASSUME EmodulAssumption, IInv, NEW p \in Goroutines, TryAgain(p),
         frame[p].at \in {"post", "menu"},
         \/ boiler' = boiler
         \/ /\ boiler' = [boiler EXCEPT !.pending = Head(frame[p].writes)]
            /\ frame[p].at = "post" /\ frame[p].asked # NoMenu,
         UNCHANGED <<jar, parsed, reader, menuData>>
  PROVE  IInv'
  <1> DEFINE f == [frame[p] EXCEPT !.alone = FALSE]
             g == IF f.tries < RetryMax THEN [f EXCEPT !.tries = @ + 1] ELSE GivenUp(f)
  <1>1. frame[p] \in Frames /\ Undisturbed(frame[p], jar) /\ Shape(p, frame[p])
    BY DEF IInv, Types
  <1>2. /\ g \in Frames /\ ~g.alone
        /\ g.asked = frame[p].asked /\ g.clean = frame[p].clean /\ g.writes = frame[p].writes
        /\ g.at \in {frame[p].at, "failed"}
    <2>1. /\ f \in Frames /\ ~f.alone /\ f.at = frame[p].at /\ f.tries = frame[p].tries
          /\ f.asked = frame[p].asked /\ f.clean = frame[p].clean /\ f.writes = frame[p].writes
      BY <1>1 DEF Frames
    <2> HIDE DEF f
    <2>2. CASE f.tries < RetryMax
      <3>1. f.tries + 1 \in 1 .. RetryMax
        BY <2>1, <2>2 DEF Frames, EmodulAssumption
      <3> QED
        BY <2>1, <2>2, <3>1 DEF Frames
    <2>3. CASE ~(f.tries < RetryMax)
      BY <2>1, <2>3, GivenUpForm
    <2> QED
      BY <2>2, <2>3
  <1>3. Goto(p, g)
    BY DEF TryAgain
  <1> HIDE DEF f, g
  <1>4. Stage(g) \in {Stage(frame[p]), "failed"} /\ g.at \notin {"login", "cookies", "store"}
    BY <1>2 DEF Stage
  <1>5. Shape(p, g) /\ (g.clean => Reached(g)) /\ Undisturbed(g, jar')
    <2>1. g.clean \in BOOLEAN
      BY <1>2 DEF Frames
    <2> QED
      BY <1>1, <1>2, <1>4, <2>1, Stays DEF Undisturbed
  <1>6. Fair(p, g)
    BY <1>1, <1>2, <1>4, <1>5 DEF Fair
  <1>7. boiler' = boiler \/ Taken(p, g)
    <2>1. frame[p].at = "post" /\ frame[p].asked # NoMenu => frame[p].writes \in Plans(frame[p].asked)
      BY <1>1 DEF Shape, Stage, Pending
    <2> QED
      BY <1>2, <2>1 DEF Taken
  <1> QED
    BY <1>3, <1>6, <1>7, StepByOne

\* What follows a write: the next one, or the end.
LEMMA OnwardForm ==
  ASSUME EmodulAssumption, jar \in BOOLEAN, NEW f \in Frames, f.writes # <<>>
  PROVE  LET g == Onward(f) IN
         /\ g \in Frames /\ g.asked = f.asked /\ g.clean = f.clean
         /\ Len(f.writes) > 1 => g.at = "post" /\ g.tries = 1 /\ g.writes = Tail(f.writes)
         /\ Len(f.writes) <= 1 => g.at = "ok"
  <1>1. f.writes \in Seq(Writes) /\ Tail(f.writes) \in Seq(Writes)
    BY DEF Frames
  <1>2. CASE Len(f.writes) > 1
    <2> DEFINE e == [f EXCEPT !.writes = Tail(f.writes)]
    <2>1. e \in Frames /\ e.asked = f.asked /\ e.clean = f.clean /\ e.writes = Tail(f.writes)
      BY <1>1 DEF Frames
    <2>2. Onward(f) = Calling(e, "post")
      BY <1>2 DEF Onward
    <2> HIDE DEF e
    <2> QED
      BY <1>2, <2>1, <2>2, CallingForm
  <1>3. CASE ~(Len(f.writes) > 1)
    <2> DEFINE e == Called(f, "ok")
    <2>1. e \in Frames /\ e.at = "ok" /\ e.asked = f.asked /\ e.clean = f.clean
      BY CalledForm
    <2>2. Onward(f) = [e EXCEPT !.writes = <<>>]
      BY <1>3 DEF Onward
    <2> HIDE DEF e
    <2>3. <<>> \in Seq(Writes)
      OBVIOUS
    <2> QED
      BY <1>1, <1>3, <2>1, <2>2, <2>3 DEF Frames
  <1> QED
    BY <1>2, <1>3

\* The controller is asked to write: it takes the write, or refuses one that is
\* not in the limits, which a clean request's is.
LEMMA PostKept ==
  ASSUME EmodulAssumption, IInv, NEW p \in Goroutines, Post(p)
  PROVE  IInv'
  <1> DEFINE w == Head(frame[p].writes)
             a == frame[p].asked
  <1>1. /\ frame[p] \in Frames /\ Shape(p, frame[p]) /\ jar \in BOOLEAN
        /\ frame[p].at = "post" /\ Stage(frame[p]) = "post"
        /\ UNCHANGED <<jar, parsed, reader, menuData>>
    BY DEF IInv, Types, Post, Stage
  <1>2. \/ a = NoMenu /\ frame[p].writes = <<Control>> /\ w = Control /\ ~frame[p].clean /\ p # Fetcher
        \/ a \in Jobs /\ a # NoMenu /\ frame[p].writes \in Plans(a) /\ w # Control
    <2>1. a # NoMenu => a \in Jobs /\ frame[p].writes \in Plans(a)
      BY <1>1 DEF Shape, Pending
    <2>2. a # NoMenu => w # Control
      <3>1. a # NoMenu => w \in {Top(a.top), Bottom(a.bottom)}
        BY <2>1, PlanFacts
      <3>2. Top(a.top) # Control /\ Bottom(a.bottom) # Control
        BY DEF Top, Bottom, Control
      <3> QED
        BY <3>1, <3>2
    <2>3. a = NoMenu => frame[p].writes = <<Control>> /\ ~frame[p].clean /\ p # Fetcher
      BY <1>1 DEF Shape
    <2> QED
      BY <2>1, <2>2, <2>3
  <1>3. CASE w = Control /\ TryAgain(p) /\ boiler' = boiler
    BY <1>1, <1>3, TryAgainKept
  <1>4. CASE w # Control /\ TryAgain(p) /\ boiler' = [boiler EXCEPT !.pending = w]
    BY <1>1, <1>2, <1>4, TryAgainKept
  <1>5. CASE w = Control /\ Goto(p, Onward(frame[p])) /\ boiler' = boiler
    <2> DEFINE g == Onward(frame[p])
    <2>1. /\ g \in Frames /\ g.at = "ok" /\ g.asked = NoMenu /\ ~g.clean
      <3>1. frame[p].writes = <<Control>> /\ a = NoMenu /\ ~frame[p].clean
        BY <1>2, <1>5
      <3>2. Len(<<Control>>) = 1 /\ <<Control>> # <<>>
        OBVIOUS
      <3>3. frame[p].writes # <<>> /\ Len(frame[p].writes) <= 1
        BY <3>1, <3>2
      <3> QED
        BY <1>1, <3>1, <3>3, OnwardForm
    <2> HIDE DEF g
    <2>2. Fair(p, g)
      BY <1>1, <1>2, <1>5, <2>1 DEF Fair, Undisturbed, Shape, Stage
    <2> QED
      BY <1>1, <1>5, <2>2, StepByOne DEF g
  <1>6. CASE w # Control /\ Goto(p, Calling(frame[p], "menu"))
             /\ boiler' = [boiler EXCEPT !.pending = w]
    <2> DEFINE g == Calling(frame[p], "menu")
    <2>1. /\ g \in Frames /\ g.at = "menu" /\ g.asked = a /\ g.tries = 1
          /\ g.clean = frame[p].clean /\ g.writes = frame[p].writes
      BY <1>1, CallingForm
    <2> HIDE DEF g
    <2>2. g.clean => Reached(g)
      BY <1>1, <2>1 DEF IInv, Clean, Reached, Stage, Pending, Shape, Goroutines
    <2>3. Shape(p, g)
      BY <1>1, <1>2, <1>6, <2>1 DEF Shape, Stage, Pending
    <2>4. Fair(p, g) /\ Taken(p, g)
      BY <1>1, <1>2, <1>6, <2>1, <2>2, <2>3 DEF Fair, Undisturbed, Taken
    <2> QED
      BY <1>1, <1>6, <2>4, StepByOne DEF g
  <1>7. CASE ~InLimits(w) /\ Goto(p, Called(frame[p], "refused")) /\ boiler' = boiler
    <2> DEFINE g == Called(frame[p], "refused")
    <2>1. /\ g \in Frames /\ g.at = "refused" /\ g.asked = a
          /\ g.clean = frame[p].clean /\ g.writes = frame[p].writes
      BY <1>1, CalledForm
    <2> HIDE DEF g
    <2>2. g.clean => a.bottom > a.top
      <3> SUFFICES ASSUME frame[p].clean, a.bottom <= a.top PROVE InLimits(w)
        BY <1>2, <1>7, <2>1 DEF EmodulAssumption
      <3>1. Clean(p) /\ a \in Jobs /\ frame[p].writes \in Plans(a)
        BY <1>1, <1>2 DEF IInv, Goroutines, Shape
      <3>2. Progress(frame[p].writes, a)
        BY <1>1, <3>1 DEF Clean, Reached, Pending
      <3>3. /\ boiler.top \in Low .. High /\ boiler.bottom \in Low .. High
            /\ a.top \in Low .. High /\ a.bottom \in Low .. High
        BY <3>1 DEF IInv, Types, EmodulAssumption
      <3>4. Len(frame[p].writes) \in {1, 2} /\ w \in {Top(a.top), Bottom(a.bottom)}
        BY <3>1, PlanFacts
      <3>5. CASE w = Top(a.top)
        BY <3>2, <3>3, <3>4, <3>5 DEF Progress, InLimits, Top, EmodulAssumption
      <3>6. CASE w = Bottom(a.bottom)
        BY <3>2, <3>3, <3>4, <3>6 DEF Progress, InLimits, Bottom, EmodulAssumption
      <3> QED
        BY <3>4, <3>5, <3>6
    <2>3. Fair(p, g)
      BY <1>1, <1>2, <2>1, <2>2 DEF Fair, Undisturbed, Shape, Stage, Reached, Pending, InLimits, Control
    <2> QED
      BY <1>1, <1>7, <2>3, StepByOne DEF g
  <1>8. CASE TryAgain(p) /\ boiler' = boiler
    BY <1>1, <1>8, TryAgainKept
  <1> QED
    BY <1>3, <1>4, <1>5, <1>6, <1>7, <1>8 DEF Post

-----------------------------------------------------------------------------
(* Waiting. *)

\* A wait ends in the next write or with the request.
LEMMA WaitKept ==
  ASSUME EmodulAssumption, IInv, NEW h \in Handlers, Wait(h) \/ TimeUp(h)
  PROVE  IInv'
  <1> DEFINE a == frame[h].asked
             w == Head(frame[h].writes)
  <1>1. /\ h \in Goroutines /\ h # Fetcher
        /\ frame[h] \in Frames /\ Shape(h, frame[h]) /\ jar \in BOOLEAN
        /\ frame[h].at = "compare" /\ Stage(frame[h]) = "compare"
        /\ UNCHANGED <<boiler, jar, parsed, reader, menuData>>
    BY DEF IInv, Types, Goroutines, Wait, TimeUp, Stage
  <1>2. /\ a \in Jobs /\ a # NoMenu /\ frame[h].writes \in Plans(a)
        /\ frame[h].writes # <<>> /\ Len(frame[h].writes) \in {1, 2}
        /\ w \in {Top(a.top), Bottom(a.bottom)}
    <2>1. a \in Jobs /\ a # NoMenu /\ frame[h].writes \in Plans(a)
      BY <1>1 DEF Shape, Pending
    <2>2. Len(frame[h].writes) \in {1, 2} /\ w \in {Top(a.top), Bottom(a.bottom)}
      BY <2>1, PlanFacts
    <2> QED
      BY <2>1, <2>2
  <1>3. ASSUME NEW f \in Frames, f.asked = a, f.writes = frame[h].writes,
               Goto(h, Onward(f)),
               f.clean => frame[h].clean /\ Target(parsed, w.device) = w.temp
        PROVE  IInv'
    <2> DEFINE g == Onward(f)
    <2>1. /\ g \in Frames /\ g.asked = a /\ g.clean = f.clean
          /\ Len(f.writes) > 1 => g.at = "post" /\ g.tries = 1 /\ g.writes = Tail(f.writes)
          /\ Len(f.writes) <= 1 => g.at = "ok"
      BY <1>1, <1>2, <1>3, OnwardForm
    <2> HIDE DEF g
    <2>5. \/ Len(f.writes) = 1 /\ g.at = "ok"
          \/ Len(f.writes) = 2 /\ g.at = "post" /\ g.writes = Tail(f.writes)
      <3>1. Len(f.writes) = 1 \/ Len(f.writes) = 2
        BY <1>2, <1>3
      <3>2. CASE Len(f.writes) = 1
        BY <2>1, <3>2
      <3>3. CASE Len(f.writes) = 2
        BY <2>1, <3>3
      <3> QED
        BY <3>1, <3>2, <3>3
    <2>2. Shape(h, g)
      <3>1. Len(f.writes) = 2 => Tail(f.writes) \in Plans(a)
        BY <1>2, <1>3, PlanFacts
      <3> QED
        BY <1>1, <1>2, <1>3, <2>1, <2>5, <3>1 DEF Shape, Stage, Pending
    <2>3. g.clean => Reached(g)
      <3> SUFFICES ASSUME frame[h].clean, Target(parsed, w.device) = w.temp
                   PROVE  Reached(g)
        BY <1>3, <2>1
      <3>1. Progress(frame[h].writes, a) /\ Truly(parsed, a)
        BY <1>1 DEF IInv, Clean, Reached, Pending, Known
      <3>2. w = Top(a.top) => boiler.top = a.top
        BY <3>1 DEF Truly, Top, Target
      <3>3. w = Bottom(a.bottom) => boiler.bottom = a.bottom
        BY <3>1 DEF Truly, Bottom, Target
      <3>4. CASE Len(f.writes) = 2 /\ g.at = "post" /\ g.writes = Tail(f.writes)
        <4>1. /\ Len(g.writes) = 1 /\ g.at = "post" /\ Stage(g) = "post"
              /\ w = Top(a.top) => Head(g.writes) = Bottom(a.bottom)
              /\ w = Bottom(a.bottom) => Head(g.writes) = Top(a.top)
          <5>1. /\ f.writes \in Plans(a) /\ Head(f.writes) = w
            BY <1>2, <1>3
          <5>2. /\ Len(Tail(f.writes)) = 1
                /\ w = Top(a.top) => Head(Tail(f.writes)) = Bottom(a.bottom)
                /\ w = Bottom(a.bottom) => Head(Tail(f.writes)) = Top(a.top)
            BY <1>2, <3>4, <5>1, PlanFacts
          <5> QED
            BY <3>4, <5>2 DEF Stage
        <4>2. Progress(g.writes, a)
          BY <1>2, <3>2, <3>3, <4>1 DEF Progress, Top, Bottom
        <4> QED
          BY <2>1, <4>1, <4>2 DEF Reached, Pending
      <3>5. CASE Len(f.writes) = 1 /\ g.at = "ok"
        <4>1. Len(frame[h].writes) = 1 /\ g.at = "ok" /\ Stage(g) = "ok"
          BY <1>2, <1>3, <2>1, <3>5 DEF Stage
        <4>2. boiler.top = a.top /\ boiler.bottom = a.bottom
          BY <1>2, <3>1, <3>2, <3>3, <4>1 DEF Progress, Top, Bottom
        <4> QED
          BY <2>1, <4>1, <4>2 DEF Reached, Pending
      <3> QED
        BY <2>5, <3>4, <3>5
    <2>4. Fair(h, g)
      BY <1>2, <1>3, <2>1, <2>2, <2>3 DEF Fair, Undisturbed
    <2> QED
      BY <1>1, <1>3, <2>4, StepByOne DEF g
  <1>4. CASE Goto(h, Onward(frame[h])) /\ Target(parsed, w.device) = w.temp
    BY <1>1, <1>3, <1>4
  <1>5. CASE TimeUp(h)
    <2> DEFINE f == [frame[h] EXCEPT !.clean = FALSE]
    <2>1. f \in Frames /\ f.asked = a /\ f.writes = frame[h].writes /\ ~f.clean
      BY <1>1 DEF Frames
    <2>2. Goto(h, Onward(f))
      BY <1>5 DEF TimeUp
    <2> HIDE DEF f
    <2> QED
      BY <1>3, <2>1, <2>2
  <1>6. CASE Goto(h, Calling(frame[h], "menu"))
    <2> DEFINE g == Calling(frame[h], "menu")
    <2>1. /\ g \in Frames /\ g.at = "menu" /\ g.tries = 1 /\ g.asked = a
          /\ g.clean = frame[h].clean /\ g.writes = frame[h].writes
      BY <1>1, CallingForm
    <2> HIDE DEF g
    <2>2. Shape(h, g)
      BY <1>1, <1>2, <2>1 DEF Shape, Stage, Pending
    <2>3. g.clean => Reached(g)
      BY <1>1, <2>1 DEF IInv, Clean, Reached, Stage, Pending
    <2>4. Fair(h, g)
      BY <2>1, <2>2, <2>3 DEF Fair, Undisturbed
    <2> QED
      BY <1>1, <1>6, <2>4, StepByOne DEF g
  <1> QED
    BY <1>4, <1>5, <1>6 DEF Wait

\* The frame of nobody.
LEMMA IdleForm ==
  ASSUME EmodulAssumption
  PROVE  /\ IdleFrame \in Frames /\ IdleFrame.at = "idle" /\ IdleFrame.asked = NoMenu
         /\ IdleFrame.call = "none" /\ ~IdleFrame.clean
  BY DEF EmodulAssumption, IdleFrame, Frames, Menus, NoMenu

LEMMA AnsweredKept ==
  ASSUME EmodulAssumption, IInv, NEW h \in Handlers, Answered(h)
  PROVE  IInv'
  <1>1. h \in Goroutines /\ h # Fetcher /\ Goto(h, IdleFrame)
        /\ UNCHANGED <<boiler, jar, parsed, reader, menuData>>
    BY DEF Goroutines, Answered
  <1>2. Fair(h, IdleFrame)
    BY <1>1, IdleForm DEF Fair, Undisturbed, Shape, Stage
  <1> QED
    BY <1>1, <1>2, StepByOne

\* The menu shows the controller's targets, the pending write is not in them.
LEMMA MenuKept ==
  ASSUME EmodulAssumption, IInv, NEW p \in Goroutines, Menu(p)
  PROVE  IInv'
  <1>1. /\ frame[p] \in Frames /\ Shape(p, frame[p])
        /\ frame[p].at = "menu" /\ Stage(frame[p]) = "menu"
        /\ UNCHANGED <<boiler, jar, parsed, reader, menuData>>
    BY DEF IInv, Types, Menu, Stage
  <1> DEFINE b == [top |-> boiler.top, bottom |-> boiler.bottom]
             f == Called(frame[p], "store")
             g == [f EXCEPT !.body = b]
  <1>2. CASE Goto(p, g)
    <2>1. b \in Menus
      BY DEF IInv, Types, Menus, EmodulAssumption
    <2>2. /\ f \in Frames /\ f.at = "store"
          /\ f.asked = frame[p].asked /\ f.clean = frame[p].clean /\ f.writes = frame[p].writes
      BY <1>1, CalledForm
    <2> HIDE DEF f, b
    <2>3. /\ g \in Frames /\ g.at = "store" /\ g.body = b /\ g.clean \in BOOLEAN
          /\ g.asked = frame[p].asked /\ g.clean = frame[p].clean /\ g.writes = frame[p].writes
      BY <2>1, <2>2 DEF Frames
    <2> HIDE DEF g
    <2>4. Shape(p, g)
      BY <1>1, <2>3 DEF Shape, Stage, Pending
    <2>5. g.clean => Reached(g)
      BY <1>1, <2>3 DEF IInv, Shape, Goroutines, Clean, Reached, Stage, Pending
    <2>6. Fair(p, g)
      BY <2>3, <2>4, <2>5 DEF Fair, Undisturbed, b
    <2> QED
      BY <1>1, <1>2, <2>6, StepByOne
  <1>3. CASE TryAgain(p)
    BY <1>1, <1>3, TryAgainKept
  <1> QED
    BY <1>2, <1>3 DEF Menu

LEMMA StoreKept ==
  ASSUME EmodulAssumption, IInv, NEW p \in Goroutines, Store(p)
  PROVE  IInv'
  <1> DEFINE l == IF p = Fetcher THEN "signal" ELSE "compare"
             g == [frame[p] EXCEPT !.at = l, !.body = NoMenu]
  <1>1. /\ frame[p] \in Frames /\ Shape(p, frame[p])
        /\ frame[p].at = "store" /\ Stage(frame[p]) = "store"
        /\ menuData' = frame[p].body /\ Goto(p, g)
        /\ UNCHANGED <<boiler, jar, parsed, reader>>
    BY DEF IInv, Types, Store, Stage
  <1>2. NoMenu \in Menus
    BY DEF NoMenu, Menus, EmodulAssumption
  <1>3. /\ g \in Frames /\ g.at = l
        /\ g.asked = frame[p].asked /\ g.clean = frame[p].clean /\ g.writes = frame[p].writes
    BY <1>1, <1>2 DEF Frames
  <1> HIDE DEF g
  <1>4. Shape(p, g)
    BY <1>1, <1>3 DEF Shape, Stage, Pending
  <1>5. g.clean => Reached(g)
    BY <1>1, <1>3 DEF IInv, Shape, Goroutines, Clean, Reached, Stage, Pending
  <1>6. Fair(p, g)
    BY <1>3, <1>4, <1>5 DEF Fair, Undisturbed
  <1> QED
    BY <1>1, <1>6, StepByOne

\* The fetcher's own steps.
LEMMA FetcherKept ==
  ASSUME EmodulAssumption, IInv, Signal \/ Minute
  PROVE  IInv'
  <1> DEFINE p == Fetcher
  <1>1. /\ p \in Goroutines /\ frame[p] \in Frames /\ Shape(p, frame[p]) /\ jar \in BOOLEAN
        /\ ~frame[p].clean /\ frame[p].asked = NoMenu
        /\ UNCHANGED <<boiler, jar, parsed, reader, menuData>>
    BY DEF IInv, Types, Goroutines, Shape, Signal, Minute
  <1>2. CASE Signal
    <2> DEFINE g == At(p, "sleep")
    <2>1. g \in Frames /\ g.at = "sleep" /\ ~g.clean /\ g.asked = NoMenu
      BY <1>1 DEF At, Frames
    <2>2. Goto(p, g)
      BY <1>2 DEF Signal
    <2> HIDE DEF g
    <2>3. Fair(p, g)
      BY <1>1, <2>1 DEF Fair, Undisturbed, Shape, Stage
    <2> QED
      BY <1>1, <2>2, <2>3, StepByOne
  <1>3. CASE Minute
    <2> DEFINE g == Calling(frame[p], "menu")
    <2>1. g \in Frames /\ g.at = "menu" /\ g.tries = 1 /\ ~g.clean /\ g.asked = NoMenu
      BY <1>1, CallingForm
    <2>2. Goto(p, g)
      BY <1>3 DEF Minute
    <2> HIDE DEF g
    <2>3. Fair(p, g)
      BY <1>1, <2>1 DEF Fair, Undisturbed, Shape, Stage
    <2> QED
      BY <1>1, <2>2, <2>3, StepByOne
  <1> QED
    BY <1>2, <1>3

-----------------------------------------------------------------------------
(* Logging in. *)

\* The call is repeated, with the cookies the frame f has, or given up.
LEMMA AgainKept ==
  ASSUME EmodulAssumption, IInv, NEW p \in Goroutines, NEW f \in Frames,
         frame[p].at \in {"login", "cookies"},
         f.asked = frame[p].asked, f.clean = frame[p].clean, f.writes = frame[p].writes,
         f.tries = frame[p].tries, f.alone => f.tries = 1 /\ f.session,
         Goto(p, Again(p, f)), UNCHANGED <<boiler, jar, parsed, reader, menuData>>
  PROVE  IInv'
  <1> DEFINE l == frame[p].call
             g == Again(p, f)
  <1>1. /\ frame[p] \in Frames /\ Undisturbed(frame[p], jar) /\ Shape(p, frame[p])
        /\ l \in {"post", "menu"} /\ Stage(frame[p]) = l
    BY DEF IInv, Types, Undisturbed, Stage, Frames
  <1>2. /\ g \in Frames /\ g.at \in {l, "failed"} /\ g.call = "none"
        /\ g.asked = f.asked /\ g.clean = f.clean /\ g.writes = f.writes
        /\ g.alone => g.at = l /\ g.session
    <2>1. CASE f.tries < RetryMax
      <3>1. f.tries + 1 \in 1 .. RetryMax
        BY <2>1 DEF Frames, EmodulAssumption
      <3> QED
        BY <1>1, <2>1, <3>1 DEF Again, Frames
    <2>2. CASE ~(f.tries < RetryMax)
      <3>1. ~f.alone
        BY <2>2 DEF EmodulAssumption
      <3> DEFINE e == GivenUp(f)
      <3>2. /\ e \in Frames /\ e.at = "failed" /\ ~e.alone
            /\ e.asked = f.asked /\ e.clean = f.clean /\ e.writes = f.writes
        BY <3>1, GivenUpForm
      <3>3. g = [e EXCEPT !.call = "none"]
        BY <2>2 DEF Again
      <3> HIDE DEF e, g
      <3> QED
        BY <3>2, <3>3 DEF Frames
    <2> QED
      BY <2>1, <2>2
  <1> HIDE DEF g
  <1>3. Stage(g) \in {Stage(frame[p]), "failed"} /\ g.clean \in BOOLEAN
    BY <1>1, <1>2 DEF Stage, Frames
  <1>4. Shape(p, g) /\ (g.clean => Reached(g))
    BY <1>2, <1>3, Stays
  <1>5. Fair(p, g)
    BY <1>1, <1>2, <1>4 DEF Fair, Undisturbed
  <1> QED
    BY <1>5, StepByOne DEF g

LEMMA LoginKept ==
  ASSUME EmodulAssumption, IInv, NEW p \in Goroutines, Login(p) \/ TakeCookies(p)
  PROVE  IInv'
  <1>1. /\ frame[p] \in Frames /\ Undisturbed(frame[p], jar) /\ Shape(p, frame[p])
        /\ frame[p].at \in {"login", "cookies"} /\ jar \in BOOLEAN
        /\ UNCHANGED <<boiler, parsed, reader, menuData>>
    BY DEF IInv, Types, Login, TakeCookies
  <1>2. CASE Login(p) /\ jar' = TRUE /\ Goto(p, At(p, "cookies"))
    <2> DEFINE g == At(p, "cookies")
    <2>1. /\ g \in Frames /\ g.at = "cookies" /\ g.call = frame[p].call /\ g.clean \in BOOLEAN
          /\ g.asked = frame[p].asked /\ g.clean = frame[p].clean /\ g.writes = frame[p].writes
          /\ g.tries = frame[p].tries /\ g.alone = frame[p].alone
      BY <1>1 DEF At, Frames
    <2> HIDE DEF g
    <2>2. frame[p].at = "login"
      BY <1>2 DEF Login
    <2>3. Stage(g) = Stage(frame[p])
      BY <2>1, <2>2 DEF Stage
    <2>4. Shape(p, g) /\ (g.clean => Reached(g))
      BY <2>1, <2>3, Stays
    <2>5. Undisturbed(g, jar')
      BY <1>1, <1>2, <2>1, <2>2 DEF Undisturbed
    <2>6. Fair(p, g)
      BY <2>1, <2>4, <2>5 DEF Fair
    <2> QED
      BY <1>1, <1>2, <2>6, StepByOne DEF g
  <1>3. CASE jar' = jar /\ Goto(p, Again(p, [frame[p] EXCEPT !.alone = FALSE]))
    <2> DEFINE f == [frame[p] EXCEPT !.alone = FALSE]
    <2>1. /\ f \in Frames /\ ~f.alone /\ f.tries = frame[p].tries
          /\ f.asked = frame[p].asked /\ f.clean = frame[p].clean /\ f.writes = frame[p].writes
      BY <1>1 DEF Frames
    <2> HIDE DEF f
    <2> QED
      BY <1>1, <1>3, <2>1, AgainKept DEF f
  <1>4. CASE TakeCookies(p)
    <2> DEFINE f == [frame[p] EXCEPT !.session = jar]
    <2>1. /\ f \in Frames /\ f.alone = frame[p].alone /\ f.tries = frame[p].tries
          /\ f.asked = frame[p].asked /\ f.clean = frame[p].clean /\ f.writes = frame[p].writes
          /\ f.session = jar
      BY <1>1 DEF Frames
    <2>2. Goto(p, Again(p, f)) /\ jar' = jar /\ frame[p].at = "cookies"
      BY <1>4 DEF TakeCookies
    <2> HIDE DEF f
    <2>3. f.alone => f.tries = 1 /\ f.session
      BY <1>1, <2>1, <2>2 DEF Undisturbed
    <2> QED
      BY <1>1, <2>1, <2>2, <2>3, AgainKept
  <1> QED
    BY <1>2, <1>3, <1>4 DEF Login

-----------------------------------------------------------------------------
(* Steps that change every frame. *)

\* A step that may disturb all, and leaves no goroutine further than it was.
LEMMA StepByAll ==
  ASSUME EmodulAssumption, IInv, Types',
         \A q \in Goroutines :
           /\ Undisturbed(frame'[q], jar') /\ Shape(q, frame'[q])
           /\ frame'[q].asked \in {frame[q].asked, NoMenu}
           /\ frame'[q].at = "store" =>
                frame[q].at = "store" /\ frame'[q].body = frame[q].body
           /\ frame'[q].clean =>
                /\ frame[q].clean /\ frame'[q].asked = frame[q].asked
                /\ frame'[q].writes = frame[q].writes
                /\ Stage(frame'[q]) = Stage(frame[q]),
         \/ UNCHANGED <<boiler, menuData, parsed, reader>>
         \/ \A q \in Goroutines : ~frame'[q].clean
  PROVE  IInv'
  <1>1. \A q \in Goroutines : (Undisturbed(frame[q], jar) /\ Shape(q, frame[q]))'
    <2> SUFFICES ASSUME NEW q \in Goroutines
                 PROVE  Undisturbed(frame'[q], jar') /\ Shape(q, frame'[q])
      BY DEF Undisturbed, Shape, Stage, Plans, Pending
    <2> QED
      OBVIOUS
  <1>2. ASSUME NEW h \in Handlers, frame'[h].clean PROVE Clean(h)'
    <2>1. /\ h \in Goroutines /\ UNCHANGED <<boiler, menuData, parsed, reader>>
          /\ frame[h].clean /\ frame'[h].asked = frame[h].asked
          /\ frame'[h].writes = frame[h].writes /\ Stage(frame'[h]) = Stage(frame[h])
      BY <1>2 DEF Goroutines
    <2>2. Clean(h) /\ \A q \in Handlers \ {h} : frame'[q].asked = NoMenu
      BY <2>1 DEF IInv, Clean, Goroutines
    <2>3. Known(frame[h].asked)'
      <3>1. PICK a : a = frame[h].asked
        OBVIOUS
      <3>2. Known(a)
        BY <2>1, <2>2, <3>1 DEF Clean
      <3>3. ASSUME NEW q \in Goroutines, frame'[q].at = "store"
            PROVE  Truly(frame'[q].body, a)
        BY <3>2, <3>3 DEF Known
      <3>4. frame'[h].asked = a
        BY <2>1, <3>1
      <3> QED
        BY <2>1, <3>2, <3>3, <3>4 DEF Known, Truly
    <2>4. Reached(frame[h])'
      <3>1. Reached(frame[h])
        BY <2>1, <2>2 DEF Clean
      <3>2. Stage(frame[h])' = Stage(frame'[h])
        BY DEF Stage
      <3> QED
        BY <2>1, <3>1, <3>2 DEF Reached, Progress, Pending
    <2> QED
      BY <2>1, <2>2, <2>3, <2>4 DEF Clean
  <1> QED
    BY <1>1, <1>2 DEF IInv, Clean

\* A 401 takes the cookies away from everybody.
LEMMA UnauthorizedKept ==
  ASSUME EmodulAssumption, IInv, NEW p \in Goroutines, Unauthorized(p)
  PROVE  IInv'
  <1>1. /\ frame[p].at \in {"post", "menu"} /\ ~frame[p].session /\ jar' = FALSE
        /\ UNCHANGED <<boiler, menuData, parsed, reader>>
        /\ frame \in [Goroutines -> Frames]
        /\ frame' = [q \in Goroutines |->
             IF q = p THEN [frame[p] EXCEPT !.at = "login", !.call = frame[p].at]
             ELSE [frame[q] EXCEPT !.alone = FALSE]]
    BY DEF IInv, Types, Unauthorized
  <1>2. ASSUME NEW q \in Goroutines
        PROVE  /\ frame'[q] \in Frames /\ Undisturbed(frame'[q], jar')
               /\ frame'[q].asked = frame[q].asked /\ frame'[q].body = frame[q].body
               /\ frame'[q].writes = frame[q].writes /\ frame'[q].clean = frame[q].clean
               /\ frame'[q].at = "store" => frame[q].at = "store"
               /\ Stage(frame'[q]) = Stage(frame[q])
    <2>1. Undisturbed(frame[q], jar) /\ frame[q] \in Frames
      BY <1>1 DEF IInv
    <2>2. CASE q = p
      <3> DEFINE g == [frame[p] EXCEPT !.at = "login", !.call = frame[p].at]
      <3>1. /\ g \in Frames /\ g.at = "login" /\ g.call = frame[p].at
            /\ g.tries = frame[p].tries /\ g.alone = frame[p].alone
            /\ g.asked = frame[p].asked /\ g.body = frame[p].body
            /\ g.writes = frame[p].writes /\ g.clean = frame[p].clean
        BY <1>1, <2>1, <2>2 DEF Frames
      <3>2. frame'[q] = g
        BY <1>1, <2>2
      <3> HIDE DEF g
      <3> QED
        BY <1>1, <2>1, <2>2, <3>1, <3>2 DEF Undisturbed, Stage
    <2>3. CASE q # p
      <3> DEFINE g == [frame[q] EXCEPT !.alone = FALSE]
      <3>1. /\ g \in Frames /\ g.at = frame[q].at /\ g.call = frame[q].call /\ ~g.alone
            /\ g.asked = frame[q].asked /\ g.body = frame[q].body
            /\ g.writes = frame[q].writes /\ g.clean = frame[q].clean
        BY <2>1 DEF Frames
      <3>2. frame'[q] = g
        BY <1>1, <2>3
      <3> HIDE DEF g
      <3> QED
        BY <2>1, <3>1, <3>2 DEF Undisturbed, Stage
    <2> QED
      BY <2>2, <2>3
  <1>3. Types'
    BY <1>1, <1>2 DEF IInv, Types
  <1>4. \A q \in Goroutines : Shape(q, frame'[q])
    BY <1>2 DEF IInv, Shape
  <1> QED
    BY <1>1, <1>2, <1>3, <1>4, StepByAll

LEMMA ExpireKept ==
  ASSUME EmodulAssumption, IInv, Expire
  PROVE  IInv'
  <1>1. /\ jar' = FALSE /\ UNCHANGED <<boiler, menuData, parsed, reader>>
        /\ frame \in [Goroutines -> Frames]
        /\ frame' = [p \in Goroutines |-> [frame[p] EXCEPT
             !.session = FALSE,
             !.alone = @ /\ frame[p].tries = 1 /\ frame[p].call = "none"]]
    BY DEF IInv, Types, Expire
  <1>2. ASSUME NEW q \in Goroutines
        PROVE  /\ frame'[q] \in Frames /\ Undisturbed(frame'[q], jar')
               /\ frame'[q].asked = frame[q].asked /\ frame'[q].body = frame[q].body
               /\ frame'[q].writes = frame[q].writes /\ frame'[q].clean = frame[q].clean
               /\ frame'[q].at = frame[q].at /\ Stage(frame'[q]) = Stage(frame[q])
    <2>1. Undisturbed(frame[q], jar) /\ frame[q] \in Frames
      BY <1>1 DEF IInv
    <2> DEFINE s == frame[q].alone /\ frame[q].tries = 1 /\ frame[q].call = "none"
               g == [frame[q] EXCEPT !.session = FALSE, !.alone = s]
    <2>2. frame'[q] = g
      BY <1>1
    <2>3. s \in BOOLEAN
      OBVIOUS
    <2>4. s => frame[q].alone /\ frame[q].tries = 1 /\ frame[q].call = "none"
      OBVIOUS
    <2> HIDE DEF s
    <2>5. /\ g \in Frames /\ g.at = frame[q].at /\ g.call = frame[q].call /\ g.alone = s
          /\ g.tries = frame[q].tries
          /\ g.asked = frame[q].asked /\ g.body = frame[q].body
          /\ g.writes = frame[q].writes /\ g.clean = frame[q].clean
      BY <2>1, <2>3 DEF Frames
    <2> HIDE DEF g
    <2> QED
      BY <2>1, <2>2, <2>4, <2>5 DEF Undisturbed, Stage
  <1>3. Types'
    BY <1>1, <1>2 DEF IInv, Types
  <1>4. \A q \in Goroutines : Shape(q, frame'[q])
    BY <1>2 DEF IInv, Shape
  <1> QED
    BY <1>1, <1>2, <1>3, <1>4, StepByAll

\* A change by hand disturbs every request.
LEMMA ByHandKept ==
  ASSUME EmodulAssumption, IInv, ByHand
  PROVE  IInv'
  <1>1. /\ UNCHANGED <<jar, menuData, parsed, reader>>
        /\ frame \in [Goroutines -> Frames]
        /\ frame' = [p \in Goroutines |-> [frame[p] EXCEPT !.clean = FALSE]]
    BY DEF IInv, Types, ByHand
  <1>2. ASSUME NEW q \in Goroutines
        PROVE  /\ frame'[q] \in Frames /\ Undisturbed(frame'[q], jar')
               /\ frame'[q].asked = frame[q].asked /\ frame'[q].body = frame[q].body
               /\ frame'[q].writes = frame[q].writes /\ ~frame'[q].clean
               /\ frame'[q].at = frame[q].at /\ Stage(frame'[q]) = Stage(frame[q])
    <2>1. Undisturbed(frame[q], jar) /\ frame[q] \in Frames
      BY <1>1 DEF IInv
    <2> DEFINE g == [frame[q] EXCEPT !.clean = FALSE]
    <2>2. frame'[q] = g
      BY <1>1
    <2>3. /\ g \in Frames /\ g.at = frame[q].at /\ g.call = frame[q].call
          /\ g.alone = frame[q].alone /\ g.tries = frame[q].tries
          /\ g.session = frame[q].session
          /\ g.asked = frame[q].asked /\ g.body = frame[q].body
          /\ g.writes = frame[q].writes /\ ~g.clean
      BY <2>1 DEF Frames
    <2> HIDE DEF g
    <2> QED
      BY <1>1, <2>1, <2>2, <2>3 DEF Undisturbed, Stage
  <1>3. Types'
    <2>1. /\ boiler' \in [top : Low .. High, bottom : Low .. High, pending : Writes]
          /\ boiler'.bottom <= boiler'.top /\ boiler'.pending = boiler.pending
      <3>1. PICK t \in Low .. High :
              \/ t >= boiler.bottom /\ t # boiler.top /\ boiler' = [boiler EXCEPT !.top = t]
              \/ t <= boiler.top /\ t # boiler.bottom /\ boiler' = [boiler EXCEPT !.bottom = t]
        BY DEF ByHand
      <3> QED
        BY <3>1 DEF IInv, Types
    <2> QED
      BY <1>1, <1>2, <2>1 DEF IInv, Types
  <1>4. \A q \in Goroutines : Shape(q, frame'[q])
    BY <1>2 DEF IInv, Shape
  <1> QED
    BY <1>2, <1>3, <1>4, StepByAll

\* With the process every request ends.
LEMMA FaultKept ==
  ASSUME EmodulAssumption, IInv, Fault
  PROVE  IInv'
  <1> DEFINE g == [IdleFrame EXCEPT !.at = "dead"]
  <1>1. /\ UNCHANGED <<boiler, jar, menuData, parsed>>
        /\ reader' = [reader EXCEPT !.at = "dead"]
        /\ frame' = [p \in Goroutines |-> g]
    BY DEF Fault
  <1>2. g \in Frames /\ g.at = "dead" /\ g.asked = NoMenu /\ ~g.clean
    BY IdleForm DEF Frames
  <1> HIDE DEF g
  <1>3. Undisturbed(g, jar') /\ \A q \in Goroutines : Shape(q, g)
    BY <1>2 DEF Undisturbed, Shape, Stage
  <1>4. Types'
    BY <1>1, <1>2 DEF IInv, Types
  <1> QED
    BY <1>1, <1>2, <1>3, <1>4, StepByAll

-----------------------------------------------------------------------------
(* A request begins. *)

\* The order of the writes begins with one the limits allow, of bottom <= top.
LEMMA OrderedFacts ==
  ASSUME EmodulAssumption, Types, NEW job \in Jobs
  PROVE  /\ Ordered(job) \in Plans(job) /\ Ordered(job) \in Seq(Writes)
         /\ UpToDate => Progress(Ordered(job), job)
  <1>1. /\ job.top \in Low .. High /\ job.bottom \in Low .. High
        /\ parsed.min \in 0 .. Low /\ parsed.max \in 0 .. High
        /\ boiler.top \in Low .. High /\ boiler.bottom \in Low .. High
        /\ boiler.bottom <= boiler.top /\ Low \in Nat /\ High \in Nat
    BY DEF EmodulAssumption, Types
  <1>2. Ordered(job) \in Plans(job)
    BY DEF Ordered, Plans
  <1>3. ASSUME UpToDate PROVE Progress(Ordered(job), job)
    <2>1. boiler.pending = NoWrite /\ parsed.max = boiler.top
      BY <1>3 DEF UpToDate
    <2>2. CASE job.bottom \in parsed.min .. parsed.max
      <3>1. Ordered(job) = <<Bottom(job.bottom), Top(job.top)>>
        BY <2>2 DEF Ordered
      <3>2. Len(Ordered(job)) = 2 /\ Head(Ordered(job)).device = "bottom"
        BY <3>1 DEF Bottom
      <3>3. job.bottom <= boiler.top
        BY <1>1, <2>1, <2>2
      <3> QED
        BY <2>1, <3>2, <3>3 DEF Progress
    <2>3. CASE ~(job.bottom \in parsed.min .. parsed.max)
      <3>1. Ordered(job) = <<Top(job.top), Bottom(job.bottom)>>
        BY <2>3 DEF Ordered
      <3>2. Len(Ordered(job)) = 2 /\ Head(Ordered(job)).device = "top"
        BY <3>1 DEF Top
      <3>3. job.bottom <= job.top => boiler.bottom <= job.top
        BY <1>1, <2>1, <2>3
      <3> QED
        BY <2>1, <3>2, <3>3 DEF Progress
    <2> QED
      BY <2>2, <2>3
  <1> QED
    BY <1>2, <1>3, PlanFacts

LEMMA AskKept ==
  ASSUME EmodulAssumption, IInv, NEW h \in Handlers, Ask(h)
  PROVE  IInv'
  <1>1. /\ h \in Goroutines /\ h # Fetcher /\ jar \in BOOLEAN /\ Types
        /\ UNCHANGED <<boiler, jar, menuData, parsed, reader>>
    BY DEF IInv, Types, Goroutines, Fetcher, EmodulAssumption, Ask
  <1> DEFINE c == Calling(IdleFrame, "post")
  <1>2. /\ c \in Frames /\ c.at = "post" /\ c.tries = 1 /\ c.asked = NoMenu /\ ~c.clean
    BY <1>1, IdleForm, CallingForm
  <1>3. CASE Goto(h, [c EXCEPT !.writes = <<Control>>])
    <2> DEFINE g == [c EXCEPT !.writes = <<Control>>]
    <2>1. <<Control>> \in Seq(Writes)
      BY DEF Control, Writes, EmodulAssumption
    <2> HIDE DEF c
    <2>2. /\ g \in Frames /\ g.at = "post" /\ g.tries = 1 /\ g.asked = NoMenu
          /\ ~g.clean /\ g.writes = <<Control>>
      BY <1>2, <2>1 DEF Frames
    <2> HIDE DEF g
    <2>3. Fair(h, g)
      BY <1>1, <2>2 DEF Fair, Undisturbed, Shape, Stage
    <2> QED
      BY <1>1, <1>3, <2>3, StepByOne DEF g
  <1>4. ASSUME NEW job \in Jobs,
               frame' = [p \in Goroutines |->
                 IF p # h THEN [frame[p] EXCEPT !.clean = FALSE]
                 ELSE [c EXCEPT !.writes = Ordered(job), !.asked = job,
                                !.clean = /\ UpToDate
                                          /\ \A q \in Handlers : frame[q].asked = NoMenu]]
        PROVE  IInv'
    <2> DEFINE k == UpToDate /\ \A q \in Handlers : frame[q].asked = NoMenu
               g == [c EXCEPT !.writes = Ordered(job), !.asked = job, !.clean = k]
    <2> HIDE DEF c
    <2>1. Ordered(job) \in Plans(job) /\ Ordered(job) \in Seq(Writes)
      BY <1>1, OrderedFacts
    <2>2. job \in Menus /\ job # NoMenu /\ job.top >= Low /\ job.bottom >= Low
      BY DEF EmodulAssumption, Menus, NoMenu
    <2>3. k \in BOOLEAN /\ frame'[h] = g
      BY <1>1, <1>4
    <2>4. k => UpToDate /\ \A q \in Handlers : frame[q].asked = NoMenu
      OBVIOUS
    <2> HIDE DEF k
    <2>5. /\ g \in Frames /\ g.at = "post" /\ g.tries = 1 /\ g.asked = job
          /\ g.clean = k /\ g.writes = Ordered(job)
      BY <1>2, <2>1, <2>2, <2>3 DEF Frames
    <2> HIDE DEF g
    <2>6. ASSUME NEW q \in Goroutines, q # h
          PROVE  /\ frame'[q] \in Frames /\ ~frame'[q].clean
                 /\ frame'[q].asked = frame[q].asked /\ frame'[q].body = frame[q].body
                 /\ frame'[q].at = frame[q].at
                 /\ Undisturbed(frame'[q], jar') /\ Shape(q, frame'[q])
      <3>1. frame[q] \in Frames /\ Undisturbed(frame[q], jar) /\ Shape(q, frame[q])
        BY <1>1 DEF IInv, Types
      <3> DEFINE e == [frame[q] EXCEPT !.clean = FALSE]
      <3>2. frame'[q] = e
        BY <1>4, <2>6
      <3>3. /\ e \in Frames /\ e.at = frame[q].at /\ e.call = frame[q].call
            /\ e.alone = frame[q].alone /\ e.tries = frame[q].tries
            /\ e.session = frame[q].session
            /\ e.asked = frame[q].asked /\ e.body = frame[q].body
            /\ e.writes = frame[q].writes /\ ~e.clean
        BY <3>1 DEF Frames
      <3> HIDE DEF e
      <3>4. Undisturbed(e, jar')
        BY <1>1, <3>1, <3>3 DEF Undisturbed
      <3>5. Shape(q, e)
        BY <3>1, <3>3 DEF Shape, Stage
      <3> QED
        BY <3>2, <3>3, <3>4, <3>5
    <2>7. Undisturbed(g, jar') /\ Shape(h, g)
      BY <1>1, <2>1, <2>2, <2>5 DEF Undisturbed, Shape, Stage, Pending
    <2>8. Types'
      <3>1. frame' \in [Goroutines -> Frames]
        <4>1. \A q \in Goroutines : frame'[q] \in Frames
          BY <2>3, <2>5, <2>6
        <4> QED
          BY <1>4, <4>1
      <3> QED
        BY <1>1, <3>1 DEF Types
    <2>9. \A q \in Goroutines : (Undisturbed(frame[q], jar) /\ Shape(q, frame[q]))'
      <3> SUFFICES ASSUME NEW q \in Goroutines
                   PROVE  Undisturbed(frame'[q], jar') /\ Shape(q, frame'[q])
        BY DEF Undisturbed, Shape, Stage, Plans, Pending
      <3> QED
        BY <2>3, <2>6, <2>7
    <2>10. ASSUME NEW i \in Handlers, frame'[i].clean PROVE Clean(i)'
      <3>1. i = h /\ UpToDate /\ \A q \in Handlers : frame[q].asked = NoMenu
        BY <2>3, <2>4, <2>5, <2>6, <2>10 DEF Goroutines
      <3>2. \A q \in Handlers \ {i} : frame'[q].asked = NoMenu
        BY <2>6, <3>1 DEF Goroutines
      <3>3. /\ boiler.pending = NoWrite /\ frame'[i].asked = job
            /\ parsed.top = boiler.top /\ parsed.bottom = boiler.bottom
            /\ menuData.top = boiler.top /\ menuData.bottom = boiler.bottom
            /\ reader.at # "idle" =>
                 reader.menu.top = boiler.top /\ reader.menu.bottom = boiler.bottom
            /\ frame[Fetcher].at = "store" =>
                 /\ frame[Fetcher].body.top = boiler.top
                 /\ frame[Fetcher].body.bottom = boiler.bottom
        <4> DEFINE now == [top |-> boiler.top, bottom |-> boiler.bottom]
        <4>1. /\ [top |-> parsed.top, bottom |-> parsed.bottom] = now /\ menuData = now
              /\ reader.at # "idle" => reader.menu = now
              /\ frame[Fetcher].at = "store" => frame[Fetcher].body = now
          BY <3>1 DEF UpToDate
        <4>2. now.top = boiler.top /\ now.bottom = boiler.bottom
          OBVIOUS
        <4>3. parsed.top = boiler.top /\ parsed.bottom = boiler.bottom
          BY <4>1
        <4> HIDE DEF now
        <4> QED
          BY <2>3, <2>5, <3>1, <4>1, <4>2, <4>3 DEF UpToDate
      <3>4. Known(job)'
        <4>1. ASSUME NEW q \in Goroutines, frame'[q].at = "store"
              PROVE  q = Fetcher /\ frame'[q].body = frame[q].body /\ frame[q].at = "store"
          <5>1. q # h
            BY <2>3, <2>5, <4>1
          <5>2. frame[q].at = "store" /\ frame'[q].body = frame[q].body
            BY <2>6, <4>1, <5>1
          <5>3. q \in Handlers => q # Fetcher /\ frame[q].asked = NoMenu /\ Shape(q, frame[q])
            BY <3>1 DEF IInv, Goroutines, Fetcher, EmodulAssumption
          <5> QED
            BY <5>2, <5>3 DEF Shape, Stage, Goroutines
        <4> QED
          BY <1>1, <3>3, <4>1 DEF Known, Truly
      <3>5. Reached(frame[i])'
        <4>1. Progress(Ordered(job), job)
          BY <1>1, <3>1, OrderedFacts
        <4> QED
          BY <1>1, <2>3, <2>5, <3>1, <4>1 DEF Reached, Stage, Pending, Progress
      <3> QED
        BY <1>1, <3>2, <3>3, <3>4, <3>5 DEF Clean
    <2> QED
      BY <2>8, <2>9, <2>10 DEF IInv, Clean
  <1> QED
    BY <1>3, <1>4 DEF Ask

-----------------------------------------------------------------------------
(* The parser and the controller. *)

\* A target the parser takes from data that is Truly as asked is as well.
LEMMA ParseKept ==
  ASSUME EmodulAssumption, IInv, Parse
  PROVE  IInv'
  <1>1. /\ Types /\ UNCHANGED <<boiler, jar, menuData, frame>>
        /\ menuData \in Menus /\ reader.menu \in Menus /\ NoMenu \in Menus
    BY DEF IInv, Types, Parse, Take, ParseBottom, NoMenu, Menus, EmodulAssumption
  <1>2. /\ parsed' \in [top : 0 .. High, bottom : 0 .. High, min : 0 .. Low, max : 0 .. High]
        /\ reader' \in [at : {"idle", "bottom", "dead"}, menu : Menus]
        /\ parsed'.top \in {parsed.top, menuData.top}
        /\ \/ parsed'.bottom = parsed.bottom
           \/ parsed'.bottom = reader.menu.bottom /\ reader.at # "idle"
        /\ reader'.at # "idle" => reader'.menu = menuData
    <2>1. parsed \in [top : 0 .. High, bottom : 0 .. High, min : 0 .. Low, max : 0 .. High]
      BY <1>1 DEF Types
    <2>2. /\ menuData.top \in 0 .. High /\ reader.menu.bottom \in 0 .. High
          /\ reader.menu.top \in 0 .. High /\ Low \in 0 .. Low
      BY <1>1 DEF Menus, EmodulAssumption
    <2>3. CASE Take
      <3>1. reader' = [at |-> "bottom", menu |-> menuData]
        BY <2>3 DEF Take
      <3>2. parsed' = parsed \/ parsed' = [parsed EXCEPT !.top = menuData.top]
        BY <2>3 DEF Take
      <3> QED
        BY <1>1, <2>1, <2>2, <3>1, <3>2
    <2>4. CASE ParseBottom
      <3>1. reader' = [at |-> "idle", menu |-> NoMenu] /\ reader.at # "idle"
        BY <2>4 DEF ParseBottom
      <3>2. \/ parsed' = parsed
            \/ parsed' = [parsed EXCEPT !.bottom = reader.menu.bottom,
                                        !.min = Low, !.max = reader.menu.top]
        BY <2>4 DEF ParseBottom
      <3> QED
        BY <1>1, <2>1, <2>2, <3>1, <3>2
    <2> QED
      BY <2>3, <2>4 DEF Parse
  <1>3. Types'
    BY <1>1, <1>2 DEF Types
  <1>4. \A q \in Goroutines : (Undisturbed(frame[q], jar) /\ Shape(q, frame[q]))'
    BY <1>1 DEF IInv, Undisturbed, Shape, Stage, Plans, Pending
  <1>5. ASSUME NEW h \in Handlers, frame'[h].clean PROVE Clean(h)'
    <2>1. Clean(h) /\ frame[h].clean
      BY <1>1, <1>5 DEF IInv
    <2>2. Known(frame[h].asked)'
      <3>1. PICK a : a = frame[h].asked /\ frame'[h].asked = a
        BY <1>1
      <3>2. Known(a)
        BY <2>1, <3>1 DEF Clean
      <3>3. Truly(parsed, a)' /\ Truly(menuData, a)'
        BY <1>1, <1>2, <3>2 DEF Known, Truly
      <3>4. reader'.at # "idle" => Truly(reader.menu, a)'
        BY <1>1, <1>2, <3>2 DEF Known, Truly
      <3>5. \A q \in Goroutines : frame'[q].at = "store" => Truly(frame[q].body, a)'
        BY <1>1, <3>2 DEF Known, Truly
      <3> QED
        BY <3>1, <3>3, <3>4, <3>5 DEF Known, Truly
    <2>3. Reached(frame[h])'
      BY <1>1, <2>1 DEF Clean, Reached, Stage, Progress, Pending
    <2> QED
      BY <1>1, <2>1, <2>2, <2>3 DEF Clean
  <1> QED
    BY <1>3, <1>4, <1>5 DEF IInv, Clean

\* The write that is applied is one of the clean request's.
LEMMA TakeEffectKept ==
  ASSUME EmodulAssumption, IInv, TakeEffect
  PROVE  IInv'
  <1> DEFINE w == boiler.pending
             b == [boiler EXCEPT !.pending = NoWrite]
  <1>1. /\ Types /\ UNCHANGED <<jar, menuData, parsed, reader, frame>>
        /\ w # NoWrite /\ w.device \in {"top", "bottom"}
        /\ boiler' = IF ~InLimits(w) THEN b
                     ELSE IF w.device = "top" THEN [b EXCEPT !.top = w.temp]
                                              ELSE [b EXCEPT !.bottom = w.temp]
    BY DEF IInv, Types, TakeEffect
  <1>2. /\ boiler.top \in Low .. High /\ boiler.bottom \in Low .. High
        /\ boiler.bottom <= boiler.top /\ Low \in Nat \ {0} /\ High \in Nat
        /\ NoWrite \in Writes
    BY <1>1 DEF Types, NoWrite, Writes, EmodulAssumption
  <1>3. /\ boiler'.pending = NoWrite
        /\ \/ boiler'.top = boiler.top /\ boiler'.bottom = boiler.bottom
           \/ /\ w.device = "top" /\ boiler'.top = w.temp /\ boiler'.bottom = boiler.bottom
              /\ w.temp \in boiler.bottom .. High
           \/ /\ w.device = "bottom" /\ boiler'.bottom = w.temp /\ boiler'.top = boiler.top
              /\ w.temp \in Low .. boiler.top
        /\ boiler' \in [top : Low .. High, bottom : Low .. High, pending : Writes]
    <2>1. CASE ~InLimits(w)
      <3>1. boiler' = b
        BY <1>1, <2>1
      <3> QED
        BY <1>1, <1>2, <3>1 DEF Types
    <2>2. CASE InLimits(w) /\ w.device = "top"
      <3>1. w.temp \in boiler.bottom .. High
        BY <2>2 DEF InLimits
      <3>2. boiler' = [b EXCEPT !.top = w.temp]
        BY <1>1, <2>2
      <3>3. w.temp \in Low .. High
        BY <1>2, <3>1
      <3>4. b \in [top : Low .. High, bottom : Low .. High, pending : Writes]
            /\ b.pending = NoWrite /\ b.bottom = boiler.bottom
        BY <1>1, <1>2 DEF Types
      <3> HIDE DEF b
      <3> QED
        BY <2>2, <3>1, <3>2, <3>3, <3>4
    <2>3. CASE InLimits(w) /\ w.device = "bottom"
      <3>1. w.temp \in Low .. boiler.top
        BY <2>3 DEF InLimits
      <3>2. boiler' = [b EXCEPT !.bottom = w.temp]
        BY <1>1, <2>3
      <3>3. w.temp \in Low .. High
        BY <1>2, <3>1
      <3>4. b \in [top : Low .. High, bottom : Low .. High, pending : Writes]
            /\ b.pending = NoWrite /\ b.top = boiler.top
        BY <1>1, <1>2 DEF Types
      <3> HIDE DEF b
      <3> QED
        BY <2>3, <3>1, <3>2, <3>3, <3>4
    <2> QED
      BY <1>1, <2>1, <2>2, <2>3
  <1>4. Types'
    BY <1>1, <1>2, <1>3 DEF Types
  <1>5. \A q \in Goroutines : (Undisturbed(frame[q], jar) /\ Shape(q, frame[q]))'
    BY <1>1 DEF IInv, Undisturbed, Shape, Stage, Plans, Pending
  <1>6. ASSUME NEW h \in Handlers, frame'[h].clean PROVE Clean(h)'
    <2> DEFINE a == frame[h].asked
    <2>1. Clean(h) /\ frame[h].clean /\ Shape(h, frame[h]) /\ h \in Goroutines
      BY <1>1, <1>6 DEF IInv, Goroutines
    <2>2. w \in {Top(a.top), Bottom(a.bottom)}
      BY <1>1, <2>1 DEF Clean
    <2>3. /\ boiler.top = a.top => boiler'.top = a.top
          /\ boiler.bottom = a.bottom => boiler'.bottom = a.bottom
      BY <1>3, <2>2 DEF Top, Bottom
    <2>4. Known(a)'
      <3>1. Known(a)
        BY <2>1 DEF Clean
      <3>2. PICK c : c = a /\ a' = c
        BY <1>1
      <3>3. /\ boiler.top = c.top => boiler'.top = c.top
            /\ boiler.bottom = c.bottom => boiler'.bottom = c.bottom
        BY <2>3, <3>2
      <3>4. Known(c)
        BY <3>1, <3>2
      <3> HIDE DEF a
      <3> QED
        BY <1>1, <3>2, <3>3, <3>4 DEF Known, Truly
    <2>5. Reached(frame[h])'
      <3>1. Reached(frame[h])
        BY <2>1 DEF Clean
      <3>2. ASSUME Stage(frame[h]) \in Pending PROVE Progress(frame[h].writes, a)'
        <4> DEFINE ws == frame[h].writes
        <4>1. Progress(ws, a) /\ a \in Jobs /\ ws \in Plans(a)
          BY <2>1, <3>1, <3>2 DEF Reached, Shape, Clean, IInv
        <4>2. Len(ws) \in {1, 2} /\ Head(ws) \in {Top(a.top), Bottom(a.bottom)}
          BY <4>1, PlanFacts
        <4>3. frame'[h].writes = ws /\ frame'[h].asked = a
          BY <1>1
        <4>4. CASE Head(ws) = Top(a.top)
          <5>1. Head(ws).device = "top"
            BY <4>4 DEF Top
          <5>2. Len(ws) = 2 =>
                  /\ w = Top(a.top) /\ boiler'.bottom = boiler.bottom
                  /\ a.bottom <= a.top => boiler.bottom <= a.top
            BY <1>1, <1>3, <4>1, <5>1 DEF Progress, Top
          <5> QED
            BY <1>3, <2>3, <4>1, <4>3, <5>1, <5>2 DEF Progress
        <4>5. CASE Head(ws) = Bottom(a.bottom)
          <5>1. Head(ws).device = "bottom"
            BY <4>5 DEF Bottom
          <5>2. Len(ws) = 2 =>
                  /\ w = Bottom(a.bottom) /\ boiler'.top = boiler.top
                  /\ a.bottom <= boiler.top
            BY <1>1, <1>3, <4>1, <5>1 DEF Progress, Bottom
          <5> QED
            BY <1>3, <2>3, <4>1, <4>3, <5>1, <5>2 DEF Progress
        <4> QED
          BY <4>2, <4>4, <4>5
      <3> QED
        BY <1>1, <2>3, <3>1, <3>2 DEF Reached, Stage, Pending
    <2> QED
      BY <1>1, <1>3, <2>1, <2>4, <2>5 DEF Clean
  <1> QED
    BY <1>4, <1>5, <1>6 DEF IInv, Clean

-----------------------------------------------------------------------------
(* The invariant. *)

LEMMA InitInv ==
  ASSUME EmodulAssumption, Init
  PROVE  IInv
  <1> DEFINE c == Calling(IdleFrame, "menu")
  <1>1. /\ c \in Frames /\ c.at = "menu" /\ c.tries = 1 /\ c.asked = NoMenu /\ ~c.clean
    BY IdleForm, CallingForm DEF Init
  <1>2. \A p \in Goroutines : frame[p] = IF p = Fetcher THEN c ELSE IdleFrame
    BY DEF Init
  <1>3. frame \in [Goroutines -> Frames]
    BY <1>1, IdleForm DEF Init
  <1> HIDE DEF c
  <1>4. Types
    BY <1>3 DEF Init, Types, NoMenu, Menus, NoWrite, Writes, EmodulAssumption
  <1>5. \A p \in Goroutines : Undisturbed(frame[p], jar) /\ Shape(p, frame[p]) /\ ~frame[p].clean
    BY <1>1, <1>2, IdleForm DEF Undisturbed, Shape, Stage
  <1> QED
    BY <1>4, <1>5 DEF IInv, Clean, Goroutines

LEMMA NextInv ==
  ASSUME EmodulAssumption, IInv, [Next]_vars
  PROVE  IInv'
  <1>1. ASSUME NEW p \in Goroutines, Call(p) PROVE IInv'
    <2>1. CASE Wait(p) \/ TimeUp(p) \/ Answered(p)
      <3>1. p \in Handlers
        BY <2>1 DEF Wait, TimeUp, Answered, Goroutines
      <3> QED
        BY <2>1, <3>1, WaitKept, AnsweredKept
    <2> QED
      BY <1>1, <2>1, PostKept, MenuKept, StoreKept, UnauthorizedKept, LoginKept DEF Call
  <1>2. CASE UNCHANGED vars
    <2>1. /\ Types' /\ UNCHANGED <<boiler, jar, menuData, parsed, reader, frame>>
      BY <1>2 DEF IInv, vars, Types
    <2>2. \A q \in Goroutines : Undisturbed(frame[q], jar) /\ Shape(q, frame[q])
      BY DEF IInv
    <2> QED
      BY <2>1, <2>2, StepByAll
  <1> QED
    BY <1>1, <1>2, AskKept, FetcherKept, ParseKept, TakeEffectKept, ByHandKept, ExpireKept,
       FaultKept DEF Next

\* The inductive invariant holds for any requests and disturbances.
THEOREM EmodulInvariant == Spec => []IInv
  <1>1. Init => IInv
    BY InitInv, EmodulAssumption
  <1>2. IInv /\ [Next]_vars => IInv'
    BY NextInv, EmodulAssumption
  <1> QED
    BY <1>1, <1>2, PTL DEF Spec

\* A call that met nothing but an expired session is not given up: it is
\* repeated once it has logged in, with the cookies it got.
THEOREM ExpiryIsSurvived == Spec => []ExpirySurvived
  <1>1. IInv => ExpirySurvived
    BY DEF IInv, ExpirySurvived, Undisturbed
  <1> QED
    BY <1>1, EmodulInvariant, PTL

\* A request for bottom <= top that nobody disturbs is not refused half way.
THEOREM CleanIsNotRefused == Spec => []NeverRefused
  <1>1. ASSUME IInv, NEW h \in Handlers, frame[h].at = "refused", frame[h].clean
        PROVE  frame[h].asked.bottom > frame[h].asked.top
    <2>1. Reached(frame[h])
      BY <1>1 DEF IInv, Clean
    <2> QED
      BY <1>1, <2>1 DEF Reached, Stage
  <1>2. IInv => NeverRefused
    BY <1>1 DEF NeverRefused
  <1> QED
    BY <1>2, EmodulInvariant, PTL

\* A request that nobody disturbs has both its targets in effect when it is
\* answered with success.
THEOREM CleanIsInEffect == Spec => []DoneInEffect
  <1>1. ASSUME IInv, NEW h \in Handlers, frame[h].at = "ok", frame[h].clean
        PROVE  boiler.top = frame[h].asked.top /\ boiler.bottom = frame[h].asked.bottom
    <2>1. Reached(frame[h])
      BY <1>1 DEF IInv, Clean
    <2> QED
      BY <1>1, <2>1 DEF Reached, Stage
  <1>2. IInv => DoneInEffect
    BY <1>1 DEF DoneInEffect
  <1> QED
    BY <1>2, EmodulInvariant, PTL

\* The types, with the signal and the bound of the disturbances.
THEOREM TypesAreKept == Spec => []TypeOK
  <1> DEFINE Rest == dataUpdate \in BOOLEAN /\ events \in 0 .. MaxEvents
  <1>0. MaxEvents \in Nat
    BY EmodulAssumption DEF EmodulAssumption
  <1>1. ASSUME Init PROVE Rest
    <2>1. dataUpdate = FALSE /\ events = 0
      BY <1>1 DEF Init
    <2>2. dataUpdate \in BOOLEAN
      BY <2>1
    <2>3. events \in 0 .. MaxEvents
      BY <1>0, <2>1
    <2> QED
      BY <2>2, <2>3
  <1>2. ASSUME [Next]_vars
        PROVE  /\ events' = events \/ Event
               /\ dataUpdate' = dataUpdate \/ dataUpdate' \in BOOLEAN
    <2>1. ASSUME NEW p \in Goroutines, Call(p)
          PROVE  (events' = events \/ Event) /\ dataUpdate' = dataUpdate
      <3>1. TryAgain(p) => Event
        BY DEF TryAgain
      <3> QED
        BY <2>1, <3>1 DEF Call, Post, Wait, TimeUp, Answered, Menu, Store, Unauthorized,
           Login, TakeCookies
    <2>2. CASE \E h \in Handlers : Ask(h)
      BY <2>2 DEF Ask
    <2>3. CASE Signal \/ Minute \/ Parse \/ TakeEffect
      BY <2>3 DEF Signal, Minute, Parse, Take, ParseBottom, TakeEffect
    <2>4. CASE ByHand \/ Expire \/ Fault
      BY <2>4 DEF ByHand, Expire, Fault
    <2>5. CASE UNCHANGED vars
      BY <2>5 DEF vars
    <2> QED
      BY <1>2, <2>1, <2>2, <2>3, <2>4, <2>5 DEF Next
  <1>3. Rest /\ [Next]_vars => Rest'
    BY <1>0, <1>2 DEF Event
  <1>4. IInv /\ Rest => TypeOK
    BY DEF IInv, Types, Frames, TypeOK
  <1> QED
    BY <1>1, <1>3, <1>4, EmodulInvariant, PTL DEF Spec
=============================================================================
