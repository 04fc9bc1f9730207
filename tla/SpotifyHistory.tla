-------------------------- MODULE SpotifyHistory ---------------------------
(***************************************************************************)
(* The listening history of sound/spotify.go: the background poller and    *)
(* the button thread fetch what Spotify knows, merge it into r.history     *)
(* under r.mu and write the file; the process may stop at any step and     *)
(* load the file again.  The button thread also resolves the morning       *)
(* playlist by its name.                                                   *)
(*                                                                         *)
(* Times are the ticks of a clock that advances with every track the user  *)
(* plays; 0 is "never played".  A context keeps its type, so the type is a *)
(* function of the uri.                                                    *)
(***************************************************************************)
EXTENDS Naturals, Sequences, SequencesExt

CONSTANTS
  Uris,          \* contexts
  IsPlaylist,    \* uris whose type is "playlist"
  Tracks,        \* track names
  Library,       \* the library playlists as UserPlaylists lists them: [uri, hint]
  MorningName,   \* SpotifyOptions.MorningPlaylist, a name
  NoUri,         \* the empty uri
  Nothing,       \* nothing fetched
  Torn,          \* a file that does not parse
  Cap,           \* spotifyHistoryMax (200)
  Window,        \* tracks recently-played returns (50)
  MaxClock,      \* bound: tracks played
  MaxCrashes     \* bound: restarts of the process

ASSUME HistoryAssumption ==
  /\ NoUri \notin Uris
  /\ IsPlaylist \subseteq Uris
  /\ Library \in Seq([uri : Uris, hint : {l.hint : l \in Range(Library)}])
  /\ Nothing \notin Nat
  /\ Cap \in Nat \ {0} /\ Window \in Nat \ {0}
  /\ MaxClock \in Nat /\ MaxCrashes \in Nat

Pollers == {"run", "press"}       \* SpotifyRemote.Run, the button thread
Entry == [uri : Uris, hint : Tracks \cup {l.hint : l \in Range(Library)}, at : 0 .. MaxClock]

VARIABLES
  played,      \* Spotify: the last tracks played, most recent first
  clock,
  up,          \* the process runs
  history,     \* r.history
  disk,        \* the history file: its entries, or Torn
  saving,      \* mergeHistory holds r.mu and is about to write the file
  written,     \* the last write of this process succeeded
  fetched,     \* what each poller has fetched and not merged yet
  resolving,   \* the button thread fetched the library to find the morning playlist
  morningUri,  \* r.morningUri
  known,       \* history variable: latest playedAt of what was ever merged
  crashes

vars == <<played, clock, up, history, disk, saving, written, fetched,
          resolving, morningUri, known, crashes>>

-----------------------------------------------------------------------------
(* Pure operations. *)

IndexOfUri(h, u) == SelectInSeq(h, LAMBDA e : e.uri = u)

\* RecentlyPlayedContexts: one entry for each context, its latest track
RecentContexts(log) ==
  LET recent[n \in 0 .. Len(log)] ==
        IF n = 0 THEN <<>>
        ELSE IF \E e \in Range(recent[n - 1]) : e.uri = log[n].uri THEN recent[n - 1]
        ELSE Append(recent[n - 1], [uri |-> log[n].uri, hint |-> log[n].track, at |-> log[n].at])
  IN recent[Len(log)]

\* UserPlaylists: never played as far as this call knows
LibraryContexts == [i \in DOMAIN Library |->
                      [uri |-> Library[i].uri, hint |-> Library[i].hint, at |-> 0]]

\* mutants of MergeOne: every context is appended; the last answer wins
MergeOneAppends(h, ctx) == Append(h, ctx)

MergeOneOverwrites(h, ctx) ==
  LET i == IndexOfUri(h, ctx.uri)
  IN IF i = 0 THEN Append(h, ctx) ELSE [h EXCEPT ![i] = ctx]

\* the loop body of mergeHistory: the later time is kept, the hint is the newest
MergeOne(h, ctx) ==
  LET i == IndexOfUri(h, ctx.uri)
  IN IF i = 0 THEN Append(h, ctx)
     ELSE [h EXCEPT ![i] = IF ctx.at > h[i].at THEN ctx
                           ELSE [uri |-> ctx.uri, hint |-> ctx.hint, at |-> h[i].at]]

\* the loop: h with all of ctxs, one after the other
MergeAll(h, ctxs) ==
  LET merged[n \in 0 .. Len(ctxs)] ==
        IF n = 0 THEN h ELSE MergeOne(merged[n - 1], ctxs[n])
  IN merged[Len(ctxs)]

\* sort.SliceStable by playedAt, latest first: an entry goes behind all later
\* ones and behind the equal ones that stood before it
Ahead(h, i) ==
  {j \in DOMAIN h : h[j].at > h[i].at \/ (h[j].at = h[i].at /\ j <= i)}

Place(h, i) == Cardinality(Ahead(h, i))

StableSort(h) == [k \in DOMAIN h |-> h[CHOOSE i \in DOMAIN h : Place(h, i) = k]]

Capped(n) == IF n > Cap THEN Cap ELSE n

\* mutant of Merged: capped before it is sorted
MergedCapsFirst(h, ctxs) ==
  LET m == MergeAll(h, ctxs) IN IF m = h THEN h ELSE StableSort(SubSeq(m, 1, Capped(Len(m))))

\* mergeHistory: an unchanged history is left as it is
Merged(h, ctxs) ==
  LET m == MergeAll(h, ctxs) IN IF m = h THEN h ELSE SubSeq(StableSort(m), 1, Capped(Len(m)))

\* the entry resolveMorningPlaylist takes from the history, NoUri if none
FindMorning(h) ==
  LET i == SelectInSeq(h, LAMBDA e : e.hint = MorningName /\ e.uri \in IsPlaylist)
  IN IF i = 0 THEN NoUri ELSE h[i].uri

\* the playlist of that name in the library
LibraryMorning ==
  LET i == SelectInSeq(Library, LAMBDA l : l.hint = MorningName)
  IN IF i = 0 THEN NoUri ELSE Library[i].uri

-----------------------------------------------------------------------------
(* The user, Spotify, and the steps of the process. *)

\* the user hears track t of context u, on any device
Listen(u, t) ==
  /\ clock < MaxClock /\ clock' = clock + 1
  /\ LET log == <<[uri |-> u, track |-> t, at |-> clock + 1]>> \o played
     IN played' = SubSeq(log, 1, IF Len(log) > Window THEN Window ELSE Len(log))
  /\ UNCHANGED <<up, history, disk, saving, written, fetched, resolving,
                 morningUri, known, crashes>>

\* pollHistory's call
FetchRecent(p) ==
  /\ up /\ fetched[p] = Nothing
  /\ fetched' = [fetched EXCEPT ![p] = RecentContexts(played)]
  /\ UNCHANGED <<played, clock, up, history, disk, saving, written, resolving,
                 morningUri, known, crashes>>

\* pollPlaylists' call, by the poller
FetchPlaylists ==
  /\ up /\ fetched["run"] = Nothing
  /\ fetched' = [fetched EXCEPT !["run"] = LibraryContexts]
  /\ UNCHANGED <<played, clock, up, history, disk, saving, written, resolving,
                 morningUri, known, crashes>>

\* resolveMorningPlaylist, by the button thread: from the history, or else
\* with a call for the library
ResolveMorning ==
  /\ up /\ ~saving /\ fetched["press"] = Nothing
  /\ morningUri = NoUri
  /\ IF FindMorning(history) # NoUri
       THEN morningUri' = FindMorning(history) /\ UNCHANGED <<fetched, resolving>>
       ELSE /\ fetched' = [fetched EXCEPT !["press"] = LibraryContexts]
            /\ resolving' = TRUE
            /\ UNCHANGED morningUri
  /\ UNCHANGED <<played, clock, up, history, disk, saving, written, known, crashes>>

\* mutant of Merge: only a history that grew is written
MergeSavesGrowth(p) ==
  /\ up /\ ~saving /\ fetched[p] # Nothing
  /\ history' = Merged(history, fetched[p])
  /\ saving' = (Len(history') > Len(history))
  /\ fetched' = [fetched EXCEPT ![p] = Nothing]
  /\ resolving' = (resolving /\ p # "press")
  /\ UNCHANGED <<played, clock, up, disk, written, morningUri, known, crashes>>

\* the latest time known of u, with those in ctxs
Latest(u, ctxs) ==
  LET at == {ctxs[i].at : i \in {j \in DOMAIN ctxs : ctxs[j].uri = u}}
  IN IF at = {} THEN known[u]
     ELSE Max(at \cup (IF known[u] = Nothing THEN {} ELSE {known[u]}))

\* mergeHistory of what p fetched; a changed history is sorted, capped and
\* written with the lock still held
Merge(p) ==
  /\ up /\ ~saving /\ fetched[p] # Nothing
  /\ history' = Merged(history, fetched[p])
  /\ saving' = (history' # history)
  /\ known' = [u \in Uris |-> Latest(u, fetched[p])]
  /\ fetched' = [fetched EXCEPT ![p] = Nothing]
  /\ IF p = "press" /\ resolving
       THEN resolving' = FALSE /\ morningUri' = LibraryMorning
       ELSE UNCHANGED <<resolving, morningUri>>
  /\ UNCHANGED <<played, clock, up, disk, written, crashes>>

\* saveHistory: the file is written, or left as it was or in pieces by an error
Save ==
  /\ up /\ saving /\ saving' = FALSE
  /\ \/ disk' = history /\ written' = TRUE
     \/ disk' \in {disk, Torn} /\ written' = FALSE
  /\ UNCHANGED <<played, clock, up, history, fetched, resolving, morningUri,
                 known, crashes>>

\* the process stops; a write in progress leaves the old file, a part or all
Crash ==
  /\ up /\ crashes < MaxCrashes /\ crashes' = crashes + 1
  /\ up' = FALSE
  /\ disk' \in IF saving THEN {disk, Torn, history} ELSE {disk}
  /\ saving' = FALSE /\ resolving' = FALSE
  /\ fetched' = [p \in Pollers |-> Nothing]
  /\ UNCHANGED <<played, clock, history, written, morningUri, known>>

\* NewSpotifyRemote: loadHistory takes the file as it is, a torn one is ignored
Restart ==
  /\ ~up /\ up' = TRUE
  /\ history' = IF disk = Torn THEN <<>> ELSE disk
  /\ written' = (disk # Torn)
  /\ morningUri' = NoUri
  /\ known' = [u \in Uris |->
                 LET i == IndexOfUri(history', u)
                 IN IF i = 0 THEN Nothing ELSE history'[i].at]
  /\ UNCHANGED <<played, clock, disk, saving, fetched, resolving, crashes>>

Init ==
  /\ played = <<>> /\ clock = 0
  /\ up = TRUE
  /\ history = <<>> /\ disk = <<>> /\ saving = FALSE /\ written = TRUE
  /\ fetched = [p \in Pollers |-> Nothing]
  /\ resolving = FALSE /\ morningUri = NoUri
  /\ known = [u \in Uris |-> Nothing]
  /\ crashes = 0

Next ==
  \/ \E u \in Uris, t \in Tracks : Listen(u, t)
  \/ \E p \in Pollers : FetchRecent(p)
  \/ FetchPlaylists
  \/ ResolveMorning
  \/ \E p \in Pollers : Merge(p)
  \/ Save \/ Crash \/ Restart

Spec == Init /\ [][Next]_vars

-----------------------------------------------------------------------------
(* Properties. *)

TypeOK ==
  /\ history \in Seq(Entry)
  /\ disk = Torn \/ disk \in Seq(Entry)
  /\ up \in BOOLEAN /\ saving \in BOOLEAN /\ written \in BOOLEAN
  /\ resolving \in BOOLEAN
  /\ \A p \in Pollers : fetched[p] = Nothing \/ \A i \in DOMAIN fetched[p] :
       fetched[p][i].uri \in Uris
  /\ morningUri \in Uris \cup {NoUri}

\* The history never holds a context twice, is ordered most recently played
\* first and is capped, whichever of the concurrent pollers merged last and
\* whatever file it was loaded from (sound/spotify.go:627-668).
HistoryCanonical ==
  /\ Len(history) <= Cap
  /\ \A i, j \in DOMAIN history :
       i < j => /\ history[i].uri # history[j].uri
                /\ history[i].at >= history[j].at

\* The last played time is kept at its maximum: an answer fetched earlier and
\* merged later never turns an entry's time back (sound/spotify.go:627-629,
\* 644-647).
PlayedAtKeptAtMaximum ==
  up => \A i \in DOMAIN history : history[i].at = known[history[i].uri]

\* A context that was ever merged is missing only when the cap is reached and
\* every entry left was played no earlier (sound/spotify.go:660-665).
CapDropsOnlyOlder ==
  up => \A u \in Uris :
          known[u] # Nothing /\ IndexOfUri(history, u) = 0
            => /\ Len(history) = Cap
               /\ \A i \in DOMAIN history : history[i].at >= known[u]

\* Unless a write failed, what a restart would load is the history in memory
\* whenever no merge is under way (sound/spotify.go:612-625, 666).
RestartRemembers == up /\ ~saving /\ written => disk = history

=============================================================================
