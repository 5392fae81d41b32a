--------------------------- MODULE AudioChannels ---------------------------
(***************************************************************************)
(* The audio channels of runtime/festina_runtime_audio.c: a table of       *)
(* channels, one playback thread and one device handle per playing         *)
(* channel, and the calls play, playLoop, stop, stopAudioPlayer and the    *)
(* release of a clip, which claim, steal, stop and join channels.          *)
(*                                                                         *)
(* g_audio_lock guards the table.  A caller holds it from the first line   *)
(* of a call to the last, except that festina_audio_reap_locked drops it   *)
(* while it joins a playback thread; `lock' says who holds it, and a step  *)
(* of a caller that holds it is the code up to the next channel it visits. *)
(* A critical section of a playback thread is one step.                    *)
(***************************************************************************)
EXTENDS Integers, FiniteSets

CONSTANTS
  Caller,     \* the program's threads that play clips: main and Festina threads
  Main,       \* the one that may stop channels by number and set the limit
  Clip,       \* the loaded clips
  Owner,      \* the thread that holds a clip: messages carry clones
  Length,     \* chunks of 4096 frames in a clip
  Cap,        \* FESTINA_AUDIO_PLAYER_CAP
  Limits,     \* the pool limits the program asks for, in range or not
  Numbers,    \* the channel numbers it names, in range or not
  Default,    \* FESTINA_AUDIO_PLAYERS_DEFAULT
  Uses,       \* the calls the program makes
  MaxPlays,   \* bound: playbacks ever started
  NoOne,      \* nobody holds the lock
  NoClip      \* a NULL clip pointer

Calls == {"play", "playLoop", "playOn", "playLoopOn", "stop", "stopPlayer", "stopAll",
          "free", "setMax"}

ASSUME AudioAssumption ==
  /\ Main \in Caller /\ NoOne \notin Caller /\ NoClip \notin Clip
  /\ Owner \in [Clip -> Caller] /\ Length \in [Clip -> Nat]
  /\ Cap \in Nat \ {0} /\ Limits \subseteq Int /\ Numbers \subseteq Int /\ Default \in 1..Cap
  /\ MaxPlays \in Nat
  /\ Uses \subseteq Calls

Channel == 0..Cap - 1
Playback == 1..MaxPlays            \* playback threads, by started_seq

VARIABLES
  lock,                                       \* g_audio_lock
  limit, nextSeq,                             \* g_max_audio_players, g_next_seq
  clip, thread, pcm,                          \* a channel's clip, thread, device (0: none)
  active, joinable, stop, looping, locked,    \* a channel's flags
  tpc, on, tclip, frame,                      \* a playback thread: where it is, its
                                              \*   channel, its copy of the clip, its position
  open,                                       \* the device handles open, by playback
  pc, call, at,                               \* a caller: where it is, its call, its channel
  halting, release, joins,                    \* what it halts, and the thread it joins
  freed, joined,                              \* history: clips released, threads joined
  ended                                       \* festina_fail ended the program

table   == <<clip, thread, pcm, active, joinable, stop, looping, locked>>
players == <<tpc, on, tclip, frame, open>>
callers == <<pc, call, at, halting, release, joins>>
rest    == <<limit, nextSeq, freed, joined, ended>>
vars    == <<lock, table, players, callers, rest>>

\* A call and its arguments; channel = Cap when it names none.
NoCall == [kind |-> "none", clip |-> NoClip, channel |-> Cap, limit |-> Default, back |-> "user"]
CallRecord == [kind : Calls \cup {"none"}, clip : Clip \cup {NoClip}, channel : 0..Cap,
               limit : 1..Cap, back : {"user", "open", "walk"}]

Playing == {"play", "playLoop", "playOn", "playLoopOn"}
Explicit(kind) == kind \in {"playOn", "playLoopOn"}
Loops(kind)    == kind \in {"playLoop", "playLoopOn"}

\* festina_clamp_channel, and the clamp of setMaxAudioPlayers.
ClampChannel(n) == IF n < 0 THEN 0 ELSE IF n >= Cap THEN Cap - 1 ELSE n
ClampLimit_Low(n) == IF n < 1 THEN 1 ELSE n
ClampLimit(n) == IF n < 1 THEN 1 ELSE IF n > Cap THEN Cap ELSE n

\* A thread that was created and has not run to its end.
Running(t) == tpc[t] \in {"start", "check", "write", "exit"}

-----------------------------------------------------------------------------
(* Halting and reaping a channel: festina_audio_halt_locked.                *)

\* Called with the lock held; control comes back at call.back.  halting = Cap says
\* that no channel is being halted.
HaltNext(c, ch, rel, back) ==
  /\ pc' = [pc EXCEPT ![c] = "halt"]
  /\ halting' = [halting EXCEPT ![c] = ch]
  /\ release' = [release EXCEPT ![c] = rel]
  /\ call' = [call EXCEPT ![c].back = back]

\* A finished thread stays joinable, or its slot would leak it.
NeedsJoin_Playing(ch) == joinable[ch] /\ active[ch]
NeedsJoin_Never(ch) == FALSE
NeedsJoin(ch) == joinable[ch]

\* festina_audio_reap_locked: forget that the thread is joinable, drop the
\* lock, join it.
Reap(c, ch) ==
  /\ joins' = [joins EXCEPT ![c] = thread[ch]]
  /\ joinable' = [joinable EXCEPT ![ch] = FALSE]
  /\ lock' = NoOne
  /\ pc' = [pc EXCEPT ![c] = "join"]

StopBeforeJoin_Missing(ch) == stop[ch]
StopBeforeJoin(ch) == stop[ch] \/ active[ch]

Halt(c) ==
  /\ lock = c /\ pc[c] = "halt"
  /\ stop' = [stop EXCEPT ![halting[c]] = StopBeforeJoin(halting[c])]
  /\ IF NeedsJoin(halting[c])
       THEN Reap(c, halting[c])
       ELSE pc' = [pc EXCEPT ![c] = "halted"] /\ UNCHANGED <<joins, joinable, lock>>
  /\ UNCHANGED <<clip, thread, pcm, active, looping, locked, players, call, at, halting,
                 release, rest>>

\* pthread_join returns and the lock is taken again.
Join(c) ==
  /\ pc[c] = "join" /\ tpc[joins[c]] = "done" /\ lock = NoOne
  /\ lock' = c
  /\ joined' = joined \cup {joins[c]}
  /\ joins' = [joins EXCEPT ![c] = 0]
  /\ pc' = [pc EXCEPT ![c] = IF halting[c] = Cap THEN "recheck" ELSE "halted"]
  /\ UNCHANGED <<table, players, call, at, halting, release, limit, nextSeq, freed, ended>>

Halted(c) ==
  /\ lock = c /\ pc[c] = "halted"
  /\ LET ch == halting[c] IN
     /\ stop' = [stop EXCEPT ![ch] = FALSE]
     /\ looping' = [looping EXCEPT ![ch] = FALSE]
     /\ locked' = [locked EXCEPT ![ch] = @ /\ ~release[c]]
     /\ clip' = [clip EXCEPT ![ch] = IF release[c] THEN NoClip ELSE @]
  /\ pc' = [pc EXCEPT ![c] = call[c].back]
  /\ halting' = [halting EXCEPT ![c] = Cap]
  /\ release' = [release EXCEPT ![c] = FALSE]
  /\ UNCHANGED <<lock, thread, pcm, active, joinable, players, call, at, joins, rest>>

-----------------------------------------------------------------------------
(* play and playLoop: festina_audio_play_on, festina_audio_claim_channel.   *)

\* A clip its holder can still name.
Usable(c, a) == Owner[a] = c /\ a \notin freed

Enter(c, kind) ==
  /\ kind \in Uses /\ pc[c] = "user" /\ lock = NoOne /\ ~ended
  /\ lock' = c

\* Room for another playback within MaxPlays.
InBound == nextSeq + Cardinality({c \in Caller : call[c].kind \in Playing}) <= MaxPlays

Play(c, kind, a) ==
  /\ kind \in {"play", "playLoop"} /\ InBound /\ Enter(c, kind) /\ Usable(c, a)
  /\ call' = [call EXCEPT ![c] = [NoCall EXCEPT !.kind = kind, !.clip = a, !.limit = limit]]
  /\ pc' = [pc EXCEPT ![c] = "below"]
  /\ at' = [at EXCEPT ![c] = 0]
  /\ UNCHANGED <<table, players, halting, release, joins, rest>>

PlayOn(c, kind, a, n) ==
  /\ Explicit(kind) /\ InBound /\ Enter(c, kind) /\ Usable(c, a)
  /\ pc' = [pc EXCEPT ![c] = "halt"]
  /\ halting' = [halting EXCEPT ![c] = ClampChannel(n)]
  /\ release' = [release EXCEPT ![c] = TRUE]
  /\ call' = [call EXCEPT ![c] = [kind |-> kind, clip |-> a, channel |-> ClampChannel(n),
                                   limit |-> limit, back |-> "open"]]
  /\ at' = [at EXCEPT ![c] = ClampChannel(n)]
  /\ UNCHANGED <<table, players, joins, rest>>

Idle(ch) == ~active[ch] /\ ~locked[ch]
\* The channels that may be cut off for another sound.
Victims_Locked(S) == {ch \in S : active[ch]}
Victims(S) == {ch \in S : active[ch] /\ ~locked[ch]}
Oldest(S)  == CHOOSE ch \in S : \A x \in S : thread[ch] <= thread[x]
First(S)   == CHOOSE ch \in S : \A x \in S : ch <= x

\* The idle channels the current scan has still to visit.
Candidates(c) ==
  {ch \in Channel : ch >= at[c] /\ Idle(ch) /\ (pc[c] = "below" => ch < call[c].limit)}

\* An idle channel: joined first if its last thread has not been.
TakeIdle(c) ==
  /\ lock = c /\ pc[c] \in {"below", "above"} /\ Candidates(c) # {}
  /\ LET ch == First(Candidates(c)) IN
     /\ at' = [at EXCEPT ![c] = ch]
     /\ IF NeedsJoin(ch)
          THEN Reap(c, ch)
          ELSE pc' = [pc EXCEPT ![c] = "open"] /\ UNCHANGED <<joins, joinable, lock>>
  /\ UNCHANGED <<clip, thread, pcm, active, stop, looping, locked, players, call, halting,
                 release, rest>>

\* Another caller may have claimed the channel during the join.
Recheck(c) ==
  /\ lock = c /\ pc[c] = "recheck"
  /\ IF Idle(at[c])
       THEN pc' = [pc EXCEPT ![c] = "open"] /\ at' = at
       ELSE /\ pc' = [pc EXCEPT ![c] = IF at[c] < call[c].limit THEN "below" ELSE "above"]
            /\ at' = [at EXCEPT ![c] = @ + 1]
  /\ UNCHANGED <<lock, table, players, call, halting, release, joins, rest>>

\* Nothing idle below the limit: cut off the channel playing longest.
Steal(c) ==
  /\ lock = c /\ pc[c] = "below" /\ Candidates(c) = {}
  /\ LET S == Victims({ch \in Channel : ch < call[c].limit}) IN
     IF S # {}
       THEN at' = [at EXCEPT ![c] = Oldest(S)] /\ HaltNext(c, Oldest(S), FALSE, "open")
       ELSE /\ at' = [at EXCEPT ![c] = call[c].limit]
            /\ pc' = [pc EXCEPT ![c] = "above"]
            /\ UNCHANGED <<halting, release, call>>
  /\ UNCHANGED <<lock, table, players, joins, rest>>

\* play() returns -1.
Drop(c) ==
  /\ lock = c /\ pc[c] = "above" /\ Candidates(c) = {}
  /\ lock' = NoOne
  /\ pc' = [pc EXCEPT ![c] = "user"]
  /\ call' = [call EXCEPT ![c] = NoCall]
  /\ at' = [at EXCEPT ![c] = 0]
  /\ UNCHANGED <<table, players, halting, release, joins, rest>>

\* The device gives a stream: fill the channel in and start its thread.
Start(c) ==
  /\ lock = c /\ pc[c] = "open"
  /\ LET ch == at[c]  t == nextSeq IN
     /\ clip' = [clip EXCEPT ![ch] = call[c].clip]
     /\ thread' = [thread EXCEPT ![ch] = t]
     /\ pcm' = [pcm EXCEPT ![ch] = t]
     /\ active' = [active EXCEPT ![ch] = TRUE]
     /\ joinable' = [joinable EXCEPT ![ch] = TRUE]
     /\ stop' = [stop EXCEPT ![ch] = FALSE]
     /\ looping' = [looping EXCEPT ![ch] = Loops(call[c].kind)]
     /\ locked' = [locked EXCEPT ![ch] = Loops(call[c].kind)]
     /\ open' = open \cup {t}
     /\ tpc' = [tpc EXCEPT ![t] = "start"]
     /\ on' = [on EXCEPT ![t] = ch]
  /\ nextSeq' = nextSeq + 1
  /\ lock' = NoOne
  /\ pc' = [pc EXCEPT ![c] = "user"]
  /\ call' = [call EXCEPT ![c] = NoCall]
  /\ at' = [at EXCEPT ![c] = 0]
  /\ UNCHANGED <<tclip, frame, halting, release, joins, limit, freed, joined, ended>>

\* It refuses another stream, for the ones that play or for another program's:
\* festina_audio_free_oldest_locked cuts a
\* playing channel off and the open is tried again; without one the program fails.
Refused(c) ==
  /\ lock = c /\ pc[c] = "open"
  /\ LET S == Victims(Channel \ {at[c]}) IN
     IF S # {}
       THEN HaltNext(c, Oldest(S), FALSE, "open") /\ UNCHANGED <<lock, ended>>
       ELSE lock' = NoOne /\ ended' = TRUE /\ UNCHANGED <<pc, halting, release, call>>
  /\ UNCHANGED <<table, players, at, joins, limit, nextSeq, freed, joined>>

-----------------------------------------------------------------------------
(* stop, stopAudioPlayer and the release of a clip.                         *)

Begin(c, kind, a, from) ==
  /\ call' = [call EXCEPT ![c] = [NoCall EXCEPT !.kind = kind, !.clip = a]]
  /\ pc' = [pc EXCEPT ![c] = "walk"]
  /\ at' = [at EXCEPT ![c] = from]
  /\ UNCHANGED <<clip, thread, pcm, active, joinable, looping, locked, players, halting,
                 release, joins, rest>>

\* festina_audio_stop_clip; a clip that plays nowhere is a no-op.
StopClip(c, a) ==
  /\ Enter(c, "stop") /\ Usable(c, a)
  /\ \E ch \in Channel : clip[ch] = a /\ active[ch]
  /\ stop' = [ch \in Channel |-> stop[ch] \/ (clip[ch] = a /\ active[ch])]
  /\ Begin(c, "stop", a, 0)

\* festina_audio_free, on the last reference to a clip.
Free(c, a) ==
  /\ Enter(c, "free") /\ Usable(c, a)
  /\ stop' = [ch \in Channel |-> stop[ch] \/ clip[ch] = a]
  /\ Begin(c, "free", a, 0)

\* festina_stop_audio_player with a channel ...
StopPlayer(n) ==
  /\ n >= 0 /\ Enter(Main, "stopPlayer")
  /\ pc' = [pc EXCEPT ![Main] = "halt"]
  /\ halting' = [halting EXCEPT ![Main] = ClampChannel(n)]
  /\ release' = [release EXCEPT ![Main] = TRUE]
  /\ call' = [call EXCEPT ![Main] = [NoCall EXCEPT !.kind = "stopPlayer", !.back = "walk",
                                                   !.channel = ClampChannel(n)]]
  /\ at' = [at EXCEPT ![Main] = Cap]
  /\ UNCHANGED <<table, players, joins, rest>>

\* ... and with none: every channel.
StopAll ==
  /\ Enter(Main, "stopAll")
  /\ stop' = [ch \in Channel |-> TRUE]
  /\ Begin(Main, "stopAll", NoClip, 0)

\* The channels the walk of a stop has still to halt.
ToHalt_Once(c) == {}
ToHalt_Every(c) == {ch \in Channel : ch >= at[c]}
ToHalt(c) ==
  {ch \in Channel : ch >= at[c] /\ (call[c].kind = "stopAll" \/ clip[ch] = call[c].clip)}

Walk(c) ==
  /\ lock = c /\ pc[c] = "walk" /\ ToHalt(c) # {}
  /\ LET ch == First(ToHalt(c)) IN
     at' = [at EXCEPT ![c] = ch + 1] /\ HaltNext(c, ch, TRUE, "walk")
  /\ UNCHANGED <<lock, table, players, joins, rest>>

\* The call returns; festina_audio_free releases the samples.
Finish(c) ==
  /\ lock = c /\ pc[c] = "walk" /\ ToHalt(c) = {}
  /\ lock' = NoOne
  /\ freed' = IF call[c].kind = "free" THEN freed \cup {call[c].clip} ELSE freed
  /\ pc' = [pc EXCEPT ![c] = "user"]
  /\ call' = [call EXCEPT ![c] = NoCall]
  /\ at' = [at EXCEPT ![c] = 0]
  /\ UNCHANGED <<table, players, halting, release, joins, limit, nextSeq, joined, ended>>

\* festina_set_max_audio_players, without the lock.
SetMax(n) ==
  /\ "setMax" \in Uses /\ pc[Main] = "user" /\ ~ended
  /\ limit' = ClampLimit(n)
  /\ UNCHANGED <<lock, table, players, callers, nextSeq, freed, joined, ended>>

-----------------------------------------------------------------------------
(* festina_audio_thread_main.                                               *)

ThreadStarts(t) ==
  /\ tpc[t] = "start"
  /\ tclip' = [tclip EXCEPT ![t] = clip[on[t]]]
  /\ tpc' = [tpc EXCEPT ![t] = "check"]
  /\ UNCHANGED <<lock, table, on, frame, open, callers, rest>>

\* Between chunks: stop, end, start over or go on.
Check(t) ==
  /\ tpc[t] = "check" /\ lock = NoOne /\ tclip[t] \in Clip
  /\ LET atEnd == frame[t] >= Length[tclip[t]]
         goesOn == looping[on[t]] /\ Length[tclip[t]] > 0
     IN /\ tpc' = [tpc EXCEPT ![t] = IF stop[on[t]] \/ (atEnd /\ ~goesOn) THEN "exit"
                                     ELSE IF atEnd THEN "check" ELSE "write"]
        /\ frame' = [frame EXCEPT ![t] = IF atEnd /\ ~stop[on[t]] /\ goesOn THEN 0 ELSE @]
  /\ UNCHANGED <<lock, table, on, tclip, open, callers, rest>>

\* A chunk is written, none of it after a recovered hiccup, or the device fails.
Write(t) ==
  /\ tpc[t] = "write"
  /\ \/ \E n \in {0, 1} : /\ frame' = [frame EXCEPT ![t] = @ + n]
                          /\ tpc' = [tpc EXCEPT ![t] = "check"]
     \/ tpc' = [tpc EXCEPT ![t] = "exit"] /\ frame' = frame
  /\ UNCHANGED <<lock, table, on, tclip, open, callers, rest>>

ActiveAfterExit_Kept(t) == TRUE
ActiveAfterExit(t) == FALSE

ThreadExits(t) ==
  /\ tpc[t] = "exit" /\ lock = NoOne
  /\ LET ch == on[t] IN
     /\ open' = open \ {pcm[ch]}
     /\ pcm' = [pcm EXCEPT ![ch] = 0]
     /\ active' = [active EXCEPT ![ch] = ActiveAfterExit(t)]
     /\ looping' = [looping EXCEPT ![ch] = FALSE]
  /\ tpc' = [tpc EXCEPT ![t] = "done"]
  /\ frame' = [frame EXCEPT ![t] = 0]
  /\ tclip' = [tclip EXCEPT ![t] = NoClip]
  /\ on' = [on EXCEPT ![t] = 0]
  /\ UNCHANGED <<lock, clip, thread, joinable, stop, locked, callers, rest>>

-----------------------------------------------------------------------------
Init ==
  /\ lock = NoOne /\ limit = Default /\ nextSeq = 1
  /\ clip = [ch \in Channel |-> NoClip]
  /\ thread = [ch \in Channel |-> 0]
  /\ pcm = [ch \in Channel |-> 0]
  /\ active = [ch \in Channel |-> FALSE]
  /\ joinable = [ch \in Channel |-> FALSE]
  /\ stop = [ch \in Channel |-> FALSE]
  /\ looping = [ch \in Channel |-> FALSE]
  /\ locked = [ch \in Channel |-> FALSE]
  /\ tpc = [t \in Playback |-> "none"]
  /\ on = [t \in Playback |-> 0]
  /\ tclip = [t \in Playback |-> NoClip]
  /\ frame = [t \in Playback |-> 0]
  /\ open = {}
  /\ pc = [c \in Caller |-> "user"]
  /\ call = [c \in Caller |-> NoCall]
  /\ at = [c \in Caller |-> 0]
  /\ halting = [c \in Caller |-> Cap]
  /\ release = [c \in Caller |-> FALSE]
  /\ joins = [c \in Caller |-> 0]
  /\ freed = {} /\ joined = {} /\ ended = FALSE

CallerCalls(c) ==
  \/ \E a \in Clip : \/ \E kind \in Calls : \/ Play(c, kind, a)
                                            \/ \E n \in Numbers : PlayOn(c, kind, a, n)
                     \/ StopClip(c, a)
                     \/ Free(c, a)
MainCalls == (\E n \in Numbers : StopPlayer(n)) \/ StopAll \/ \E n \in Limits : SetMax(n)
CallerStep(c) ==
  /\ ~ended
  /\ \/ Halt(c) \/ Join(c) \/ Halted(c)
     \/ TakeIdle(c) \/ Recheck(c) \/ Steal(c) \/ Drop(c) \/ Start(c) \/ Refused(c)
     \/ Walk(c) \/ Finish(c)
Ended == ended /\ UNCHANGED vars
PlayerStep(t) == ~ended /\ (ThreadStarts(t) \/ Check(t) \/ Write(t) \/ ThreadExits(t))

Next ==
  \/ \E c \in Caller : CallerCalls(c) \/ CallerStep(c)
  \/ MainCalls
  \/ \E t \in Playback : PlayerStep(t)
  \/ Ended

Spec == Init /\ [][Next]_vars

\* Threads are scheduled, the lock is granted, and a device takes or refuses
\* what is written to it: festina_pcm_write blocks only until it has room.
Fairness ==
  /\ \A c \in Caller : WF_vars(CallerStep(c))
  /\ \A t \in Playback : WF_vars(PlayerStep(t))
FairSpec == Spec /\ Fairness
-----------------------------------------------------------------------------
TableTyped ==
  /\ clip \in [Channel -> Clip \cup {NoClip}]
  /\ thread \in [Channel -> 0..MaxPlays] /\ pcm \in [Channel -> 0..MaxPlays]
  /\ active \in [Channel -> BOOLEAN] /\ joinable \in [Channel -> BOOLEAN]
  /\ stop \in [Channel -> BOOLEAN] /\ looping \in [Channel -> BOOLEAN]
  /\ locked \in [Channel -> BOOLEAN]

PlayersTyped ==
  /\ tpc \in [Playback -> {"none", "start", "check", "write", "exit", "done"}]
  /\ on \in [Playback -> Channel] /\ tclip \in [Playback -> Clip \cup {NoClip}]
  /\ frame \in [Playback -> Nat] /\ open \subseteq Playback

CallersTyped ==
  /\ pc \in [Caller -> {"user", "below", "above", "recheck", "open", "walk", "halt", "halted",
                        "join"}]
  /\ call \in [Caller -> CallRecord] /\ at \in [Caller -> 0..Cap]
  /\ halting \in [Caller -> 0..Cap] /\ release \in [Caller -> BOOLEAN]
  /\ joins \in [Caller -> 0..MaxPlays]

RestTyped ==
  /\ lock \in Caller \cup {NoOne} /\ limit \in 1..Cap /\ nextSeq \in 1..MaxPlays + 1
  /\ freed \subseteq Clip /\ joined \subseteq Playback /\ ended \in BOOLEAN

TypeOK == TableTyped /\ PlayersTyped /\ CallersTyped /\ RestTyped

\* No thread streams samples that were freed, and none is about to.
StreamedClipAlive ==
  \A t \in Playback :
    /\ tpc[t] = "start" => clip[on[t]] \notin freed
    /\ tpc[t] \in {"check", "write"} => tclip[t] \notin freed

\* A channel is active exactly while one thread, the last it started, plays on it
\* through a device of its own, and no other device is open.
OneStreamPerChannel ==
  /\ \A ch \in Channel :
       LET players_ == {t \in Playback : Running(t) /\ on[t] = ch}
       IN players_ = IF active[ch] THEN {thread[ch]} ELSE {}
  /\ open = {thread[ch] : ch \in {x \in Channel : active[x]}}
  /\ \A ch \in Channel : active[ch] => pcm[ch] = thread[ch]

\* Every thread that was created has been joined, is being joined or can still
\* be: its channel is joinable and remembers it.
NoThreadLost ==
  \A t \in 1..nextSeq - 1 :
    \/ t \in joined
    \/ \E c \in Caller : joins[c] = t
    \/ \E ch \in Channel : joinable[ch] /\ thread[ch] = t

\* The calls that may take a reserved channel: those that name it, name the clip it was
\* given, or name every channel.
MayTake(c, ch) ==
  \/ (Explicit(call[c].kind) \/ call[c].kind = "stopPlayer") /\ call[c].channel = ch
  \/ call[c].kind \in {"stop", "free"} /\ call[c].clip = clip[ch]
  \/ call[c].kind = "stopAll"

\* A reserved channel is stopped or released only by a call that names it or its clip, or
\* by a stopAudioPlayer() that names them all.
ReservedKept ==
  [][\A ch \in Channel :
       locked[ch] /\ (~locked'[ch] \/ (stop'[ch] /\ ~stop[ch]))
         => \E c \in Caller : MayTake(c, ch) \/ MayTake(c, ch)']_vars

\* The clip a running thread streams, or will when it is scheduled for the first time.
Streaming(t) == IF tpc[t] = "start" THEN clip[on[t]] ELSE tclip[t]

\* The playbacks that a stop or a release is to end.
Ends(c, t) ==
  \/ call[c].kind \in {"stop", "free"} /\ Streaming(t) = call[c].clip
  \/ call[c].kind = "stopPlayer" /\ on[t] = call[c].channel
  \/ call[c].kind = "stopAll"

\* When a stop or a release returns, no thread plays what it names any more, one that has
\* not run yet included: the clip, the channel, or anything at all.
StopReturnsIdle ==
  [][\A c \in Caller :
       pc[c] = "walk" /\ pc'[c] = "user" =>
         \A t \in Playback : Running(t) => ~Ends(c, t)]_vars

\* Every call returns, though it may join threads that loop, or the program ends.
CallReturns == \A c \in Caller : pc[c] # "user" ~> pc[c] = "user" \/ ended
=============================================================================
