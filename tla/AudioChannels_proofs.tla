------------------------- MODULE AudioChannels_proofs -------------------------
(***************************************************************************)
(* The audio channels under one calling thread, which is what the comment  *)
(* of g_max_audio_players takes for granted: whatever the size of the      *)
(* table, the clips, and the calls main makes in whatever order, no freed  *)
(* clip is streamed, no playback thread is lost, each channel has one      *)
(* stream, a stop stops, and a reserved channel stays reserved.  With two  *)
(* calling threads none of this holds (run audio_clip_freed).              *)
(*                                                                         *)
(* The argument: main drops the lock in one place, the join.  What it      *)
(* knows of its channel is then: nobody else will claim it, its thread is  *)
(* the one being joined (Joinable), and when that one is done, the channel *)
(* is not active any more (Streams).  So a channel is given a new thread   *)
(* only when the last one has ended and been joined.                       *)
(***************************************************************************)
EXTENDS AudioChannels, FiniteSetTheorems, WellFoundedInduction, TLAPS

-----------------------------------------------------------------------------
(* The inductive invariant.                                                 *)

Stopping == {"stop", "free", "stopPlayer", "stopAll"}

\* Main is inside festina_audio_halt_locked, with the lock or waiting for a thread.
Halts == pc[Main] \in {"halt", "halted"} \/ (pc[Main] = "join" /\ halting[Main] # Cap)

\* Where main is says what it does and which of its locals hold something.
Places ==
  /\ pc[Main] = "user" => call[Main] = NoCall
  /\ pc[Main] \in {"below", "above", "recheck", "open"} => call[Main].kind \in Playing
  /\ pc[Main] = "join" /\ halting[Main] = Cap => call[Main].kind \in Playing
  /\ pc[Main] = "walk" => call[Main].kind \in Stopping
  /\ Halts => \/ call[Main].back = "open" /\ call[Main].kind \in Playing
              \/ call[Main].back = "walk" /\ call[Main].kind \in Stopping /\ release[Main]
  /\ pc[Main] \notin {"halt", "halted", "join"} => halting[Main] = Cap
  /\ pc[Main] \in {"halt", "halted"} => halting[Main] \in Channel
  /\ (pc[Main] \in {"recheck", "open", "join"} \/ Halts) /\ call[Main].kind \in Playing =>
       at[Main] \in Channel
  /\ pc[Main] # "join" => joins[Main] = 0
  /\ call[Main].kind \in Playing => nextSeq <= MaxPlays /\ call[Main].clip \in Clip \ freed
  /\ call[Main].kind \in {"stop", "free"} => call[Main].clip \in Clip

\* A channel that is active and the thread that runs on it name each other.
Streams ==
  /\ \A ch \in Channel : active[ch] =>
       /\ thread[ch] \in Playback /\ Running(thread[ch])
       /\ on[thread[ch]] = ch /\ pcm[ch] = thread[ch]
  /\ \A t \in Playback : Running(t) => active[on[t]] /\ thread[on[t]] = t
  /\ \A t \in Playback : tpc[t] \in {"check", "write", "exit"} => tclip[t] = clip[on[t]]
  /\ \A t \in Playback : tpc[t] \in {"none", "start", "done"} => tclip[t] = NoClip
  /\ \A t \in Playback : t >= nextSeq => tpc[t] = "none"
  /\ open = {thread[ch] : ch \in {x \in Channel : active[x]}}

\* The channel whose thread main joins.
Joining == IF halting[Main] = Cap THEN at[Main] ELSE halting[Main]

\* A channel whose thread runs is joinable, or main joins it now; a channel that is about
\* to be given a new thread has none to join.
Joinable ==
  /\ \A ch \in Channel : active[ch] =>
       joinable[ch] \/ (pc[Main] = "join" /\ joins[Main] = thread[ch])
  /\ \A ch \in Channel : joinable[ch] => thread[ch] \in Playback /\ thread[ch] < nextSeq
  /\ pc[Main] = "join" =>
       /\ Joining \in Channel /\ joins[Main] = thread[Joining] /\ ~joinable[Joining]
       /\ joins[Main] \in Playback /\ joins[Main] < nextSeq
  /\ pc[Main] = "halted" => ~joinable[halting[Main]]
  /\ pc[Main] \in {"recheck", "open"} => ~joinable[at[Main]]
  /\ Halts /\ call[Main].kind \in Playing =>
       at[Main] = halting[Main] \/ (~joinable[at[Main]] /\ ~active[at[Main]])

\* No channel keeps a clip that was freed.
Clips == \A ch \in Channel : clip[ch] \notin freed

\* What a stop or a release has walked past is done, but for the channel it halts now.
Walked ==
  /\ pc[Main] = "walk" \/ Halts =>
       \A ch \in Channel :
         ch < at[Main] /\ ~(Halts /\ ch = halting[Main]) =>
           /\ call[Main].kind \in {"stop", "free"} => clip[ch] # call[Main].clip
           /\ call[Main].kind = "stopAll" => ~active[ch]

\* A reserved channel is halted, or played on, only by a call that names it.
Reserved ==
  /\ Halts => IF release[Main]
                THEN \/ call[Main].kind \in Stopping
                     \/ Explicit(call[Main].kind) /\ at[Main] = halting[Main]
                ELSE ~locked[halting[Main]]
  /\ (pc[Main] = "open" \/ Halts) /\ call[Main].kind \in {"play", "playLoop"} =>
       ~locked[at[Main]]

IInv ==
  /\ Caller = {Main}
  /\ TypeOK /\ Places /\ Streams /\ Joinable /\ NoThreadLost /\ Clips /\ Walked /\ Reserved

-----------------------------------------------------------------------------
(* The constants, and the choice of a channel.                              *)

LEMMA Bounds ==
  /\ Cap \in Nat /\ Cap > 0 /\ MaxPlays \in Nat /\ Default \in 1..Cap
  /\ Channel \subseteq Nat /\ Channel \subseteq 0..Cap /\ Cap \notin Channel
  /\ \A ch \in Channel : ch + 1 \in 0..Cap
  /\ 0 \in Channel /\ Playback \subseteq 0..MaxPlays /\ 0 \notin Playback
  /\ Playback \subseteq Nat
  /\ Main \in Caller /\ NoOne \notin Caller /\ NoClip \notin Clip
BY AudioAssumption DEF AudioAssumption, Channel, Playback

LEMMA Least == ASSUME NEW S \in SUBSET Nat, S # {}
               PROVE  \E x \in S : \A y \in S : x <= y
<1>1. IsWellFoundedOn(OpToRel(<, Nat), Nat)
  BY NatLessThanWellFounded
<1>2. PICK x \in S : \A y \in S : ~(<<y, x>> \in OpToRel(<, Nat))
  BY <1>1, WFMin
<1>3. \A y \in S : ~(y < x)
  BY <1>2, Zenon DEF OpToRel
<1>4. QED
  BY <1>3, SMT

LEMMA FirstIn == ASSUME NEW S \in SUBSET Channel, S # {} PROVE First(S) \in S
<1>1. S \in SUBSET Nat
  BY Bounds
<1>2. \E x \in S : \A y \in S : x <= y
  BY <1>1, Least
<1>3. QED
  BY <1>2 DEF First

LEMMA OldestIn == ASSUME thread \in [Channel -> 0..MaxPlays], NEW S \in SUBSET Channel, S # {}
                  PROVE  Oldest(S) \in S
<1> DEFINE T == {thread[ch] : ch \in S}
<1>1. T \in SUBSET Nat /\ T # {}
  <2>1. \A ch \in S : thread[ch] \in Nat
    BY Bounds
  <2>2. PICK ch \in S : TRUE
    OBVIOUS
  <2>3. QED
    BY <2>1, <2>2
<1>2. \E x \in T : \A y \in T : x <= y
  <2> HIDE DEF T
  <2> QED BY <1>1, Least
<1>3. \E ch \in S : \A x \in S : thread[ch] <= thread[x]
  BY <1>2
<1>4. QED
  BY <1>3 DEF Oldest

-----------------------------------------------------------------------------
(* Initial states.                                                          *)

LEMMA InitInv == Caller = {Main} /\ Init => IInv
<1> SUFFICES ASSUME Caller = {Main}, Init PROVE IInv
  OBVIOUS
<1>1. TypeOK
  <2>1. NoCall \in CallRecord
    BY Bounds DEF NoCall, CallRecord
  <2>2. TableTyped
    BY Bounds DEF Init, TableTyped
  <2>3. PlayersTyped
    BY Bounds DEF Init, PlayersTyped
  <2>4. CallersTyped
    BY <2>1, Bounds DEF Init, CallersTyped
  <2>5. RestTyped
    <3>1. ended \in BOOLEAN
      BY Zenon DEF Init
    <3>2. QED
      BY <3>1, Bounds DEF Init, RestTyped
  <2>6. QED
    BY <2>2, <2>3, <2>4, <2>5 DEF TypeOK
<1>2. Places /\ Clips
  BY Bounds DEF Init, Places, Halts, NoCall, Playing, Clips
<1>3. Streams
  BY Bounds DEF Init, Streams, Running
<1>4. Joinable /\ NoThreadLost
  BY Bounds DEF Init, Joinable, Halts, NoThreadLost
<1>5. Walked /\ Reserved
  BY Bounds DEF Init, Walked, Reserved, Halts
<1>6. QED
  BY <1>1, <1>2, <1>3, <1>4, <1>5 DEF IInv

-----------------------------------------------------------------------------
(* Halting a channel.                                                       *)

LEMMA HaltInv == ASSUME IInv, Halt(Main) PROVE IInv'
<1> DEFINE h == halting[Main]
<1>1. /\ Caller = {Main} /\ Main \in Caller /\ h \in Channel /\ Halts
      /\ pc[Main] = "halt" /\ h # Cap
  BY Bounds DEF IInv, Halt, Places, Halts
<1>2. TypeOK'
  <2>1. TableTyped'
    BY <1>1 DEF IInv, TypeOK, TableTyped, Halt, Reap, StopBeforeJoin
  <2>2. CallersTyped'
    BY <1>1 DEF IInv, TypeOK, TableTyped, CallersTyped, Halt, Reap
  <2>3. PlayersTyped' /\ RestTyped'
    BY <1>1 DEF IInv, TypeOK, PlayersTyped, RestTyped, Halt, Reap, players, rest
  <2>4. QED
    BY <2>1, <2>2, <2>3 DEF TypeOK
<1>3. /\ pc'[Main] = IF joinable[h] THEN "join" ELSE "halted"
      /\ joins'[Main] = IF joinable[h] THEN thread[h] ELSE joins[Main]
      /\ \A ch \in Channel : joinable'[ch] <=> joinable[ch] /\ ch # h
  BY <1>1 DEF IInv, TypeOK, TableTyped, CallersTyped, Halt, Reap, NeedsJoin
<1>4. UNCHANGED <<clip, thread, pcm, active, looping, locked, players, call, at, halting,
                  release, rest>>
  BY DEF Halt
<1>5. Halts'
  BY <1>1, <1>3, <1>4 DEF Halts
<1>6. Places'
  BY <1>1, <1>3, <1>4, <1>5 DEF IInv, Places, rest
<1>7. Streams'
  BY <1>4 DEF IInv, Streams, players, rest, Running
<1>8. Joinable'
  BY <1>1, <1>3, <1>4, <1>5, Bounds DEF IInv, Joinable, Joining, Places, rest
<1>9. NoThreadLost'
  <2> SUFFICES ASSUME NEW t \in 1..nextSeq - 1
               PROVE  \/ t \in joined \/ joins'[Main] = t
                      \/ \E ch \in Channel : joinable'[ch] /\ thread[ch] = t
    BY <1>1, <1>4 DEF NoThreadLost, rest
  <2>1. joins[Main] = 0
    BY <1>1 DEF IInv, Places
  <2>2. t \in joined \/ \E ch \in Channel : joinable[ch] /\ thread[ch] = t
    BY <1>1, <2>1 DEF IInv, NoThreadLost
  <2>3. QED
    BY <1>1, <1>3, <2>2
<1>10. Clips' /\ Walked' /\ Reserved'
  BY <1>1, <1>3, <1>4, <1>5 DEF IInv, Clips, Walked, Reserved, rest
<1>11. QED
  BY <1>2, <1>6, <1>7, <1>8, <1>9, <1>10 DEF IInv

LEMMA JoinInv == ASSUME IInv, Join(Main) PROVE IInv'
<1> DEFINE h == halting[Main]
<1>1. /\ Caller = {Main} /\ Main \in Caller /\ pc[Main] = "join"
      /\ joins[Main] \in Playback /\ tpc[joins[Main]] = "done"
  BY Bounds DEF IInv, Join, Joinable
<1>2. TypeOK'
  <2>1. TableTyped' /\ PlayersTyped'
    BY DEF IInv, TypeOK, TableTyped, PlayersTyped, Join, table, players
  <2>2. CallersTyped'
    BY <1>1, Bounds DEF IInv, TypeOK, CallersTyped, Join
  <2>3. RestTyped'
    BY <1>1 DEF IInv, TypeOK, RestTyped, Join
  <2>4. QED
    BY <2>1, <2>2, <2>3 DEF TypeOK
<1>3. /\ pc'[Main] = IF h = Cap THEN "recheck" ELSE "halted"
      /\ joins'[Main] = 0 /\ joined' = joined \cup {joins[Main]}
  BY <1>1 DEF IInv, TypeOK, CallersTyped, Join
<1>4. UNCHANGED <<table, players, call, at, halting, release, limit, nextSeq, freed, ended>>
  BY DEF Join
<1>5. Halts' <=> Halts
  BY <1>1, <1>3, <1>4 DEF Halts
<1>6. ~active[Joining] /\ Joining \in Channel
  BY <1>1 DEF IInv, Joinable, Streams, Running
<1>7. Places'
  BY <1>1, <1>3, <1>4, <1>5, <1>6 DEF IInv, Places, Joining, Halts
<1>8. Streams' /\ Clips'
  BY <1>4 DEF IInv, Streams, players, table, Running, Clips
<1>9. Joinable'
  <2>1. \A ch \in Channel : active[ch] => joinable[ch]
    BY <1>1 DEF IInv, Joinable, Streams, Running
  <2>2. QED
    BY <1>1, <1>3, <1>4, <1>5, <1>6, <2>1, Bounds DEF IInv, Joinable, Joining, Halts, table
<1>10. NoThreadLost'
  BY <1>1, <1>3, <1>4, Bounds DEF IInv, NoThreadLost, table
<1>11. Walked' /\ Reserved'
  BY <1>1, <1>3, <1>4, <1>5 DEF IInv, Walked, Reserved, Halts, table
<1>12. QED
  BY <1>2, <1>7, <1>8, <1>9, <1>10, <1>11 DEF IInv

LEMMA HaltedInv == ASSUME IInv, Halted(Main) PROVE IInv'
<1> DEFINE h == halting[Main]
<1>1. /\ Caller = {Main} /\ Main \in Caller /\ h \in Channel /\ Halts
      /\ pc[Main] = "halted" /\ h # Cap /\ ~joinable[h] /\ ~active[h]
  BY Bounds DEF IInv, Halted, Places, Halts, Joinable
<1>2. TypeOK'
  <2>1. TableTyped'
    BY <1>1 DEF IInv, TypeOK, TableTyped, CallersTyped, Halted
  <2>2. CallersTyped'
    BY <1>1, Bounds DEF IInv, TypeOK, CallersTyped, Halted, Places
  <2>3. PlayersTyped' /\ RestTyped'
    BY <1>1 DEF IInv, TypeOK, PlayersTyped, RestTyped, Halted, players, rest
  <2>4. QED
    BY <2>1, <2>2, <2>3 DEF TypeOK
<1>3. /\ pc'[Main] = call[Main].back /\ halting'[Main] = Cap /\ release'[Main] = FALSE
      /\ \A ch \in Channel : /\ locked'[ch] <=> locked[ch] /\ (ch = h => ~release[Main])
                             /\ clip'[ch] = IF ch = h /\ release[Main] THEN NoClip ELSE clip[ch]
  BY <1>1 DEF IInv, TypeOK, TableTyped, CallersTyped, Halted
<1>4. UNCHANGED <<lock, thread, pcm, active, joinable, players, call, at, joins, rest>>
  BY DEF Halted
<1>5. pc'[Main] \in {"open", "walk"} /\ ~Halts'
  BY <1>1, <1>3 DEF IInv, Places, Halts
<1>6. Places'
  BY <1>1, <1>3, <1>4, <1>5 DEF IInv, Places, rest
<1>7. Streams'
  <2>1. \A t \in Playback : Running(t) => on[t] # h
    BY <1>1 DEF IInv, Streams
  <2>2. \A t \in Playback : tpc[t] \in {"check", "write", "exit"} => clip'[on[t]] = clip[on[t]]
    BY <1>3, <2>1 DEF IInv, TypeOK, PlayersTyped, Running
  <2>3. QED
    BY <1>4, <2>2 DEF IInv, Streams, players, rest, Running
<1>8. Joinable'
  BY <1>1, <1>3, <1>4, <1>5, Bounds DEF IInv, Joinable, Places, rest
<1>9. NoThreadLost'
  BY <1>1, <1>3, <1>4, Bounds DEF IInv, NoThreadLost, rest
<1>10. Clips'
  BY <1>3, <1>4, Bounds DEF IInv, Clips, rest, TypeOK, RestTyped
<1>11. Walked'
  <2> SUFFICES ASSUME pc'[Main] = "walk", NEW ch \in Channel, ch < at[Main]
               PROVE  /\ call[Main].kind \in {"stop", "free"} => clip'[ch] # call[Main].clip
                      /\ call[Main].kind = "stopAll" => ~active[ch]
    BY <1>4, <1>5 DEF Walked
  <2>1. call[Main].kind \in {"stop", "free"} => call[Main].clip # NoClip
    BY Bounds DEF IInv, Places
  <2>2. release[Main]
    BY <1>1, <1>3 DEF IInv, Places
  <2>3. CASE ch = h
    BY <1>1, <1>3, <2>1, <2>2, <2>3
  <2>4. CASE ch # h
    BY <1>1, <1>3, <2>4 DEF IInv, Walked
  <2>5. QED
    BY <2>3, <2>4
<1>12. Reserved'
  BY <1>1, <1>3, <1>4, <1>5 DEF IInv, Reserved, Places
<1>13. QED
  BY <1>2, <1>6, <1>7, <1>8, <1>9, <1>10, <1>11, <1>12 DEF IInv

-----------------------------------------------------------------------------
(* Claiming a channel.                                                      *)

LEMMA TakeIdleInv == ASSUME IInv, TakeIdle(Main) PROVE IInv'
<1> DEFINE h == First(Candidates(Main))
<1>1. h \in Channel /\ Idle(h)
  <2>1. Candidates(Main) \in SUBSET Channel /\ Candidates(Main) # {}
    BY DEF TakeIdle, Candidates
  <2>2. h \in Candidates(Main)
    BY <2>1, FirstIn
  <2>3. QED
    BY <2>2 DEF Candidates
<1> HIDE DEF h
<1>2. /\ Caller = {Main} /\ Main \in Caller /\ h # Cap /\ ~active[h] /\ ~locked[h]
      /\ pc[Main] \in {"below", "above"} /\ ~Halts /\ halting[Main] = Cap
      /\ joins[Main] = 0 /\ call[Main].kind \in Playing
  BY <1>1, Bounds DEF IInv, TakeIdle, Idle, Halts, Places
<1>3. /\ at' = [at EXCEPT ![Main] = h]
      /\ pc' = [pc EXCEPT ![Main] = IF joinable[h] THEN "join" ELSE "open"]
      /\ joins' = [joins EXCEPT ![Main] = IF joinable[h] THEN thread[h] ELSE @]
      /\ joinable' = [joinable EXCEPT ![h] = FALSE]
      /\ lock' \in {lock, NoOne}
  <2>1. CASE joinable[h]
    BY <2>1 DEF TakeIdle, h, NeedsJoin, Reap
  <2>2. CASE ~joinable[h]
    <3>1. /\ at' = [at EXCEPT ![Main] = h] /\ pc' = [pc EXCEPT ![Main] = "open"]
          /\ UNCHANGED <<joins, joinable, lock>>
      BY <2>2 DEF TakeIdle, h, NeedsJoin
    <3>2. joins' = [joins EXCEPT ![Main] = joins[Main]] /\ joinable' = [joinable EXCEPT ![h] = FALSE]
      BY <1>1, <1>2, <2>2, <3>1 DEF IInv, TypeOK, TableTyped, CallersTyped
    <3>3. QED
      BY <2>2, <3>1, <3>2
  <2>3. QED
    BY <2>1, <2>2
<1>4. UNCHANGED <<clip, thread, pcm, active, stop, looping, locked, players, call, halting,
                  release, rest>>
  BY DEF TakeIdle
<1>5. /\ at'[Main] = h /\ pc'[Main] = IF joinable[h] THEN "join" ELSE "open"
      /\ joins'[Main] = IF joinable[h] THEN thread[h] ELSE 0
      /\ \A ch \in Channel : joinable'[ch] <=> joinable[ch] /\ ch # h
  BY <1>1, <1>2, <1>3 DEF IInv, TypeOK, TableTyped, CallersTyped
<1>6. TypeOK'
  <2>1. TableTyped'
    BY <1>3, <1>4 DEF IInv, TypeOK, TableTyped
  <2>2. CallersTyped'
    BY <1>1, <1>2, <1>3, <1>4, Bounds DEF IInv, TypeOK, TableTyped, CallersTyped
  <2>3. PlayersTyped' /\ RestTyped'
    BY <1>3, <1>4 DEF IInv, TypeOK, PlayersTyped, RestTyped, players, rest
  <2>4. QED
    BY <2>1, <2>2, <2>3 DEF TypeOK
<1>7. ~Halts'
  BY <1>2, <1>4, <1>5 DEF Halts
<1>8. Places'
  BY <1>1, <1>2, <1>4, <1>5, <1>7 DEF IInv, Places, rest
<1>9. Streams' /\ Clips'
  BY <1>4 DEF IInv, Streams, players, rest, Running, Clips
<1>10. Joinable'
  BY <1>1, <1>2, <1>4, <1>5, <1>7, Bounds DEF IInv, Joinable, Joining, rest
<1>11. NoThreadLost'
  <2> SUFFICES ASSUME NEW t \in 1..nextSeq - 1
               PROVE  \/ t \in joined \/ joins'[Main] = t
                      \/ \E ch \in Channel : joinable'[ch] /\ thread[ch] = t
    BY <1>2, <1>4 DEF NoThreadLost, rest
  <2>1. t \in joined \/ \E ch \in Channel : joinable[ch] /\ thread[ch] = t
    BY <1>2 DEF IInv, NoThreadLost
  <2>2. QED
    BY <1>1, <1>5, <2>1
<1>12. Walked' /\ Reserved'
  BY <1>2, <1>4, <1>5, <1>7 DEF IInv, Walked, Reserved, Playing
<1>13. QED
  BY <1>2, <1>6, <1>8, <1>9, <1>10, <1>11, <1>12 DEF IInv

\* A caller that moves on, with the table and the playback threads as they were.
LEMMA TableKept ==
  ASSUME IInv, UNCHANGED <<table, players, joins, nextSeq, freed, joined>>
  PROVE  TableTyped' /\ PlayersTyped' /\ Streams' /\ Clips' /\ NoThreadLost'
<1>1. TableTyped' /\ PlayersTyped'
  BY DEF IInv, TypeOK, TableTyped, PlayersTyped, table, players
<1>2. Streams' /\ Clips'
  BY DEF IInv, Streams, players, table, Running, Clips
<1>3. NoThreadLost'
  BY DEF IInv, NoThreadLost, table
<1>4. QED
  BY <1>1, <1>2, <1>3

LEMMA RecheckInv == ASSUME IInv, Recheck(Main) PROVE IInv'
<1>1. /\ Caller = {Main} /\ Main \in Caller /\ pc[Main] = "recheck" /\ ~Halts
      /\ call[Main].kind \in Playing /\ at[Main] \in Channel /\ joins[Main] = 0
      /\ halting[Main] = Cap
  BY Bounds DEF IInv, Recheck, Halts, Places
<1>2. /\ pc'[Main] \in {"open", "below", "above"}
      /\ pc'[Main] = "open" => Idle(at[Main]) /\ at' = at
      /\ UNCHANGED <<lock, table, players, call, halting, release, joins, rest>>
  BY <1>1 DEF IInv, TypeOK, CallersTyped, Recheck
<1>3. TableTyped' /\ PlayersTyped' /\ Streams' /\ Clips' /\ NoThreadLost'
  BY <1>2, TableKept DEF rest
<1>4. CallersTyped' /\ RestTyped'
  <2>1. at[Main] + 1 \in 0..Cap
    BY <1>1, Bounds
  <2>2. CallersTyped'
    BY <1>1, <2>1 DEF IInv, TypeOK, CallersTyped, Recheck
  <2>3. RestTyped'
    BY <1>2 DEF IInv, TypeOK, RestTyped, rest
  <2>4. QED
    BY <2>2, <2>3
<1>5. ~Halts'
  BY <1>1, <1>2 DEF Halts
<1>6. Places' /\ Joinable'
  BY <1>1, <1>2, <1>5 DEF IInv, Places, Joinable, Joining, table, rest
<1>7. Walked' /\ Reserved'
  BY <1>1, <1>2, <1>5 DEF IInv, Walked, Reserved, table, Idle
<1>8. QED
  BY <1>1, <1>3, <1>4, <1>6, <1>7 DEF IInv, TypeOK

\* Halting is what Steal, Refused and Walk go on with.
LEMMA HaltNextShape ==
  ASSUME IInv, NEW ch \in Channel, NEW rel \in BOOLEAN, NEW back \in {"open", "walk"},
         HaltNext(Main, ch, rel, back)
  PROVE  /\ pc'[Main] = "halt" /\ halting'[Main] = ch /\ release'[Main] = rel
         /\ call'[Main] = [call[Main] EXCEPT !.back = back]
         /\ call'[Main].kind = call[Main].kind /\ call'[Main].clip = call[Main].clip
         /\ call'[Main].back = back /\ call'[Main].channel = call[Main].channel
         /\ pc' \in [Caller -> {"user", "below", "above", "recheck", "open", "walk", "halt",
                                "halted", "join"}]
         /\ call' \in [Caller -> CallRecord] /\ halting' \in [Caller -> 0..Cap]
         /\ release' \in [Caller -> BOOLEAN]
         /\ Halts'
<1>1. /\ Main \in Caller /\ ch \in 0..Cap
      /\ pc \in [Caller -> {"user", "below", "above", "recheck", "open", "walk", "halt",
                            "halted", "join"}]
      /\ call \in [Caller -> CallRecord] /\ halting \in [Caller -> 0..Cap]
      /\ release \in [Caller -> BOOLEAN]
  BY Bounds DEF IInv, TypeOK, CallersTyped
<1>2. call'[Main] = [call[Main] EXCEPT !.back = back]
  BY <1>1 DEF HaltNext
<1>3. /\ call'[Main].kind = call[Main].kind /\ call'[Main].clip = call[Main].clip
      /\ call'[Main].back = back /\ call'[Main].channel = call[Main].channel
  BY <1>1, <1>2 DEF CallRecord
<1>4. call' \in [Caller -> CallRecord]
  BY <1>1 DEF HaltNext, CallRecord
<1>5. QED
  BY <1>1, <1>2, <1>3, <1>4 DEF HaltNext, Halts

LEMMA StealInv == ASSUME IInv, Steal(Main) PROVE IInv'
<1> DEFINE S == Victims({ch \in Channel : ch < call[Main].limit})
           h == Oldest(S)
<1>1. /\ Caller = {Main} /\ Main \in Caller /\ pc[Main] = "below" /\ ~Halts
      /\ call[Main].kind \in Playing /\ joins[Main] = 0 /\ halting[Main] = Cap
      /\ UNCHANGED <<lock, table, players, joins, rest>>
  BY Bounds DEF IInv, Steal, Halts, Places
<1>2. TableTyped' /\ PlayersTyped' /\ Streams' /\ Clips' /\ NoThreadLost'
  BY <1>1, TableKept DEF rest
<1>3. RestTyped'
  BY <1>1 DEF IInv, TypeOK, RestTyped, rest
<1>4. CASE S # {}
  <2>1. h \in Channel /\ active[h] /\ ~locked[h]
    <3>1. S \in SUBSET Channel /\ thread \in [Channel -> 0..MaxPlays]
      BY DEF Victims, IInv, TypeOK, TableTyped
    <3>2. h \in S
      BY <3>1, <1>4, OldestIn
    <3>3. QED
      BY <3>2 DEF Victims
  <2>2. at' = [at EXCEPT ![Main] = h] /\ HaltNext(Main, h, FALSE, "open")
    BY <1>4 DEF Steal
  <2> HIDE DEF h
  <2>3. /\ pc'[Main] = "halt" /\ halting'[Main] = h /\ release'[Main] = FALSE
        /\ call'[Main].kind = call[Main].kind /\ call'[Main].clip = call[Main].clip
        /\ call'[Main].back = "open" /\ Halts'
    BY <2>1, <2>2, HaltNextShape
  <2>4. CallersTyped'
    <3>1. /\ pc' \in [Caller -> {"user", "below", "above", "recheck", "open", "walk", "halt",
                                 "halted", "join"}]
          /\ call' \in [Caller -> CallRecord] /\ halting' \in [Caller -> 0..Cap]
          /\ release' \in [Caller -> BOOLEAN]
      BY <2>1, <2>2, HaltNextShape
    <3>2. at' \in [Caller -> 0..Cap] /\ joins' \in [Caller -> 0..MaxPlays]
      BY <1>1, <2>1, <2>2, Bounds DEF IInv, TypeOK, CallersTyped
    <3>3. QED
      BY <3>1, <3>2 DEF CallersTyped
  <2>5. at'[Main] = h
    BY <1>1, <2>2 DEF IInv, TypeOK, CallersTyped
  <2>6. Places'
    BY <1>1, <2>1, <2>3, <2>5 DEF IInv, Places, rest
  <2>7. Joinable' /\ Walked' /\ Reserved'
    BY <1>1, <2>1, <2>3, <2>5, Bounds DEF IInv, Joinable, Walked, Reserved, Joining, table,
       rest, Playing
  <2>8. QED
    BY <1>1, <1>2, <1>3, <2>4, <2>6, <2>7 DEF IInv, TypeOK
<1>5. CASE S = {}
  <2>1. /\ at' = [at EXCEPT ![Main] = call[Main].limit] /\ pc' = [pc EXCEPT ![Main] = "above"]
        /\ UNCHANGED <<halting, release, call>>
    BY <1>5 DEF Steal
  <2>2. CallersTyped' /\ pc'[Main] = "above" /\ ~Halts'
    BY <1>1, <2>1, Bounds DEF IInv, TypeOK, CallersTyped, CallRecord, Halts
  <2>3. Places' /\ Joinable' /\ Walked' /\ Reserved'
    BY <1>1, <2>1, <2>2 DEF IInv, Places, Joinable, Joining, Walked, Reserved, table, rest
  <2>4. QED
    BY <1>1, <1>2, <1>3, <2>2, <2>3 DEF IInv, TypeOK
<1>6. QED
  BY <1>4, <1>5

LEMMA NoCallTyped == NoCall \in CallRecord /\ NoCall.kind = "none"
BY Bounds DEF NoCall, CallRecord

LEMMA DropInv == ASSUME IInv, Drop(Main) PROVE IInv'
<1>1. /\ Caller = {Main} /\ Main \in Caller /\ pc[Main] = "above" /\ ~Halts
      /\ joins[Main] = 0 /\ halting[Main] = Cap
  BY Bounds DEF IInv, Drop, Halts, Places
<1>2. UNCHANGED <<table, players, halting, release, joins, rest>>
  BY DEF Drop
<1>3. TableTyped' /\ PlayersTyped' /\ Streams' /\ Clips' /\ NoThreadLost'
  BY <1>2, TableKept DEF rest
<1>4. pc'[Main] = "user" /\ call'[Main] = NoCall /\ ~Halts'
  BY <1>1 DEF IInv, TypeOK, CallersTyped, Drop, Halts
<1>5. CallersTyped' /\ RestTyped'
  <2>1. CallersTyped'
    BY <1>1, NoCallTyped, Bounds DEF IInv, TypeOK, CallersTyped, Drop
  <2>2. RestTyped'
    BY <1>1 DEF IInv, TypeOK, RestTyped, Drop, rest
  <2>3. QED
    BY <2>1, <2>2
<1>6. Places' /\ Joinable' /\ Walked' /\ Reserved'
  BY <1>1, <1>2, <1>4, NoCallTyped DEF IInv, Places, Joinable, Joining, Walked, Reserved,
     table, rest, Playing
<1>7. QED
  BY <1>1, <1>3, <1>5, <1>6 DEF IInv, TypeOK

LEMMA StartInv == ASSUME IInv, Start(Main) PROVE IInv'
<1> DEFINE h == at[Main]  n == nextSeq
<1>1. /\ Caller = {Main} /\ Main \in Caller /\ pc[Main] = "open" /\ ~Halts
      /\ h \in Channel /\ ~joinable[h] /\ ~active[h] /\ joins[Main] = 0 /\ halting[Main] = Cap
      /\ call[Main].kind \in Playing /\ call[Main].clip \in Clip \ freed
  BY Bounds DEF IInv, Start, Halts, Places, Joinable
<1>2. n \in Playback /\ n \in Nat /\ n <= MaxPlays /\ tpc[n] = "none" /\ nextSeq' = n + 1
  BY <1>1, Bounds DEF IInv, TypeOK, RestTyped, Places, Streams, Playback, Start
<1>3. /\ \A ch \in Channel :
           /\ clip'[ch] = IF ch = h THEN call[Main].clip ELSE clip[ch]
           /\ thread'[ch] = IF ch = h THEN n ELSE thread[ch]
           /\ pcm'[ch] = IF ch = h THEN n ELSE pcm[ch]
           /\ active'[ch] <=> ch = h \/ active[ch]
           /\ joinable'[ch] <=> ch = h \/ joinable[ch]
      /\ \A t \in Playback :
           /\ tpc'[t] = IF t = n THEN "start" ELSE tpc[t]
           /\ on'[t] = IF t = n THEN h ELSE on[t]
      /\ open' = open \cup {n} /\ UNCHANGED <<tclip, freed, joined, joins, halting, release>>
  BY <1>1, <1>2 DEF IInv, TypeOK, TableTyped, PlayersTyped, Start
<1>4. pc'[Main] = "user" /\ call'[Main] = NoCall /\ ~Halts'
  BY <1>1 DEF IInv, TypeOK, CallersTyped, Start, Halts
<1>5. TypeOK'
  <2>1. TableTyped'
    BY <1>1, <1>2 DEF IInv, TypeOK, TableTyped, Start, Loops, Playback
  <2>2. PlayersTyped'
    BY <1>1, <1>2 DEF IInv, TypeOK, PlayersTyped, Start
  <2>3. CallersTyped'
    BY <1>1, NoCallTyped, Bounds DEF IInv, TypeOK, CallersTyped, Start
  <2>4. RestTyped'
    BY <1>1, <1>2, Bounds DEF IInv, TypeOK, RestTyped, Start
  <2>5. QED
    BY <2>1, <2>2, <2>3, <2>4 DEF TypeOK
<1>6. Streams'
  <2>1. \A t \in Playback : Running(t) => on[t] # h /\ t # n
    BY <1>1, <1>2 DEF IInv, Streams, Running
  <2>2. \A ch \in Channel : active[ch] => ch # h /\ thread[ch] # n
    BY <1>1, <2>1 DEF IInv, Streams
  <2>3. \A ch \in Channel : active'[ch] =>
          /\ thread'[ch] \in Playback /\ tpc'[thread'[ch]] \in {"start", "check", "write", "exit"}
          /\ on'[thread'[ch]] = ch /\ pcm'[ch] = thread'[ch]
    <3> SUFFICES ASSUME NEW ch \in Channel, active'[ch]
                 PROVE  /\ thread'[ch] \in Playback
                        /\ tpc'[thread'[ch]] \in {"start", "check", "write", "exit"}
                        /\ on'[thread'[ch]] = ch /\ pcm'[ch] = thread'[ch]
      OBVIOUS
    <3>1. CASE ch = h
      BY <1>1, <1>2, <1>3, <3>1
    <3>2. CASE ch # h
      <4>1. /\ active[ch] /\ thread[ch] # n /\ thread[ch] \in Playback
            /\ tpc[thread[ch]] \in {"start", "check", "write", "exit"}
            /\ on[thread[ch]] = ch /\ pcm[ch] = thread[ch]
        BY <1>3, <2>2, <3>2 DEF IInv, Streams, Running
      <4>2. QED
        BY <1>3, <3>2, <4>1
    <3>3. QED
      BY <3>1, <3>2
  <2>4. \A t \in Playback : Running(t)' => active'[on'[t]] /\ thread'[on'[t]] = t
    BY <1>1, <1>2, <1>3, <2>1 DEF IInv, TypeOK, PlayersTyped, Streams, Running
  <2>5. \A t \in Playback : tpc'[t] \in {"check", "write", "exit"} => tclip'[t] = clip'[on'[t]]
    <3> SUFFICES ASSUME NEW t \in Playback, tpc'[t] \in {"check", "write", "exit"}
                 PROVE  tclip[t] = clip'[on'[t]]
      BY <1>3
    <3>1. t # n /\ tpc[t] \in {"check", "write", "exit"} /\ on'[t] = on[t]
      BY <1>2, <1>3
    <3>2. on[t] # h /\ on[t] \in Channel /\ tclip[t] = clip[on[t]]
      BY <2>1, <3>1 DEF Running, IInv, TypeOK, PlayersTyped, Streams
    <3>3. QED
      BY <1>3, <3>1, <3>2
  <2>6. /\ \A t \in Playback : tpc'[t] \in {"none", "start", "done"} => tclip'[t] = NoClip
        /\ \A t \in Playback : t >= nextSeq' => tpc'[t] = "none"
    BY <1>2, <1>3, Bounds DEF IInv, Streams
  <2>7. open' = {thread'[ch] : ch \in {x \in Channel : active'[x]}}
    <3>1. open = {thread[ch] : ch \in {x \in Channel : active[x]}}
      BY DEF IInv, Streams
    <3>2. {thread'[ch] : ch \in {x \in Channel : active'[x]}}
            = {thread[ch] : ch \in {x \in Channel : active[x]}} \cup {n}
      BY <1>1, <1>3, <2>2
    <3>3. QED
      BY <1>3, <3>1, <3>2
  <2>8. QED
    BY <2>3, <2>4, <2>5, <2>6, <2>7 DEF Streams, Running
<1>7. Places'
  BY <1>1, <1>3, <1>4, NoCallTyped DEF IInv, Places, Playing
<1>8. Joinable'
  <2>1. \A ch \in Channel : active'[ch] => joinable'[ch]
    BY <1>1, <1>3 DEF IInv, Joinable
  <2>2. \A ch \in Channel : joinable'[ch] => thread'[ch] \in Playback /\ thread'[ch] < nextSeq'
    <3>1. \A ch \in Channel : joinable[ch] => thread[ch] \in Playback /\ thread[ch] < n
      BY DEF IInv, Joinable
    <3>2. \A t \in Playback : t < n => t < n + 1
      BY <1>2 DEF Playback
    <3>3. n \in Playback /\ n < n + 1
      BY <1>2
    <3> SUFFICES ASSUME NEW ch \in Channel, joinable'[ch]
                 PROVE  thread'[ch] \in Playback /\ thread'[ch] < n + 1
      BY <1>2
    <3>4. CASE ch = h
      BY <1>3, <3>3, <3>4
    <3>5. CASE ch # h
      BY <1>3, <3>1, <3>2, <3>5
    <3>6. QED
      BY <3>4, <3>5
  <2>3. QED
    BY <1>4, <2>1, <2>2 DEF Joinable
<1>9. NoThreadLost'
  <2> SUFFICES ASSUME NEW t \in 1..n
               PROVE  t \in joined \/ \E ch \in Channel : joinable'[ch] /\ thread'[ch] = t
    BY <1>2, <1>3 DEF NoThreadLost
  <2>1. CASE t = n
    BY <1>1, <1>3, <2>1
  <2>2. CASE t # n
    <3>1. t \in 1..nextSeq - 1
      BY <1>2, <2>2
    <3>2. t \in joined \/ \E ch \in Channel : joinable[ch] /\ thread[ch] = t
      BY <1>1, <3>1 DEF IInv, NoThreadLost
    <3>3. QED
      BY <1>1, <1>3, <3>2
  <2>3. QED
    BY <2>1, <2>2
<1>10. Clips' /\ Walked' /\ Reserved'
  BY <1>1, <1>3, <1>4, NoCallTyped DEF IInv, Clips, Walked, Reserved
<1>11. QED
  BY <1>1, <1>5, <1>6, <1>7, <1>8, <1>9, <1>10 DEF IInv

LEMMA RefusedInv == ASSUME IInv, Refused(Main) PROVE IInv'
<1> DEFINE S == Victims(Channel \ {at[Main]})
           h == Oldest(S)
<1>1. /\ Caller = {Main} /\ Main \in Caller /\ pc[Main] = "open" /\ ~Halts
      /\ call[Main].kind \in Playing /\ joins[Main] = 0 /\ halting[Main] = Cap
      /\ at[Main] \in Channel /\ ~joinable[at[Main]] /\ ~active[at[Main]]
      /\ UNCHANGED <<table, players, at, joins, limit, nextSeq, freed, joined>>
  BY Bounds DEF IInv, Refused, Halts, Places, Joinable
<1>2. TableTyped' /\ PlayersTyped' /\ Streams' /\ Clips' /\ NoThreadLost'
  BY <1>1, TableKept
<1>3. CASE S # {}
  <2>1. h \in Channel /\ active[h] /\ ~locked[h] /\ h # at[Main]
    <3>1. S \in SUBSET Channel /\ thread \in [Channel -> 0..MaxPlays]
      BY DEF Victims, IInv, TypeOK, TableTyped
    <3>2. h \in S
      BY <3>1, <1>3, OldestIn
    <3>3. QED
      BY <3>2 DEF Victims
  <2>2. HaltNext(Main, h, FALSE, "open") /\ UNCHANGED <<lock, ended>>
    BY <1>3 DEF Refused
  <2> HIDE DEF h
  <2>3. /\ pc'[Main] = "halt" /\ halting'[Main] = h /\ release'[Main] = FALSE
        /\ call'[Main].kind = call[Main].kind /\ call'[Main].clip = call[Main].clip
        /\ call'[Main].back = "open" /\ Halts'
    BY <2>1, <2>2, HaltNextShape
  <2>4. CallersTyped' /\ RestTyped'
    <3>1. /\ pc' \in [Caller -> {"user", "below", "above", "recheck", "open", "walk", "halt",
                                 "halted", "join"}]
          /\ call' \in [Caller -> CallRecord] /\ halting' \in [Caller -> 0..Cap]
          /\ release' \in [Caller -> BOOLEAN]
      BY <2>1, <2>2, HaltNextShape
    <3>2. CallersTyped'
      BY <1>1, <3>1 DEF IInv, TypeOK, CallersTyped
    <3>3. RestTyped'
      BY <1>1, <2>2 DEF IInv, TypeOK, RestTyped
    <3>4. QED
      BY <3>2, <3>3
  <2>5. Places'
    BY <1>1, <2>1, <2>3 DEF IInv, Places
  <2>6. Joinable' /\ Walked' /\ Reserved'
    BY <1>1, <2>1, <2>3, Bounds DEF IInv, Joinable, Walked, Reserved, Joining, table, Playing
  <2>7. QED
    BY <1>1, <1>2, <2>4, <2>5, <2>6 DEF IInv, TypeOK
<1>4. CASE S = {}
  <2>1. lock' = NoOne /\ ended' = TRUE /\ UNCHANGED <<pc, halting, release, call>>
    BY <1>4 DEF Refused
  <2>2. CallersTyped' /\ RestTyped'
    <3>1. ended' \in BOOLEAN
      BY <2>1, Zenon
    <3>2. RestTyped'
      BY <1>1, <2>1, <3>1 DEF IInv, TypeOK, RestTyped
    <3>3. CallersTyped'
      BY <1>1, <2>1 DEF IInv, TypeOK, CallersTyped
    <3>4. QED
      BY <3>2, <3>3
  <2>3. Places' /\ Joinable' /\ Walked' /\ Reserved'
    BY <1>1, <2>1 DEF IInv, Places, Joinable, Joining, Walked, Reserved, table, Halts
  <2>4. QED
    BY <1>1, <1>2, <2>2, <2>3 DEF IInv, TypeOK
<1>5. QED
  BY <1>3, <1>4

-----------------------------------------------------------------------------
(* Calls of the program.                                                    *)

LEMMA AtHome ==
  ASSUME IInv, NEW kind, Enter(Main, kind)
  PROVE  /\ Caller = {Main} /\ Main \in Caller /\ pc[Main] = "user" /\ ~Halts
         /\ call[Main] = NoCall /\ joins[Main] = 0 /\ halting[Main] = Cap
         /\ InBound => nextSeq <= MaxPlays
<1>1. /\ Caller = {Main} /\ Main \in Caller /\ pc[Main] = "user" /\ ~Halts
      /\ call[Main] = NoCall /\ joins[Main] = 0 /\ halting[Main] = Cap
  BY Bounds DEF IInv, Enter, Places, Halts
<1>2. {c \in Caller : call[c].kind \in Playing} = {}
  BY <1>1, NoCallTyped DEF Playing
<1>3. Cardinality({c \in Caller : call[c].kind \in Playing}) = 0
  BY <1>2, FS_EmptySet
<1>4. InBound => nextSeq <= MaxPlays
  BY <1>3 DEF InBound, IInv, TypeOK, RestTyped
<1>5. QED
  BY <1>1, <1>4

LEMMA PlayInv ==
  ASSUME IInv, NEW a \in Clip, NEW kind \in Calls, Play(Main, kind, a) PROVE IInv'
<1>1. /\ Enter(Main, kind) /\ InBound /\ a \in Clip \ freed
      /\ kind \in {"play", "playLoop"} /\ kind \in Playing
      /\ UNCHANGED <<table, players, halting, release, joins, rest>>
  BY DEF Play, Usable, Playing
<1>2. /\ Caller = {Main} /\ Main \in Caller /\ ~Halts /\ joins[Main] = 0 /\ halting[Main] = Cap
      /\ nextSeq <= MaxPlays
  BY <1>1, AtHome
<1>3. [NoCall EXCEPT !.kind = kind, !.clip = a, !.limit = limit] \in CallRecord
  <2>1. limit \in 1..Cap
    BY DEF IInv, TypeOK, RestTyped
  <2>2. QED
    BY <2>1, NoCallTyped DEF CallRecord
<1>4. /\ pc'[Main] = "below" /\ at'[Main] = 0 /\ call'[Main].kind = kind
      /\ call'[Main].clip = a /\ ~Halts'
  BY <1>2 DEF Play, NoCall, IInv, TypeOK, CallersTyped, Halts
<1>5. CallersTyped' /\ RestTyped'
  <2>1. CallersTyped'
    BY <1>2, <1>3, Bounds DEF IInv, TypeOK, CallersTyped, Play
  <2>2. RestTyped'
    BY <1>2 DEF IInv, TypeOK, RestTyped, Play, Enter, rest
  <2>3. QED
    BY <2>1, <2>2
<1>6. TableTyped' /\ PlayersTyped' /\ Streams' /\ Clips' /\ NoThreadLost'
  BY <1>1, TableKept DEF rest
<1>7. Places'
  BY <1>1, <1>2, <1>4 DEF IInv, Places, rest
<1>8. Joinable'
  BY <1>1, <1>2, <1>4, AtHome DEF IInv, Joinable, table, rest
<1>9. Walked' /\ Reserved'
  BY <1>4 DEF Walked, Reserved
<1>10. QED
  BY <1>2, <1>5, <1>6, <1>7, <1>8, <1>9 DEF IInv, TypeOK

LEMMA ClampIn == ASSUME NEW n \in Numbers PROVE ClampChannel(n) \in Channel
BY AudioAssumption DEF AudioAssumption, ClampChannel, Channel

LEMMA PlayOnInv ==
  ASSUME IInv, NEW a \in Clip, NEW kind \in Calls, NEW n \in Numbers, PlayOn(Main, kind, a, n)
  PROVE  IInv'
<1> DEFINE h == ClampChannel(n)
<1>1. h \in Channel
  BY ClampIn
<1>2. /\ Enter(Main, kind) /\ InBound /\ a \in Clip \ freed
      /\ kind \in {"playOn", "playLoopOn"} /\ kind \in Playing
      /\ UNCHANGED <<table, players, joins, rest>>
  BY DEF PlayOn, Usable, Playing, Explicit
<1>3. /\ Caller = {Main} /\ Main \in Caller /\ joins[Main] = 0 /\ nextSeq <= MaxPlays
  BY <1>2, AtHome
<1>4. [kind |-> kind, clip |-> a, channel |-> h, limit |-> limit, back |-> "open"] \in CallRecord
  BY <1>1, Bounds DEF CallRecord, IInv, TypeOK, RestTyped
<1> HIDE DEF h
<1>5. /\ pc'[Main] = "halt" /\ at'[Main] = h /\ halting'[Main] = h /\ release'[Main] = TRUE
      /\ call'[Main].kind = kind /\ call'[Main].clip = a /\ call'[Main].back = "open" /\ Halts'
  BY <1>3 DEF PlayOn, IInv, TypeOK, CallersTyped, Halts, h
<1>6. CallersTyped' /\ RestTyped'
  <2>1. CallersTyped'
    BY <1>1, <1>3, <1>4, Bounds DEF IInv, TypeOK, CallersTyped, PlayOn, h
  <2>2. RestTyped'
    BY <1>3 DEF IInv, TypeOK, RestTyped, PlayOn, Enter, rest
  <2>3. QED
    BY <2>1, <2>2
<1>7. TableTyped' /\ PlayersTyped' /\ Streams' /\ Clips' /\ NoThreadLost'
  BY <1>2, TableKept DEF rest
<1>8. Places' /\ Joinable' /\ Walked' /\ Reserved'
  BY <1>1, <1>2, <1>3, <1>5, Bounds DEF IInv, Places, Joinable, Joining, Walked, Reserved,
     table, rest, Explicit
<1>9. QED
  BY <1>3, <1>6, <1>7, <1>8 DEF IInv, TypeOK

LEMMA StopPlayerInv == ASSUME IInv, NEW n \in Numbers, StopPlayer(n) PROVE IInv'
<1> DEFINE h == ClampChannel(n)
<1>1. h \in Channel
  BY ClampIn
<1>2. Enter(Main, "stopPlayer") /\ UNCHANGED <<table, players, joins, rest>>
  BY DEF StopPlayer
<1>3. /\ Caller = {Main} /\ Main \in Caller /\ joins[Main] = 0
  BY <1>2, AtHome
<1>4. [NoCall EXCEPT !.kind = "stopPlayer", !.back = "walk", !.channel = h] \in CallRecord
  BY <1>1, Bounds DEF CallRecord, NoCall, Calls
<1> HIDE DEF h
<1>5. /\ pc'[Main] = "halt" /\ at'[Main] = Cap /\ halting'[Main] = h /\ release'[Main] = TRUE
      /\ call'[Main].kind = "stopPlayer" /\ call'[Main].back = "walk" /\ Halts'
  BY <1>3 DEF StopPlayer, NoCall, IInv, TypeOK, CallersTyped, Halts, h
<1>6. CallersTyped' /\ RestTyped'
  <2>1. CallersTyped'
    BY <1>1, <1>3, <1>4, Bounds DEF IInv, TypeOK, CallersTyped, StopPlayer, h
  <2>2. RestTyped'
    BY <1>3 DEF IInv, TypeOK, RestTyped, StopPlayer, Enter, rest
  <2>3. QED
    BY <2>1, <2>2
<1>7. TableTyped' /\ PlayersTyped' /\ Streams' /\ Clips' /\ NoThreadLost'
  BY <1>2, TableKept DEF rest
<1>8. Places' /\ Joinable' /\ Walked' /\ Reserved'
  BY <1>1, <1>2, <1>3, <1>5, Bounds DEF IInv, Places, Joinable, Joining, Walked, Reserved,
     table, rest, Stopping, Playing
<1>9. QED
  BY <1>3, <1>6, <1>7, <1>8 DEF IInv, TypeOK

\* A stop or a release begins its walk, and has asked some threads to stop.
LEMMA BeginInv ==
  ASSUME IInv, NEW kind \in {"stop", "free", "stopAll"}, NEW a \in Clip \cup {NoClip},
         kind # "stopAll" => a \in Clip,
         Enter(Main, kind), Begin(Main, kind, a, 0), stop' \in [Channel -> BOOLEAN]
  PROVE  IInv'
<1>1. /\ Caller = {Main} /\ Main \in Caller /\ joins[Main] = 0 /\ halting[Main] = Cap
  BY AtHome
<1>2. [NoCall EXCEPT !.kind = kind, !.clip = a] \in CallRecord
  <2>1. kind \in Calls
    BY DEF Calls
  <2>2. QED
    BY <2>1, NoCallTyped DEF CallRecord
<1>3. UNCHANGED <<clip, thread, pcm, active, joinable, looping, locked, players, halting,
                  release, joins, rest>>
  BY DEF Begin
<1>4. /\ pc'[Main] = "walk" /\ at'[Main] = 0 /\ call'[Main].kind = kind
      /\ call'[Main].clip = a /\ ~Halts'
  BY <1>1 DEF Begin, NoCall, IInv, TypeOK, CallersTyped, Halts
<1>5. TypeOK'
  <2>1. TableTyped'
    BY <1>3 DEF IInv, TypeOK, TableTyped
  <2>2. CallersTyped'
    BY <1>1, <1>2, Bounds DEF IInv, TypeOK, CallersTyped, Begin
  <2>3. PlayersTyped' /\ RestTyped'
    BY <1>1, <1>3 DEF IInv, TypeOK, PlayersTyped, RestTyped, Enter, players, rest
  <2>4. QED
    BY <2>1, <2>2, <2>3 DEF TypeOK
<1>6. Streams' /\ Clips' /\ NoThreadLost'
  BY <1>3 DEF IInv, Streams, Clips, NoThreadLost, players, rest, Running
<1>7. Places' /\ Joinable'
  BY <1>1, <1>3, <1>4 DEF IInv, Places, Joinable, Joining, rest, Stopping, Playing, Enter
<1>8. Walked' /\ Reserved'
  <2>1. \A ch \in Channel : ~(ch < 0)
    BY Bounds DEF Channel
  <2>2. QED
    BY <1>4, <2>1 DEF Walked, Reserved
<1>9. QED
  BY <1>1, <1>5, <1>6, <1>7, <1>8 DEF IInv

LEMMA StopInv ==
  ASSUME IInv, (\E a \in Clip : StopClip(Main, a) \/ Free(Main, a)) \/ StopAll PROVE IInv'
<1>1. stop' \in [Channel -> BOOLEAN]
  BY DEF StopClip, Free, StopAll, IInv, TypeOK, TableTyped
<1>2. CASE \E a \in Clip : StopClip(Main, a)
  BY <1>1, <1>2, BeginInv DEF StopClip
<1>3. CASE \E a \in Clip : Free(Main, a)
  BY <1>1, <1>3, BeginInv DEF Free
<1>4. CASE StopAll
  BY <1>1, <1>4, BeginInv DEF StopAll
<1>5. QED
  BY <1>2, <1>3, <1>4

LEMMA WalkInv == ASSUME IInv, Walk(Main) PROVE IInv'
<1> DEFINE h == First(ToHalt(Main))
<1>1. ToHalt(Main) \in SUBSET Channel /\ ToHalt(Main) # {}
  BY DEF Walk, ToHalt
<1>2. h \in Channel /\ h \in ToHalt(Main) /\ \A x \in ToHalt(Main) : h <= x
  <2>1. ToHalt(Main) \in SUBSET Nat
    BY <1>1, Bounds
  <2>2. \E x \in ToHalt(Main) : \A y \in ToHalt(Main) : x <= y
    BY <1>1, <2>1, Least
  <2>3. QED
    BY <1>1, <2>2 DEF First
<1>3. /\ Caller = {Main} /\ Main \in Caller /\ pc[Main] = "walk" /\ ~Halts
      /\ call[Main].kind \in Stopping /\ joins[Main] = 0
      /\ at' = [at EXCEPT ![Main] = h + 1] /\ HaltNext(Main, h, TRUE, "walk")
      /\ UNCHANGED <<lock, table, players, joins, rest>>
  BY Bounds DEF IInv, Walk, Halts, Places
<1>4. /\ pc'[Main] = "halt" /\ halting'[Main] = h /\ release'[Main] = TRUE
      /\ call'[Main].kind = call[Main].kind /\ call'[Main].clip = call[Main].clip
      /\ call'[Main].back = "walk" /\ Halts'
  BY <1>2, <1>3, HaltNextShape
<1>5. at'[Main] = h + 1 /\ at'[Main] \in 0..Cap
  BY <1>2, <1>3, Bounds DEF IInv, TypeOK, CallersTyped
<1>6. CallersTyped' /\ RestTyped'
  <2>1. /\ pc' \in [Caller -> {"user", "below", "above", "recheck", "open", "walk", "halt",
                               "halted", "join"}]
        /\ call' \in [Caller -> CallRecord] /\ halting' \in [Caller -> 0..Cap]
        /\ release' \in [Caller -> BOOLEAN]
    BY <1>2, <1>3, HaltNextShape
  <2>2. at' \in [Caller -> 0..Cap] /\ joins' \in [Caller -> 0..MaxPlays]
    BY <1>3, <1>5 DEF IInv, TypeOK, CallersTyped
  <2>3. CallersTyped'
    BY <2>1, <2>2 DEF CallersTyped
  <2>4. RestTyped'
    BY <1>3 DEF IInv, TypeOK, RestTyped, rest
  <2>5. QED
    BY <2>3, <2>4
<1>7. TableTyped' /\ PlayersTyped' /\ Streams' /\ Clips' /\ NoThreadLost'
  BY <1>3, TableKept DEF rest
<1>8. Places'
  BY <1>2, <1>3, <1>4 DEF IInv, Places, rest, Stopping, Playing
<1>9. Joinable' /\ Reserved'
  BY <1>2, <1>3, <1>4, Bounds DEF IInv, Joinable, Reserved, table, rest, Stopping, Playing
<1>10. Walked'
  <2> SUFFICES ASSUME NEW ch \in Channel, ch < h + 1, ch # h
               PROVE  /\ call[Main].kind \in {"stop", "free"} => clip[ch] # call[Main].clip
                      /\ call[Main].kind = "stopAll" => ~active[ch]
    BY <1>3, <1>4, <1>5 DEF Walked, table
  <2>1. ch \in Nat /\ h \in Nat /\ at[Main] \in Nat
    <3>1. at[Main] \in 0..Cap
      BY <1>3 DEF IInv, TypeOK, CallersTyped
    <3>2. QED
      BY <1>2, <3>1, Bounds DEF Channel
  <2>2. ch < h
    BY <2>1
  <2>3. ch \notin ToHalt(Main)
    BY <1>2, <2>1, <2>2
  <2>4. CASE ch < at[Main]
    BY <1>3, <2>4 DEF IInv, Walked
  <2>5. CASE ch >= at[Main]
    BY <2>3, <2>5 DEF ToHalt
  <2>6. QED
    BY <2>1, <2>4, <2>5
<1>11. QED
  BY <1>3, <1>6, <1>7, <1>8, <1>9, <1>10 DEF IInv, TypeOK

LEMMA FinishInv == ASSUME IInv, Finish(Main) PROVE IInv'
<1>1. /\ Caller = {Main} /\ Main \in Caller /\ pc[Main] = "walk" /\ ~Halts
      /\ joins[Main] = 0 /\ halting[Main] = Cap
      /\ UNCHANGED <<table, players, halting, release, joins, limit, nextSeq, joined, ended>>
  BY Bounds DEF IInv, Finish, Halts, Places
<1>2. call[Main].kind = "free" =>
        call[Main].clip \in Clip /\ \A ch \in Channel : clip[ch] # call[Main].clip
  <2> SUFFICES ASSUME call[Main].kind = "free", NEW ch \in Channel
               PROVE  call[Main].clip \in Clip /\ clip[ch] # call[Main].clip
    BY <1>1, Bounds DEF IInv, Places
  <2>1. CASE ch < at[Main]
    BY <1>1, <2>1 DEF IInv, Walked, Places
  <2>2. CASE ch >= at[Main]
    BY <1>1, <2>2 DEF Finish, ToHalt, IInv, Places
  <2>3. QED
    BY <1>1, <2>1, <2>2, Bounds DEF IInv, TypeOK, CallersTyped
<1>3. pc'[Main] = "user" /\ call'[Main] = NoCall /\ ~Halts'
  BY <1>1 DEF IInv, TypeOK, CallersTyped, Finish, Halts
<1>4. freed' \in {freed, freed \cup {call[Main].clip}} /\ freed' \subseteq Clip
      /\ \A ch \in Channel : clip[ch] \notin freed'
  BY <1>2 DEF Finish, IInv, TypeOK, RestTyped, Clips
<1>5. TypeOK'
  <2>1. CallersTyped'
    BY <1>1, NoCallTyped, Bounds DEF IInv, TypeOK, CallersTyped, Finish
  <2>2. RestTyped'
    BY <1>1, <1>4 DEF IInv, TypeOK, RestTyped, Finish
  <2>3. TableTyped' /\ PlayersTyped'
    BY <1>1 DEF IInv, TypeOK, TableTyped, PlayersTyped, table, players
  <2>4. QED
    BY <2>1, <2>2, <2>3 DEF TypeOK
<1>6. Streams' /\ NoThreadLost' /\ Clips'
  BY <1>1, <1>4 DEF IInv, Streams, Running, NoThreadLost, Clips, table, players
<1>7. Places' /\ Joinable' /\ Walked' /\ Reserved'
  BY <1>1, <1>3, NoCallTyped DEF IInv, Places, Joinable, Joining, Walked, Reserved,
     table, Playing
<1>8. QED
  BY <1>1, <1>5, <1>6, <1>7 DEF IInv

LEMMA SetMaxInv == ASSUME IInv, NEW n \in Limits, SetMax(n) PROVE IInv'
<1>1. limit' \in 1..Cap /\ UNCHANGED <<lock, table, players, callers, nextSeq, freed, joined, ended>>
  BY AudioAssumption DEF AudioAssumption, SetMax, ClampLimit
<1>2. TypeOK'
  BY <1>1 DEF IInv, TypeOK, TableTyped, PlayersTyped, CallersTyped, RestTyped, table, players,
     callers
<1>3. Streams' /\ NoThreadLost' /\ Clips'
  BY <1>1 DEF IInv, Streams, Running, NoThreadLost, Clips, table, players, callers
<1>4. Places' /\ Joinable' /\ Walked' /\ Reserved'
  BY <1>1 DEF IInv, Places, Joinable, Joining, Walked, Reserved, Halts, table, callers
<1>5. QED
  BY <1>2, <1>3, <1>4 DEF IInv

-----------------------------------------------------------------------------
(* Playback threads.                                                        *)

\* What a thread leaves alone, but for `active', which it only takes away.
LEMMA CallersKept ==
  ASSUME IInv,
         UNCHANGED <<lock, clip, thread, joinable, locked, callers, rest>>,
         \A ch \in Channel : active'[ch] => active[ch]
  PROVE  Places' /\ Joinable' /\ NoThreadLost' /\ Clips' /\ Walked' /\ Reserved'
<1>1. Halts' <=> Halts
  BY DEF Halts, callers
<1>2. Places'
  BY <1>1 DEF IInv, Places, callers, rest
<1>3. Joinable'
  <2>1. Joining' = Joining
    BY DEF Joining, callers
  <2>2. at[Main] \in Channel \/ ~(Halts /\ call[Main].kind \in Playing)
    BY DEF IInv, Places
  <2>3. QED
    BY <1>1, <2>1, <2>2 DEF IInv, Joinable, callers, rest
<1>4. NoThreadLost' /\ Clips'
  BY DEF IInv, NoThreadLost, Clips, callers, rest
<1>5. Walked' /\ Reserved'
  BY <1>1 DEF IInv, Walked, Reserved, callers
<1>6. QED
  BY <1>2, <1>3, <1>4, <1>5

LEMMA StartsInv == ASSUME IInv, NEW t \in Playback, ThreadStarts(t) PROVE IInv'
<1>1. /\ UNCHANGED <<lock, table, on, frame, open, callers, rest>>
      /\ tpc[t] = "start" /\ on[t] \in Channel
      /\ \A u \in Playback : /\ tpc'[u] = IF u = t THEN "check" ELSE tpc[u]
                             /\ tclip'[u] = IF u = t THEN clip[on[t]] ELSE tclip[u]
  BY DEF IInv, TypeOK, PlayersTyped, ThreadStarts
<1>2. TypeOK'
  <2>1. PlayersTyped'
    BY <1>1 DEF IInv, TypeOK, PlayersTyped, TableTyped, ThreadStarts
  <2>2. TableTyped' /\ CallersTyped' /\ RestTyped'
    BY <1>1 DEF IInv, TypeOK, TableTyped, CallersTyped, RestTyped, table, callers, rest
  <2>3. QED
    BY <2>1, <2>2 DEF TypeOK
<1>3. Streams'
  <2>1. UNCHANGED <<active, thread, clip, pcm, on, open, nextSeq>>
    BY <1>1 DEF table, rest
  <2>2. \A u \in Playback : Running(u)' <=> Running(u)
    BY <1>1 DEF Running
  <2>3. /\ \A u \in Playback : tpc'[u] \in {"check", "write", "exit"} => tclip'[u] = clip[on[u]]
        /\ \A u \in Playback : tpc'[u] \in {"none", "start", "done"} => tclip'[u] = NoClip
        /\ \A u \in Playback : u >= nextSeq => tpc'[u] = "none"
    BY <1>1 DEF IInv, Streams
  <2>4. /\ \A ch \in Channel : active[ch] =>
             /\ thread[ch] \in Playback /\ Running(thread[ch])
             /\ on[thread[ch]] = ch /\ pcm[ch] = thread[ch]
        /\ \A u \in Playback : Running(u) => active[on[u]] /\ thread[on[u]] = u
        /\ open = {thread[ch] : ch \in {x \in Channel : active[x]}}
    BY DEF IInv, Streams
  <2>5. QED
    BY <2>1, <2>2, <2>3, <2>4 DEF Streams
<1>4. Places' /\ Joinable' /\ NoThreadLost' /\ Clips' /\ Walked' /\ Reserved'
  BY <1>1, CallersKept DEF table
<1>5. QED
  BY <1>2, <1>3, <1>4 DEF IInv

LEMMA PlaysInv == ASSUME IInv, NEW t \in Playback, Check(t) \/ Write(t) PROVE IInv'
<1>1. /\ UNCHANGED <<lock, table, on, tclip, open, callers, rest>>
      /\ tpc[t] \in {"check", "write"}
      /\ \A u \in Playback : IF u = t THEN tpc'[u] \in {"check", "write", "exit"}
                             ELSE tpc'[u] = tpc[u]
  BY DEF IInv, TypeOK, PlayersTyped, Check, Write
<1>2. TypeOK'
  <2>1. frame[t] \in Nat /\ frame \in [Playback -> Nat] /\ frame' \in [Playback -> Nat]
    BY DEF IInv, TypeOK, PlayersTyped, Check, Write
  <2>2. PlayersTyped'
    BY <1>1, <2>1 DEF IInv, TypeOK, PlayersTyped, Check, Write
  <2>3. TableTyped' /\ CallersTyped' /\ RestTyped'
    BY <1>1 DEF IInv, TypeOK, TableTyped, CallersTyped, RestTyped, table, callers, rest
  <2>4. QED
    BY <2>2, <2>3 DEF TypeOK
<1>3. Streams'
  <2>1. UNCHANGED <<active, thread, clip, pcm, on, open, nextSeq, tclip>>
    BY <1>1 DEF table, rest
  <2>2. \A u \in Playback : Running(u)' <=> Running(u)
    BY <1>1 DEF Running
  <2>3. /\ \A u \in Playback : tpc'[u] \in {"check", "write", "exit"} => tclip[u] = clip[on[u]]
        /\ \A u \in Playback : tpc'[u] \in {"none", "start", "done"} => tclip[u] = NoClip
        /\ \A u \in Playback : u >= nextSeq => tpc'[u] = "none"
    BY <1>1 DEF IInv, Streams
  <2>4. /\ \A ch \in Channel : active[ch] =>
             /\ thread[ch] \in Playback /\ Running(thread[ch])
             /\ on[thread[ch]] = ch /\ pcm[ch] = thread[ch]
        /\ \A u \in Playback : Running(u) => active[on[u]] /\ thread[on[u]] = u
        /\ open = {thread[ch] : ch \in {x \in Channel : active[x]}}
    BY DEF IInv, Streams
  <2>5. QED
    BY <2>1, <2>2, <2>3, <2>4 DEF Streams
<1>4. Places' /\ Joinable' /\ NoThreadLost' /\ Clips' /\ Walked' /\ Reserved'
  BY <1>1, CallersKept DEF table
<1>5. QED
  BY <1>2, <1>3, <1>4 DEF IInv

LEMMA ExitsInv == ASSUME IInv, NEW t \in Playback, ThreadExits(t) PROVE IInv'
<1> DEFINE h == on[t]
<1>1. h \in Channel /\ active[h] /\ thread[h] = t /\ pcm[h] = t /\ tpc[t] = "exit"
  BY DEF IInv, TypeOK, PlayersTyped, Streams, Running, ThreadExits
<1> HIDE DEF h
<1>2. /\ UNCHANGED <<lock, clip, thread, joinable, stop, locked, callers, rest>>
      /\ open' = open \ {t}
      /\ \A ch \in Channel : /\ active'[ch] <=> active[ch] /\ ch # h
                             /\ pcm'[ch] = IF ch = h THEN 0 ELSE pcm[ch]
      /\ \A u \in Playback : /\ tpc'[u] = IF u = t THEN "done" ELSE tpc[u]
                             /\ on'[u] = IF u = t THEN 0 ELSE on[u]
                             /\ tclip'[u] = IF u = t THEN NoClip ELSE tclip[u]
  BY <1>1 DEF IInv, TypeOK, TableTyped, PlayersTyped, ThreadExits, ActiveAfterExit, h
<1>3. TypeOK'
  <2>1. PlayersTyped'
    BY <1>1, Bounds DEF IInv, TypeOK, PlayersTyped, ThreadExits, h
  <2>2. TableTyped'
    BY <1>1, Bounds DEF IInv, TypeOK, TableTyped, ThreadExits, ActiveAfterExit, h
  <2>3. CallersTyped' /\ RestTyped'
    BY <1>2 DEF IInv, TypeOK, CallersTyped, RestTyped, callers, rest
  <2>4. QED
    BY <2>1, <2>2, <2>3 DEF TypeOK
<1>4. Streams'
  <2>1. \A ch \in Channel : active'[ch] => thread[ch] # t
    BY <1>1, <1>2 DEF IInv, Streams, h
  <2>2. \A ch \in Channel : active'[ch] =>
             /\ thread[ch] \in Playback /\ Running(thread[ch])'
             /\ on'[thread[ch]] = ch /\ pcm'[ch] = thread[ch]
    BY <1>2, <2>1 DEF IInv, Streams, Running
  <2>3. \A u \in Playback : Running(u)' => Running(u) /\ u # t
    BY <1>2 DEF Running
  <2>4. \A u \in Playback : Running(u)' => active'[on'[u]] /\ thread[on'[u]] = u
    <3> SUFFICES ASSUME NEW u \in Playback, Running(u)'
                 PROVE  active'[on'[u]] /\ thread[on'[u]] = u
      OBVIOUS
    <3>1. on[u] \in Channel /\ active[on[u]] /\ thread[on[u]] = u /\ u # t
      BY <2>3 DEF IInv, TypeOK, PlayersTyped, Streams
    <3>2. QED
      BY <1>1, <1>2, <3>1
  <2>5. /\ \A u \in Playback : tpc'[u] \in {"check", "write", "exit"} => tclip'[u] = clip[on'[u]]
        /\ \A u \in Playback : tpc'[u] \in {"none", "start", "done"} => tclip'[u] = NoClip
        /\ \A u \in Playback : u >= nextSeq => tpc'[u] = "none"
    BY <1>1, <1>2 DEF IInv, Streams
  <2>6. open' = {thread[ch] : ch \in {x \in Channel : active'[x]}}
    <3>1. open = {thread[ch] : ch \in {x \in Channel : active[x]}}
      BY DEF IInv, Streams
    <3>2. \A ch \in Channel : active[ch] /\ thread[ch] = t => ch = h
      BY DEF IInv, Streams, h
    <3>3. QED
      BY <1>1, <1>2, <3>1, <3>2
  <2>7. QED
    BY <1>2, <2>2, <2>4, <2>5, <2>6 DEF Streams, rest
<1>5. Places' /\ Joinable' /\ NoThreadLost' /\ Clips' /\ Walked' /\ Reserved'
  BY <1>2, CallersKept
<1>6. QED
  BY <1>3, <1>4, <1>5 DEF IInv

-----------------------------------------------------------------------------
(* Every step.                                                              *)

LEMMA Kinds ==
  ASSUME IInv, Next
  PROVE  \/ Halt(Main) \/ Join(Main) \/ Halted(Main)
         \/ TakeIdle(Main) \/ Recheck(Main) \/ Steal(Main) \/ Drop(Main) \/ Start(Main)
         \/ Refused(Main) \/ Walk(Main) \/ Finish(Main)
         \/ \E a \in Clip, kind \in Calls : Play(Main, kind, a)
         \/ \E a \in Clip, kind \in Calls, n \in Numbers : PlayOn(Main, kind, a, n)
         \/ \E n \in Numbers : StopPlayer(n)
         \/ (\E a \in Clip : StopClip(Main, a) \/ Free(Main, a)) \/ StopAll
         \/ \E n \in Limits : SetMax(n)
         \/ \E t \in Playback : ThreadStarts(t) \/ Check(t) \/ Write(t) \/ ThreadExits(t)
         \/ UNCHANGED vars
BY DEF IInv, Next, CallerCalls, CallerStep, MainCalls, PlayerStep, Ended

LEMMA StutterInv == ASSUME IInv, UNCHANGED vars PROVE IInv'
<1>1. UNCHANGED <<lock, table, players, callers, rest>>
  BY DEF vars
<1>2. TypeOK'
  BY <1>1 DEF IInv, TypeOK, TableTyped, PlayersTyped, CallersTyped, RestTyped, table, players,
     callers, rest
<1>3. Streams'
  BY <1>1 DEF IInv, Streams, Running, table, players, rest
<1>4. Places' /\ Joinable' /\ NoThreadLost' /\ Clips' /\ Walked' /\ Reserved'
  BY <1>1, CallersKept DEF table
<1>5. QED
  BY <1>2, <1>3, <1>4 DEF IInv

LEMMA StepInv == IInv /\ [Next]_vars => IInv'
<1> SUFFICES ASSUME IInv, [Next]_vars PROVE IInv'
  OBVIOUS
<1>1. CASE Next
  <2>1. CASE Halt(Main) \/ Join(Main) \/ Halted(Main)
    BY <2>1, HaltInv, JoinInv, HaltedInv
  <2>2. CASE TakeIdle(Main) \/ Recheck(Main) \/ Steal(Main) \/ Drop(Main) \/ Start(Main)
             \/ Refused(Main)
    BY <2>2, TakeIdleInv, RecheckInv, StealInv, DropInv, StartInv, RefusedInv
  <2>3. CASE Walk(Main) \/ Finish(Main)
    BY <2>3, WalkInv, FinishInv
  <2>4. CASE \/ \E a \in Clip, kind \in Calls : Play(Main, kind, a)
             \/ \E a \in Clip, kind \in Calls, n \in Numbers : PlayOn(Main, kind, a, n)
    BY <2>4, PlayInv, PlayOnInv
  <2>5. CASE \/ \E n \in Numbers : StopPlayer(n)
             \/ (\E a \in Clip : StopClip(Main, a) \/ Free(Main, a)) \/ StopAll
             \/ \E n \in Limits : SetMax(n)
    BY <2>5, StopPlayerInv, StopInv, SetMaxInv
  <2>6. CASE \E t \in Playback : ThreadStarts(t) \/ Check(t) \/ Write(t) \/ ThreadExits(t)
    BY <2>6, StartsInv, PlaysInv, ExitsInv
  <2>7. CASE UNCHANGED vars
    BY <2>7, StutterInv
  <2>8. QED
    BY <1>1, <2>1, <2>2, <2>3, <2>4, <2>5, <2>6, <2>7, Kinds
<1>2. CASE UNCHANGED vars
  BY <1>2, StutterInv
<1>3. QED
  BY <1>1, <1>2

LEMMA Invariant == ASSUME Caller = {Main} PROVE Spec => []IInv
<1>1. Init => IInv
  BY InitInv
<1>2. QED
  BY <1>1, StepInv, PTL DEF Spec

-----------------------------------------------------------------------------
(* The properties.                                                          *)

\* Every reachable state of the table, the playback threads and the caller is well typed:
\* channel numbers, the limit and the positions of festina_audio_claim_channel stay in
\* range, and counters below the bound.
THEOREM ChannelsTyped == ASSUME Caller = {Main} PROVE Spec => []TypeOK
<1>1. IInv => TypeOK
  BY DEF IInv
<1>2. QED
  BY <1>1, Invariant, PTL

\* festina_audio_free releases samples that no playback thread streams or will stream.
THEOREM NoFreedClip == ASSUME Caller = {Main} PROVE Spec => []StreamedClipAlive
<1>1. IInv => StreamedClipAlive
  <2> SUFFICES ASSUME IInv, NEW t \in Playback
               PROVE  /\ tpc[t] = "start" => clip[on[t]] \notin freed
                      /\ tpc[t] \in {"check", "write"} => tclip[t] \notin freed
    BY DEF StreamedClipAlive
  <2>1. on[t] \in Channel /\ clip[on[t]] \notin freed
    BY DEF IInv, TypeOK, PlayersTyped, Clips
  <2>2. tpc[t] \in {"check", "write"} => tclip[t] = clip[on[t]]
    BY DEF IInv, Streams
  <2>3. QED
    BY <2>1, <2>2
<1>2. QED
  BY <1>1, Invariant, PTL

\* A channel has one playback thread and one device while it is active, none otherwise.
THEOREM OneStream == ASSUME Caller = {Main} PROVE Spec => []OneStreamPerChannel
<1>1. IInv => OneStreamPerChannel
  <2> SUFFICES ASSUME IInv PROVE OneStreamPerChannel
    OBVIOUS
  <2>1. \A ch \in Channel : {t \in Playback : Running(t) /\ on[t] = ch}
                              = IF active[ch] THEN {thread[ch]} ELSE {}
    BY DEF IInv, Streams
  <2>2. /\ open = {thread[ch] : ch \in {x \in Channel : active[x]}}
        /\ \A ch \in Channel : active[ch] => pcm[ch] = thread[ch]
    BY DEF IInv, Streams
  <2>3. QED
    BY <2>1, <2>2 DEF OneStreamPerChannel
<1>2. QED
  BY <1>1, Invariant, PTL

\* No playback thread is forgotten before it is joined.
THEOREM EveryThreadJoinable == ASSUME Caller = {Main} PROVE Spec => []NoThreadLost
<1>1. IInv => NoThreadLost
  BY DEF IInv
<1>2. QED
  BY <1>1, Invariant, PTL

-----------------------------------------------------------------------------
(* What a call names.                                                       *)

\* A call works on the channel it names; a stop or a release halts the channels of its
\* clip; and when stopAudioPlayer(n) is past its channel, the channel is idle.
Named ==
  /\ pc[Main] \in {"below", "above", "recheck"} \/ (pc[Main] = "join" /\ halting[Main] = Cap)
       => ~Explicit(call[Main].kind)
  /\ Explicit(call[Main].kind) => at[Main] = call[Main].channel
  /\ call[Main].kind = "stopPlayer" =>
       at[Main] = Cap /\ call[Main].channel \in Channel
         /\ (Halts => halting[Main] = call[Main].channel)
         /\ (pc[Main] = "walk" => ~active[call[Main].channel])
  /\ Halts /\ call[Main].kind \in {"stop", "free"} => clip[halting[Main]] = call[Main].clip

LEMMA NamedInit == Caller = {Main} /\ Init => Named
BY Bounds DEF Init, Named, NoCall, Explicit, Halts

\* A call that changes no argument and no flag of its channel.
LEMMA NamedKept ==
  ASSUME IInv, Named, UNCHANGED <<pc, call, at, halting, clip>>,
         \A ch \in Channel : active'[ch] => active[ch]
  PROVE  Named'
BY DEF Named, Halts

LEMMA NamedHalting ==
  ASSUME IInv, Named, Halt(Main) \/ Join(Main) \/ Halted(Main) PROVE Named'
<1>1. Main \in Caller /\ Caller = {Main}
  BY Bounds DEF IInv
<1>2. CASE Halt(Main)
  <2>1. UNCHANGED <<clip, active, call, at, halting>> /\ Halts /\ halting[Main] # Cap
    BY <1>1, <1>2, Bounds DEF Halt, Halts, IInv, Places
  <2>2. pc'[Main] \in {"join", "halted"}
    BY <1>1, <1>2 DEF Halt, Reap, IInv, TypeOK, CallersTyped
  <2>3. QED
    BY <2>1, <2>2 DEF Named, Halts
<1>3. CASE Join(Main)
  <2>1. UNCHANGED <<clip, active, call, at, halting>> /\ pc[Main] = "join"
    BY <1>3 DEF Join, table
  <2>2. pc'[Main] = IF halting[Main] = Cap THEN "recheck" ELSE "halted"
    BY <1>1, <1>3 DEF Join, IInv, TypeOK, CallersTyped
  <2>3. QED
    BY <2>1, <2>2 DEF Named, Halts
<1>4. CASE Halted(Main)
  <2>1. /\ UNCHANGED <<active, call, at>> /\ Halts /\ halting[Main] \in Channel
        /\ ~active[halting[Main]]
    BY <1>1, <1>4 DEF Halted, Halts, IInv, Places, Joinable
  <2>2. pc'[Main] = call[Main].back /\ call[Main].back \in {"open", "walk"}
    BY <1>1, <1>4, <2>1 DEF Halted, IInv, TypeOK, CallersTyped, Places
  <2>3. ~Halts'
    BY <2>2 DEF Halts
  <2>4. QED
    BY <2>1, <2>2, <2>3 DEF Named
<1>5. QED
  BY <1>2, <1>3, <1>4

LEMMA NamedClaim ==
  ASSUME IInv, Named, TakeIdle(Main) \/ Recheck(Main) \/ Steal(Main) PROVE Named'
<1>1. /\ Main \in Caller /\ Caller = {Main} /\ halting[Main] = Cap
      /\ pc[Main] \in {"below", "above", "recheck"} /\ call[Main].kind \in Playing
  BY Bounds DEF IInv, TakeIdle, Recheck, Steal, Places
<1>2. call[Main].kind \in {"play", "playLoop"}
  BY <1>1 DEF Named, Playing, Explicit
<1>3. call'[Main].kind = call[Main].kind
  <2>1. CASE TakeIdle(Main) \/ Recheck(Main)
    BY <2>1 DEF TakeIdle, Recheck
  <2>2. CASE Steal(Main)
    BY <1>1, <2>2 DEF Steal, HaltNext, IInv, TypeOK, CallersTyped, CallRecord
  <2>3. QED
    BY <2>1, <2>2
<1>4. QED
  BY <1>2, <1>3 DEF Named, Explicit

LEMMA NamedOpen ==
  ASSUME IInv, Named, Drop(Main) \/ Start(Main) \/ Refused(Main) \/ Finish(Main) PROVE Named'
<1>1. Main \in Caller /\ Caller = {Main}
  BY Bounds DEF IInv
<1>2. CASE Drop(Main) \/ Start(Main) \/ Finish(Main)
  <2>1. call'[Main] = NoCall /\ pc'[Main] = "user"
    BY <1>1, <1>2 DEF Drop, Start, Finish, IInv, TypeOK, CallersTyped
  <2>2. QED
    BY <2>1 DEF Named, NoCall, Explicit, Halts
<1>3. CASE Refused(Main)
  <2>1. pc[Main] = "open" /\ call[Main].kind \in Playing /\ UNCHANGED <<clip, active, at>>
    BY <1>3 DEF Refused, IInv, Places, table
  <2>2. CASE UNCHANGED <<pc, halting, call>>
    BY <2>1, <2>2 DEF Named, Halts
  <2>3. CASE Victims(Channel \ {at[Main]}) # {}
    <3>1. HaltNext(Main, Oldest(Victims(Channel \ {at[Main]})), FALSE, "open")
      BY <1>3, <2>3 DEF Refused
    <3>2. /\ pc'[Main] = "halt" /\ call'[Main].kind = call[Main].kind
          /\ call'[Main].channel = call[Main].channel
      BY <1>1, <3>1 DEF HaltNext, IInv, TypeOK, CallersTyped, CallRecord
    <3>3. QED
      BY <2>1, <3>2 DEF Named, Playing
  <2>4. QED
    BY <1>3, <2>2, <2>3 DEF Refused
<1>4. QED
  BY <1>2, <1>3

LEMMA NamedWalk == ASSUME IInv, Named, Walk(Main) PROVE Named'
<1> DEFINE h == First(ToHalt(Main))
<1>1. h \in ToHalt(Main) /\ h \in Channel
  <2>1. ToHalt(Main) \in SUBSET Channel /\ ToHalt(Main) # {}
    BY DEF Walk, ToHalt
  <2>2. QED
    BY <2>1, FirstIn
<1>2. HaltNext(Main, h, TRUE, "walk") /\ UNCHANGED <<clip, active>>
  BY DEF Walk, table
<1>3. h >= at[Main] /\ (call[Main].kind = "stopAll" \/ clip[h] = call[Main].clip)
  BY <1>1 DEF ToHalt
<1> HIDE DEF h
<1>4. pc[Main] = "walk" /\ call[Main].kind \in Stopping
  BY DEF Walk, IInv, Places
<1>5. call[Main].kind # "stopPlayer"
  BY <1>1, <1>3, Bounds DEF Named, Channel
<1>6. /\ pc'[Main] = "halt" /\ halting'[Main] = h
      /\ call'[Main].kind = call[Main].kind /\ call'[Main].clip = call[Main].clip
  BY <1>1, <1>2, HaltNextShape
<1>7. QED
  BY <1>2, <1>3, <1>4, <1>5, <1>6 DEF Named, Stopping, Explicit

LEMMA NamedCall ==
  ASSUME IInv, Named,
         \/ \E a \in Clip, kind \in Calls : Play(Main, kind, a)
         \/ \E a \in Clip, kind \in Calls, n \in Numbers : PlayOn(Main, kind, a, n)
         \/ \E n \in Numbers : StopPlayer(n)
         \/ (\E a \in Clip : StopClip(Main, a) \/ Free(Main, a)) \/ StopAll
  PROVE  Named'
<1>1. Main \in Caller /\ Caller = {Main}
  BY Bounds DEF IInv
<1>2. ASSUME NEW a \in Clip, NEW kind \in Calls, Play(Main, kind, a) PROVE Named'
  <2>1. kind \in {"play", "playLoop"} /\ call'[Main].kind = kind
    BY <1>1, <1>2 DEF Play, NoCall, IInv, TypeOK, CallersTyped
  <2>2. QED
    BY <2>1 DEF Named, Explicit
<1>3. ASSUME NEW a \in Clip, NEW kind \in Calls, NEW n \in Numbers, PlayOn(Main, kind, a, n)
      PROVE  Named'
  <2>1. Explicit(kind) /\ call'[Main].kind = kind /\ call'[Main].channel = ClampChannel(n)
        /\ at'[Main] = ClampChannel(n) /\ pc'[Main] = "halt"
    BY <1>1, <1>3 DEF PlayOn, IInv, TypeOK, CallersTyped
  <2>2. QED
    BY <2>1 DEF Named, Explicit
<1>4. ASSUME NEW n \in Numbers, StopPlayer(n) PROVE Named'
  <2>1. /\ call'[Main].kind = "stopPlayer" /\ call'[Main].channel = ClampChannel(n)
        /\ at'[Main] = Cap /\ pc'[Main] = "halt" /\ halting'[Main] = ClampChannel(n)
    BY <1>1, <1>4 DEF StopPlayer, NoCall, IInv, TypeOK, CallersTyped
  <2>2. QED
    BY <2>1, ClampIn DEF Named, Explicit
<1>5. ASSUME (\E a \in Clip : StopClip(Main, a) \/ Free(Main, a)) \/ StopAll PROVE Named'
  <2>1. PICK kind \in {"stop", "free", "stopAll"}, a \in Clip \cup {NoClip} :
          Begin(Main, kind, a, 0)
    BY <1>5 DEF StopClip, Free, StopAll
  <2>3. call'[Main].kind = kind /\ pc'[Main] = "walk"
    BY <1>1, <2>1 DEF Begin, NoCall, IInv, TypeOK, CallersTyped
  <2>2. QED
    BY <2>3 DEF Named, Explicit, Halts
<1>6. QED
  BY <1>2, <1>3, <1>4, <1>5

LEMMA NamedStep == IInv /\ Named /\ [Next]_vars => Named'
<1> SUFFICES ASSUME IInv, Named, [Next]_vars PROVE Named'
  OBVIOUS
<1>1. ASSUME UNCHANGED vars PROVE Named'
  BY <1>1, NamedKept DEF vars, table, callers
<1>2. ASSUME NEW t \in Playback, ThreadStarts(t) \/ Check(t) \/ Write(t) \/ ThreadExits(t)
      PROVE  Named'
  <2>1. UNCHANGED <<pc, call, at, halting, clip>>
    BY <1>2 DEF ThreadStarts, Check, Write, ThreadExits, callers, table
  <2>2. active' = active \/ active' = [active EXCEPT ![on[t]] = FALSE]
    BY <1>2 DEF ThreadStarts, Check, Write, ThreadExits, ActiveAfterExit, table
  <2>3. \A ch \in Channel : active'[ch] => active[ch]
    BY <2>2 DEF IInv, TypeOK, TableTyped
  <2>4. QED
    BY <2>1, <2>3, NamedKept
<1>3. ASSUME NEW n \in Limits, SetMax(n) PROVE Named'
  BY <1>3, NamedKept DEF SetMax, table, callers
<1>4. CASE Next
  BY <1>1, <1>2, <1>3, <1>4, Kinds, NamedHalting, NamedClaim, NamedOpen, NamedWalk, NamedCall
<1>5. QED
  BY <1>1, <1>4

LEMMA NamedInvariant == ASSUME Caller = {Main} PROVE Spec => [](IInv /\ Named)
<1>1. Init => IInv /\ Named
  BY InitInv, NamedInit
<1>2. IInv /\ Named /\ [Next]_vars => (IInv /\ Named)'
  BY StepInv, NamedStep
<1>3. QED
  BY <1>1, <1>2, PTL DEF Spec

LEMMA BeginShape ==
  ASSUME IInv, NEW kind, NEW a, Begin(Main, kind, a, 0)
  PROVE  call'[Main].kind = kind /\ call'[Main].clip = a
BY Bounds DEF Begin, NoCall, IInv, TypeOK, CallersTyped

LEMMA ReservedStep ==
  ASSUME IInv, Named, Next, NEW ch \in Channel,
         locked[ch] /\ (~locked'[ch] \/ (stop'[ch] /\ ~stop[ch]))
  PROVE  MayTake(Main, ch) \/ MayTake(Main, ch)'
<1> DEFINE Same == UNCHANGED <<stop, locked>>
<1>1. ~Same
  OBVIOUS
<1>2. CASE Halt(Main) \/ Halted(Main)
  <2>1. Halts
    BY <1>2 DEF Halts, Halt, Halted
  <2>2. ch = halting[Main] /\ release[Main]
    BY <1>2, <2>1 DEF IInv, TypeOK, TableTyped, Halt, Halted, Reserved
  <2>3. \/ call[Main].kind \in Stopping
        \/ Explicit(call[Main].kind) /\ at[Main] = halting[Main]
    BY <2>1, <2>2 DEF IInv, Reserved
  <2>4. CASE Explicit(call[Main].kind)
    <3>1. at[Main] = call[Main].channel /\ call[Main].kind \notin Stopping
      BY <2>4 DEF Named, Explicit, Stopping
    <3>2. QED
      BY <2>2, <2>3, <2>4, <3>1 DEF MayTake
  <2>5. CASE call[Main].kind \in Stopping
    BY <2>1, <2>2, <2>5 DEF MayTake, Named, Stopping
  <2>6. QED
    BY <2>3, <2>4, <2>5
<1>3. CASE Start(Main)
  <2>1. ch = at[Main]
    BY <1>3 DEF IInv, TypeOK, TableTyped, Start
  <2>2. Explicit(call[Main].kind)
    BY <1>3, <2>1 DEF IInv, Reserved, Places, Start, Playing, Explicit
  <2>3. QED
    BY <2>1, <2>2 DEF MayTake, Named
<1>4. CASE (\E a \in Clip : StopClip(Main, a) \/ Free(Main, a)) \/ StopAll
  <2>1. ASSUME NEW a \in Clip, StopClip(Main, a) \/ Free(Main, a)
        PROVE  MayTake(Main, ch)'
    <3>1. call'[Main].kind \in {"stop", "free"} /\ call'[Main].clip = a /\ clip' = clip
      BY <2>1, BeginShape DEF StopClip, Free, Begin
    <3>2. locked'[ch] <=> locked[ch]
      BY <2>1 DEF StopClip, Free, Begin
    <3>3. stop'[ch] /\ ~stop[ch] => clip[ch] = a
      BY <2>1 DEF StopClip, Free
    <3>4. QED
      BY <3>1, <3>2, <3>3 DEF MayTake
  <2>2. ASSUME StopAll PROVE MayTake(Main, ch)'
    <3>1. call'[Main].kind = "stopAll"
      BY <2>2, BeginShape DEF StopAll
    <3>2. QED
      BY <3>1 DEF MayTake
  <2>3. QED
    BY <1>4, <2>1, <2>2
<1>5. CASE Join(Main) \/ TakeIdle(Main) \/ Recheck(Main) \/ Steal(Main) \/ Drop(Main)
           \/ Refused(Main) \/ Walk(Main) \/ Finish(Main)
  BY <1>1, <1>5 DEF Join, TakeIdle, Recheck, Steal, Drop, Refused, Walk, Finish, table
<1>6. CASE \/ \E a \in Clip, kind \in Calls : Play(Main, kind, a)
           \/ \E a \in Clip, kind \in Calls, n \in Numbers : PlayOn(Main, kind, a, n)
           \/ (\E n \in Numbers : StopPlayer(n)) \/ (\E n \in Limits : SetMax(n))
  BY <1>1, <1>6 DEF Play, PlayOn, StopPlayer, SetMax, table
<1>7. CASE \/ \E t \in Playback : ThreadStarts(t) \/ Check(t) \/ Write(t) \/ ThreadExits(t)
           \/ UNCHANGED vars
  BY <1>1, <1>7 DEF ThreadStarts, Check, Write, ThreadExits, vars, table
<1>8. QED
  BY <1>2, <1>3, <1>4, <1>5, <1>6, <1>7, Kinds

\* A channel that playLoop reserved is cut off, or given back to the pool, only by a call
\* that names the channel or the clip it was given, or by one that names every channel:
\* automatic assignment and a refused device never touch it.
THEOREM ReservationsHold == ASSUME Caller = {Main} PROVE Spec => ReservedKept
<1> DEFINE A == \A ch \in Channel :
                  locked[ch] /\ (~locked'[ch] \/ (stop'[ch] /\ ~stop[ch]))
                    => \E c \in Caller : MayTake(c, ch) \/ MayTake(c, ch)'
<1>1. IInv /\ Named /\ [Next]_vars => [A]_vars
  BY ReservedStep, Bounds
<1>2. QED
  BY <1>1, NamedInvariant, PTL DEF Spec, ReservedKept

LEMMA ReturnStep ==
  ASSUME IInv, Next, pc[Main] = "walk", pc'[Main] = "user" PROVE Finish(Main)
<1>1. Main \in Caller /\ Caller = {Main}
  BY Bounds DEF IInv
<1>2. ~(Halt(Main) \/ Join(Main) \/ Halted(Main) \/ TakeIdle(Main) \/ Recheck(Main)
        \/ Steal(Main) \/ Drop(Main) \/ Start(Main) \/ Refused(Main))
  BY DEF Halt, Join, Halted, TakeIdle, Recheck, Steal, Drop, Start, Refused
<1>3. ~Walk(Main)
  BY <1>1 DEF Walk, HaltNext, IInv, TypeOK, CallersTyped
<1>4. ~(\/ \E a \in Clip, kind \in Calls : Play(Main, kind, a)
        \/ \E a \in Clip, kind \in Calls, n \in Numbers : PlayOn(Main, kind, a, n)
        \/ \E n \in Numbers : StopPlayer(n)
        \/ (\E a \in Clip : StopClip(Main, a) \/ Free(Main, a)) \/ StopAll
        \/ \E n \in Limits : SetMax(n))
  BY DEF Play, PlayOn, StopPlayer, StopClip, Free, StopAll, SetMax, Enter
<1>5. ~(\/ \E t \in Playback : ThreadStarts(t) \/ Check(t) \/ Write(t) \/ ThreadExits(t)
        \/ UNCHANGED vars)
  BY DEF ThreadStarts, Check, Write, ThreadExits, vars, callers
<1>6. QED
  BY <1>2, <1>3, <1>4, <1>5, Kinds

LEMMA FinishedIdle ==
  ASSUME IInv, Named, Finish(Main), NEW t \in Playback, Running(t) PROVE ~Ends(Main, t)
<1>1. Main \in Caller /\ pc[Main] = "walk" /\ ~Halts
  BY Bounds DEF IInv, Finish, Halts
<1>2. on[t] \in Channel /\ active[on[t]]
  BY DEF IInv, TypeOK, PlayersTyped, Streams
<1>3. on[t] < at[Main] \/ on[t] >= at[Main]
  BY <1>1, <1>2, Bounds DEF IInv, TypeOK, CallersTyped, Channel
<1>4. call[Main].kind # "stopAll"
  BY <1>1, <1>2, <1>3 DEF IInv, Walked, Finish, ToHalt
<1>5. call[Main].kind = "stopPlayer" => on[t] # call[Main].channel
  BY <1>1, <1>2 DEF Named
<1>6. ASSUME call[Main].kind \in {"stop", "free"} PROVE Streaming(t) # call[Main].clip
  <2>1. clip[on[t]] # call[Main].clip
    BY <1>1, <1>2, <1>3, <1>6 DEF IInv, Walked, Finish, ToHalt
  <2>2. Streaming(t) = clip[on[t]]
    BY DEF IInv, Streams, Running, Streaming
  <2>3. QED
    BY <2>1, <2>2
<1>7. QED
  BY <1>4, <1>5, <1>6 DEF Ends

\* When stop() or the release of a clip returns no thread streams the clip, or is about to;
\* when stopAudioPlayer(n) returns none plays on channel n; and when stopAudioPlayer()
\* returns none plays at all.
THEOREM StopsStop == ASSUME Caller = {Main} PROVE Spec => StopReturnsIdle
<1> DEFINE A == \A c \in Caller :
                  pc[c] = "walk" /\ pc'[c] = "user" =>
                    \A t \in Playback : Running(t) => ~Ends(c, t)
<1>1. IInv /\ Named /\ [Next]_vars => [A]_vars
  <2> SUFFICES ASSUME IInv, Named, Next PROVE A
    OBVIOUS
  <2> SUFFICES ASSUME pc[Main] = "walk", pc'[Main] = "user", NEW t \in Playback, Running(t)
               PROVE  ~Ends(Main, t)
    BY DEF IInv
  <2>1. Finish(Main)
    BY ReturnStep
  <2>2. QED
    BY <2>1, FinishedIdle
<1>2. QED
  BY <1>1, NamedInvariant, PTL DEF Spec, StopReturnsIdle
=============================================================================
