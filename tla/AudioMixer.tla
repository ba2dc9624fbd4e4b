----------------------------- MODULE AudioMixer -----------------------------
(***************************************************************************)
(* AudioMixer (src/src/audio_alsa.cpp): the event thread appends each      *)
(* stream's samples to a lane, or ramps the lane's gain; the playback      *)
(* thread mixes a block of every lane, resampled, and writes it.  They     *)
(* share the lanes under m_; the write is outside.  One stream for each    *)
(* rate, which names its lane.  Samples are counted, not valued: a ring is *)
(* the interval head..tail of its stream.  Time is a choice: lanes may be  *)
(* forgotten when empty, the thread may go idle when all are.              *)
(***************************************************************************)
EXTENDS Integers, FiniteSets, FiniteSetsExt

CONSTANTS
  Rates,      \* the rates of the streams
  OutRate,    \* out_rate_
  Block,      \* out_rate_ / 100
  Cap,        \* the backlog of a lane, in frames (a second's worth)
  Full,       \* the gain 1.0; a multiple of what ramps divide it by
  MaxFrames,  \* bound: frames in a stream
  MaxDucks    \* bound: ramps

ASSUME RatesOK == Rates \subseteq Nat \ {0} /\ OutRate \in Nat \ {0}
ASSUME SizesOK == Block \in Nat \ {0} /\ Cap \in Nat /\ Full \in Nat
ASSUME BoundsOK == MaxFrames \in Nat /\ MaxDucks \in Nat

VARIABLES
  running,   \* running_
  lane,      \* lane[r]: the lane of the stream of rate r, see NewLane
  playback,  \* the playback thread: "off", "top" of its loop, "open" or
             \* "write" after mixing, "done"
  pcm,       \* pcm_ is open
  main,      \* the application: "new", "up", "joining" in stop(), "stopped"
  ducks      \* how many ramps were begun

vars == <<running, lane, playback, pcm, main, ducks>>

\* A lane without audio that begins after n frames of its stream; pos is in
\* units of 1/OutRate frame, step is the gain's change per output frame.
NewLane(open, n) ==
  [open |-> open, head |-> n, tail |-> n, pos |-> 0,
   gain |-> Full, target |-> Full, step |-> 0]

TypeOK ==
  /\ running \in BOOLEAN
  /\ DOMAIN lane = Rates
  /\ \A r \in Rates :
       /\ lane[r].open \in BOOLEAN
       /\ {lane[r].head, lane[r].tail} \subseteq 0..MaxFrames
       /\ lane[r].pos \in Nat
       /\ {lane[r].gain, lane[r].target} \subseteq 0..Full
       /\ lane[r].step \in (-Full)..Full
  /\ playback \in {"off", "top", "open", "write", "done"}
  /\ pcm \in BOOLEAN
  /\ main \in {"new", "up", "joining", "stopped"}
  /\ ducks \in 0..MaxDucks

Init ==
  /\ running = FALSE
  /\ lane = [r \in Rates |-> NewLane(FALSE, 0)]
  /\ playback = "off"
  /\ pcm = FALSE
  /\ main = "new"
  /\ ducks = 0

(***************************************************************************)
(* The application.                                                        *)
(***************************************************************************)
Start ==
  /\ main = "new"
  /\ main' = "up"
  /\ running' = TRUE
  /\ playback' = "top"
  /\ UNCHANGED <<lane, pcm, ducks>>

Stop ==
  /\ main = "up"
  /\ main' = "joining"
  /\ running' = FALSE
  /\ UNCHANGED <<lane, playback, pcm, ducks>>

JoinAndClose ==
  /\ main = "joining"
  /\ playback = "done"
  /\ main' = "stopped"
  /\ pcm' = FALSE
  /\ UNCHANGED <<running, lane, playback, ducks>>

(***************************************************************************)
(* The event thread: submit().                                             *)
(***************************************************************************)
\* Mutant: the read position stays when the oldest frames are dropped.
Appended_KeepsPos(l, n) ==
  LET tail == l.tail + n
      head == Max({l.head, tail - Cap})
  IN  [l EXCEPT !.open = TRUE, !.tail = tail, !.head = head]

\* n frames (none in a control frame) behind what is in the ring; what is over
\* the cap is dropped from the front, with the read position.
Appended(l, n) ==
  LET tail == l.tail + n
      head == Max({l.head, tail - Cap})
  IN  [l EXCEPT !.open = TRUE, !.tail = tail, !.head = head,
                !.pos = Max({@ - (head - l.head) * OutRate, 0})]

Submit(r, n) ==
  /\ running
  /\ lane[r].tail + n <= MaxFrames
  /\ lane' = [lane EXCEPT ![r] = Appended(@, n)]
  /\ UNCHANGED <<running, playback, pcm, main, ducks>>

\* The frames a ramp takes: seconds of the stream's rate, at least one.
RampFrames(r, secs) == Max({1, secs * r})

\* A volume frame: the gain goes to the level in the given time.
Duck(r, level, secs) ==
  /\ running
  /\ ducks < MaxDucks
  /\ ducks' = ducks + 1
  /\ lane' = [lane EXCEPT ![r] =
               [@ EXCEPT !.open = TRUE, !.target = level,
                         !.step = (level - lane[r].gain) \div RampFrames(r, secs)]]
  /\ UNCHANGED <<running, playback, pcm, main>>

(***************************************************************************)
(* The playback thread: run().                                             *)
(***************************************************************************)
\* Mutant: the gain is not held at its target.
GainAfter_NoClamp(l, n) == l.gain + n * l.step

\* The gain after n output frames.
GainAfter(l, n) ==
  IF l.step > 0 THEN Min({l.target, l.gain + n * l.step})
                ELSE Max({IF l.step < 0 THEN l.target ELSE l.gain, l.gain + n * l.step})

\* Mutant: nothing is read from the last frame, which has no successor yet.
Heard_NeedsTwo(l, r) ==
  Cardinality({i \in 0..(Block - 1) : l.pos + i * r < (l.tail - l.head - 1) * OutRate})

\* The output frames of a block that find data, r/OutRate source frames apart.
Heard(l, r) ==
  Cardinality({i \in 0..(Block - 1) : l.pos + i * r < (l.tail - l.head) * OutRate})

\* Mutant: the read position may have overrun the ring.
Passed_Overruns(l, pos) == pos \div OutRate

\* The source frames that position pos has passed.
Passed(l, pos) == Min({pos \div OutRate, l.tail - l.head})

\* mix_lane(): the frames passed are erased, the fraction is kept.  The gain has
\* moved in every output frame heard, and in the one that found no data.
Mixed(r) ==
  LET l == lane[r]
      pos == l.pos + Heard(l, r) * r
  IN  [l EXCEPT !.gain = GainAfter(l, Min({Block, Heard(l, r) + 1})),
                !.head = @ + Passed(l, pos),
                !.pos = pos - Passed(l, pos) * OutRate]

Silent(r) == lane[r].head = lane[r].tail
Stale == {r \in Rates : lane[r].open /\ Silent(r)}
Data == \E r \in Rates : ~Silent(r)

\* The lanes in gone have been silent for three seconds.
Kept(r, gone) == IF r \in gone THEN NewLane(FALSE, lane[r].tail) ELSE lane[r]

\* One iteration under m_: forgets lanes and mixes the others.
MixBlock(gone) ==
  /\ playback = "top"
  /\ running
  /\ gone \subseteq Stale
  /\ lane' = [r \in Rates |-> IF lane[r].open /\ r \notin gone THEN Mixed(r) ELSE Kept(r, gone)]
  /\ playback' = "open"
  /\ UNCHANGED <<running, pcm, main, ducks>>

\* Nothing to play for four seconds: waits for data, 50 ms at most.
Idle(gone) ==
  /\ playback = "top"
  /\ running
  /\ ~Data
  /\ gone \subseteq Stale
  /\ lane' = [r \in Rates |-> Kept(r, gone)]
  /\ UNCHANGED <<running, playback, pcm, main, ducks>>

\* ensure_params(): the device is open, or can be opened.
DeviceReady ==
  /\ playback = "open"
  /\ playback' = "write"
  /\ pcm' = TRUE
  /\ UNCHANGED <<running, lane, main, ducks>>

\* It cannot: the block is lost.
DeviceFails ==
  /\ playback = "open"
  /\ ~pcm
  /\ playback' = "top"
  /\ UNCHANGED <<running, lane, pcm, main, ducks>>

\* The block is written, with retries; or stop() or an error that
\* snd_pcm_recover() cannot repair cuts it short.
WriteEnds ==
  /\ playback = "write"
  /\ playback' = "top"
  /\ UNCHANGED <<running, lane, pcm, main, ducks>>

LoopEnds ==
  /\ playback = "top"
  /\ ~running
  /\ playback' = "done"
  /\ UNCHANGED <<running, lane, pcm, main, ducks>>

Playback ==
  \/ \E gone \in SUBSET Rates : MixBlock(gone) \/ Idle(gone)
  \/ DeviceReady
  \/ DeviceFails
  \/ WriteEnds
  \/ LoopEnds

Over == main = "stopped" /\ UNCHANGED vars

Next ==
  \/ Start
  \/ Stop
  \/ JoinAndClose
  \/ \E r \in Rates, n \in 0..MaxFrames : Submit(r, n)
  \/ \E r \in Rates, level \in {0, Full}, secs \in {0, 1} : Duck(r, level, secs)
  \/ Playback
  \/ Over

Spec == Init /\ [][Next]_vars

\* The playback thread runs, and the device takes or refuses what it is given.
Fairness == WF_vars(Playback)

FairSpec == Spec /\ Fairness

-----------------------------------------------------------------------------
\* The ring of a lane is bounded, and what the read position has passed is gone
\* from it ("keep pos consistent", audio_alsa.cpp:129): the position is less
\* than a frame in, or less than the one step by which it overran the end.
RingHoldsTheUnread ==
  \A r \in Rates :
    /\ lane[r].tail - lane[r].head \in 0..Cap
    /\ lane[r].pos < Max({OutRate, r})

\* A ramp never overshoots or turns back: whatever gain a lane has next lies
\* between the one it has and its target, however ramps interrupt each other.
NoOvershoot ==
  [][\A r \in Rates :
       lane[r].open /\ lane'[r].open =>
         lane'[r].gain \in Min({lane[r].gain, lane[r].target})..Max({lane[r].gain, lane[r].target})
    ]_vars

\* Every lane plays its stream as AudioLane says: in order, at its rate, across
\* chunks, underruns and blocks, skipping only what the cap drops.
Lane(r) == INSTANCE AudioLane WITH Rate <- r, sent <- lane[r].tail,
                                   at <- lane[r].head * OutRate + lane[r].pos
PlaysInOrder == [][\A r \in Rates : Lane(r)!LaneStep]_vars

\* What is in a ring is mixed (or dropped by the cap) in the end, unless the
\* mixer is stopped.
EveryFrameMixed ==
  \A r \in Rates :
    lane[r].head < lane[r].tail ~> (lane[r].head = lane[r].tail \/ ~running)
=============================================================================
