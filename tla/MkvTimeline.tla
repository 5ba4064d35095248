---------------------------- MODULE MkvTimeline ----------------------------
(***************************************************************************)
(* Where a frame ends up on the wall clock: frames are cut into fragments  *)
(* at keyframes (render_buffer, imp.rs), and MkvWriter (mkv_writer.rs)     *)
(* gives each fragment an absolute cluster timestamp and each frame a      *)
(* signed 16-bit offset to it, both in whole milliseconds.                 *)
(*                                                                         *)
(* A session starts with the element or with a reset at a keyframe; its    *)
(* clock is anchored when its first fragment is finalized.                 *)
(*                                                                         *)
(* Times are in units of which UnitsPerMs make a millisecond.  Frames have *)
(* a PTS, follow one another without a gap and are not reordered; a frame  *)
(* arrives up to MaxLag after its PTS.  Sizes, headers and the hand-over   *)
(* to the worker (SessionHandoff) are left out; a restart is a new run.    *)
(***************************************************************************)
EXTENDS Integers, SequencesExt

CONSTANTS
    UnitsPerMs,     \* resolution of ClockTime and SystemTime
    TimecodeBits,   \* width of a block's relative timecode
    ByteBase,       \* values of a byte
    ImmediateDuration, BufferOnlyDuration, \* fragment_duration of the two modes
    FrameDurations, \* bound: durations of a frame
    MaxKeyInterval, \* the encoder's: longest time between keyframes
    Epoch,          \* wall-clock time of PTS 0
    MaxLag,         \* bound: between PTS and arrival
    MaxPts          \* bound: length of a run

Half == 2 ^ (TimecodeBits - 1)
Durations == {ImmediateDuration, BufferOnlyDuration}

ASSUME UnitsAssumption ==
    /\ {UnitsPerMs, TimecodeBits} \subseteq Nat \ {0}
    /\ ByteBase \in Nat /\ ByteBase >= 2
    /\ Durations \cup FrameDurations \subseteq Nat \ {0}
    /\ {MaxKeyInterval, Epoch, MaxLag, MaxPts} \subseteq Nat

\* Keyframes come often enough for every frame to be in reach of its cluster.
ASSUME KeyframesAssumption ==
    \A d \in Durations : d + MaxKeyInterval <= (Half - 1) * UnitsPerMs

\* Timestamps have room in eight bytes.
ASSUME ClockAssumption ==
    (Epoch + MaxLag + 2 * MaxPts) \div UnitsPerMs < ByteBase ^ 8

VARIABLES
    ptsOffset, streamStart, wallStart, \* MkvWriter: pts_offset and the anchor
    waiting, fragmentStart, frames, \* State: waiting_for_keyframe, current_fragment_*
    fragmentDuration, \* Settings
    pts, sinceKey, ended, \* the stream: next PTS, time since the last keyframe
    cluster,        \* the last fragment written
    sessionFirst    \* ghost: PTS of the frame the anchor belongs to

writer == <<ptsOffset, streamStart, wallStart>>
fragment == <<waiting, fragmentStart, frames>>
stream == <<pts, sinceKey, ended>>
vars == <<writer, fragment, fragmentDuration, stream, cluster, sessionFirst>>

None == -1
NoCluster == [time |-> None, blocks |-> <<>>, pts |-> <<>>, duration |-> 0,
              session |-> None, anchor |-> None]

Init ==
    /\ ptsOffset = 0 /\ streamStart = None /\ wallStart = None
    /\ waiting = TRUE /\ fragmentStart = None /\ frames = <<>>
    /\ fragmentDuration \in Durations
    /\ pts = 0 /\ sinceKey = 0 /\ ended = FALSE
    /\ cluster = NoCluster /\ sessionFirst = None

-----------------------------------------------------------------------------
(* Conversions.                                                            *)

Milliseconds(t) == t \div UnitsPerMs

\* as i16
Timecode(ms) == ((ms + Half) % (2 * Half)) - Half

\* Mutant: a value that is one too large for its bytes.
WidthOffByOne(v) ==
    IF v <= ByteBase ^ 1 THEN 1 ELSE IF v <= ByteBase ^ 2 THEN 2
    ELSE IF v <= ByteBase ^ 4 THEN 4 ELSE 8

TimestampWidth(v) ==
    IF v < ByteBase ^ 1 THEN 1 ELSE IF v < ByteBase ^ 2 THEN 2
    ELSE IF v < ByteBase ^ 4 THEN 4 ELSE 8

\* The reader gets the low bytes, as many as were written (big-endian).
ReadBack(v) == v % ByteBase ^ TimestampWidth(v)

-----------------------------------------------------------------------------
(* MkvWriter.                                                              *)

NormalizePts(p) == IF p >= ptsOffset THEN p - ptsOffset ELSE 0

Anchored == streamStart # None

\* The anchor finalize_fragment() uses: the one there is, or this very moment.
AnchorStart == IF Anchored THEN streamStart ELSE NormalizePts(Head(frames).pts)
AnchorWall(now) == IF Anchored THEN wallStart ELSE now

AbsoluteMs(normalized, now) ==
    Milliseconds(AnchorWall(now)
                 + IF normalized >= AnchorStart THEN normalized - AnchorStart ELSE 0)

RelativeMs(p, clusterStart) ==
    IF NormalizePts(p) >= clusterStart
    THEN Timecode(Milliseconds(NormalizePts(p)) - Milliseconds(clusterStart))
    ELSE 0

\* Mutant: to the start of the last frame.
LastFrameLeftOut == Last(frames).pts - Head(frames).pts

\* From the first frame to the end of the last.
FragmentLength == Last(frames).pts - Head(frames).pts + Last(frames).duration

Anchor(now) == streamStart' = AnchorStart /\ wallStart' = AnchorWall(now)

SessionFirst == IF Anchored THEN sessionFirst ELSE Head(frames).pts

WriteFragment(now) ==
    LET start == NormalizePts(Head(frames).pts)
    IN  cluster' =
          [time |-> ReadBack(AbsoluteMs(start, now)),
           blocks |-> [i \in DOMAIN frames |-> RelativeMs(frames[i].pts, start)],
           pts |-> [i \in DOMAIN frames |-> frames[i].pts],
           duration |-> FragmentLength,
           session |-> SessionFirst, anchor |-> AnchorWall(now)]

\* Mutant: only the PTS half of the anchor is forgotten.
HalfForgotten ==
    ptsOffset' = pts /\ streamStart' = None /\ UNCHANGED wallStart

\* Mutant: the PTS offset moves and the anchor stays.
AnchorKept == ptsOffset' = pts /\ UNCHANGED <<streamStart, wallStart>>

\* reset_for_new_session(): the next fragment anchors anew.
ForgetAnchor == ptsOffset' = pts /\ streamStart' = None /\ wallStart' = None

-----------------------------------------------------------------------------
(* render_buffer(), one frame at a time, and the end of the stream.        *)

Frame(d) == [pts |-> pts, duration |-> d]

SinceKey(key) == IF key THEN 0 ELSE sinceKey

Arrives(key, d) ==
    /\ ~ended /\ pts + d <= MaxPts /\ SinceKey(key) + d <= MaxKeyInterval
    /\ pts' = pts + d /\ sinceKey' = SinceKey(key) + d
    /\ UNCHANGED ended

\* When a frame of this PTS may be handled.
Arrivals == {Epoch + pts + lag : lag \in 0..MaxLag}

\* The stream may join in the middle of a group of pictures.
SkipFrame(d) ==
    /\ waiting /\ Arrives(FALSE, d)
    /\ UNCHANGED <<writer, fragment, fragmentDuration, cluster, sessionFirst>>

FirstKeyframe(d) ==
    /\ waiting /\ Arrives(TRUE, d)
    /\ waiting' = FALSE /\ fragmentStart' = pts /\ frames' = <<Frame(d)>>
    /\ UNCHANGED <<writer, fragmentDuration, cluster, sessionFirst>>

ShouldFragment == pts - fragmentStart >= fragmentDuration

AddFrame(key, d) ==
    /\ ~waiting /\ ~(key /\ ShouldFragment) /\ Arrives(key, d)
    /\ frames' = Append(frames, Frame(d))
    /\ UNCHANGED <<writer, waiting, fragmentStart, fragmentDuration, cluster,
                   sessionFirst>>

NextFragment(d) ==
    /\ ~waiting /\ ShouldFragment /\ Arrives(TRUE, d)
    /\ fragmentStart' = pts /\ frames' = <<Frame(d)>>
    /\ UNCHANGED waiting

\* A keyframe ends the fragment; the session and its clock go on, perhaps in
\* BufferOnly mode.
Fragment(d, now) ==
    /\ NextFragment(d) /\ Anchor(now) /\ WriteFragment(now)
    /\ sessionFirst' = SessionFirst
    /\ fragmentDuration' \in {fragmentDuration, BufferOnlyDuration}
    /\ UNCHANGED ptsOffset

\* The fragment is the last of its session: a switch to Immediate, or expiry.
FragmentAndReset(d, now) ==
    /\ NextFragment(d) /\ WriteFragment(now) /\ ForgetAnchor
    /\ sessionFirst' = None
    /\ fragmentDuration' \in {fragmentDuration, ImmediateDuration}

\* A frame without data: the clock is anchored already when the writer fails.
FinalizeFails(now) ==
    /\ ~waiting /\ ShouldFragment /\ ~ended
    /\ Anchor(now) /\ sessionFirst' = SessionFirst
    /\ ended' = TRUE
    /\ UNCHANGED <<ptsOffset, fragment, fragmentDuration, pts, sinceKey, cluster>>

\* EOS flushes the pending fragment, however short.
Eos(now) ==
    /\ ~ended /\ ended' = TRUE
    /\ IF waiting
       THEN UNCHANGED <<writer, cluster, sessionFirst>>
       ELSE /\ Anchor(now) /\ WriteFragment(now) /\ sessionFirst' = SessionFirst
            /\ UNCHANGED ptsOffset
    /\ UNCHANGED <<fragment, fragmentDuration, pts, sinceKey>>

\* The worker's fallback changes the duration of the fragment under way.
FallBack ==
    /\ ~ended /\ fragmentDuration' = BufferOnlyDuration
    /\ UNCHANGED <<writer, fragment, stream, cluster, sessionFirst>>

FrameArrives(d) ==
    \/ SkipFrame(d) \/ FirstKeyframe(d) \/ \E key \in BOOLEAN : AddFrame(key, d)
    \/ \E now \in Arrivals : Fragment(d, now) \/ FragmentAndReset(d, now)

Next ==
    \/ \E d \in FrameDurations : FrameArrives(d)
    \/ \E now \in Arrivals : FinalizeFails(now) \/ Eos(now)
    \/ FallBack

Spec == Init /\ [][Next]_vars

-----------------------------------------------------------------------------
(* Properties.                                                             *)

Times == Nat \cup {None}

\* Every variable has its type, and an anchor is whole or not there.
TypeOK ==
    /\ ptsOffset \in Nat /\ {streamStart, wallStart, sessionFirst} \subseteq Times
    /\ Anchored <=> wallStart # None
    /\ waiting \in BOOLEAN /\ ended \in BOOLEAN
    /\ fragmentStart \in Times /\ (waiting <=> frames = <<>>)
    /\ frames \in Seq([pts : Nat, duration : FrameDurations])
    /\ fragmentDuration \in Durations
    /\ pts \in 0..MaxPts /\ sinceKey \in 0..MaxKeyInterval
    /\ cluster.time \in Times /\ cluster.duration \in Nat
    /\ cluster.blocks \in Seq(-Half..(Half - 1)) /\ cluster.pts \in Seq(Nat)
    /\ cluster.session \in Times /\ cluster.anchor \in Times

\* What a player computes for the i-th frame of the last fragment.
BlockTime(i) == (cluster.time + cluster.blocks[i]) * UnitsPerMs

Within(a, b, slack) == a - b < slack /\ b - a < slack

(***************************************************************************)
(* A player reads every frame back at its distance from the anchor, to two *)
(* millisecond roundings: the 16-bit offset (mkv_writer.rs:321) does not   *)
(* wrap, the variable-length timestamp (mkv_writer.rs:298) is complete,    *)
(* and PTS offset and anchor are of the same session after every reset.    *)
(***************************************************************************)
BlocksOnTime ==
    \A i \in DOMAIN cluster.blocks :
        Within(BlockTime(i), cluster.anchor + cluster.pts[i] - cluster.session,
               2 * UnitsPerMs)

(***************************************************************************)
(* The clock a session gets is late by no more than its first fragment,    *)
(* which is the time finalize_fragment() waits before it looks at the      *)
(* clock (mkv_writer.rs:213), and never early: no frame is dated before it *)
(* was captured, and the delay is bounded whatever the mode switches.      *)
(***************************************************************************)
MaxFirst == (CHOOSE d \in Durations : \A e \in Durations : e <= d) + MaxKeyInterval

DelayBounded ==
    \A i \in DOMAIN cluster.blocks :
        LET delay == BlockTime(i) - (Epoch + cluster.pts[i])
        IN  delay > - 2 * UnitsPerMs /\ delay < MaxFirst + MaxLag + 2 * UnitsPerMs

(***************************************************************************)
(* Within a session each fragment starts where the one before it ends      *)
(* ("contiguous timestamps (no gaps between fragments in KVS)",            *)
(* mkv_writer.rs:197), to a rounding, whatever the mode switches.          *)
(***************************************************************************)
ClustersContiguous ==
    [][cluster' # cluster /\ cluster'.session = cluster.session =>
          Within(cluster'.time * UnitsPerMs,
                 cluster.time * UnitsPerMs + cluster.duration, UnitsPerMs)]_vars
=============================================================================
