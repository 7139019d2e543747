----------------------------- MODULE ServicesProofs -----------------------------
(***************************************************************************)
(* What holds of the services for every value of their constants: the text *)
(* of a recording never shrinks (Audio), a turn is answered once           *)
(* (SlowPass), a closed game lets no newcomer in and what the Host enters  *)
(* is lost only by requests that overlap (Campaigns), what is private      *)
(* stays private and nothing that may be seen is missed (EventLog), a      *)
(* login link is spent once (Login), a creation makes one character and    *)
(* can be answered (Creation), what is installed is one whole pack         *)
(* (Packs), every dug cell is reached (Dungeon), fighters can walk to each *)
(* other, and what they see of a straight line ends at its first wall      *)
(* (BattleMap).                                                            *)
(***************************************************************************)
EXTENDS Integers, MCServices, FiniteSetTheorems, TLAPS

--------------------------------------------------------------------------------
(* Audio.  While a recording goes on the buffer holds at least as much as  *)
(* any transcription that was made from it; when it is over the buffer is  *)
(* empty, which is what stops a late partial text.                         *)

RecordingOK(s) ==
  /\ speaker[s].pc = "recording" => box[s] <= buffered[s] /\ poller[s].heard <= buffered[s]
  /\ speaker[s].pc = "recording" /\ poller[s].pc \in {"transcribe", "send"} => box[s] <= poller[s].heard
  /\ speaker[s].pc # "recording" => buffered[s] = 0
  /\ speaker[s].pc = "transcribing" => box[s] <= speaker[s].heard

AudioInv == AudioTypeOK /\ \A s \in Streams : RecordingOK(s)

\* A step of a recording, and that the text did not shrink.
AudioKept(s) == AudioTypeOK' /\ RecordingOK(s)' /\ box'[s] >= box[s]
OthersUntouched(s) ==
  \A r \in Streams \ {s} :
    buffered'[r] = buffered[r] /\ speaker'[r] = speaker[r] /\ poller'[r] = poller[r] /\ box'[r] = box[r]

LEMMA AudioStarts == AudioInit => AudioInv
BY MaxChunksAssumption DEF AudioInit, AudioInv, AudioTypeOK, RecordingOK, NoPoller

LEMMA AudioStep ==
  ASSUME AudioInv, NEW s \in Streams,
         AppendAudioChunk(s) \/ TakeAudioStream(s) \/ SendFinal(s) \/ Poll(s)
  PROVE  AudioKept(s) /\ OthersUntouched(s)
<1>1. RecordingOK(s)
  BY DEF AudioInv
<1>2. /\ buffered \in [Streams -> 0..MaxChunks] /\ box \in [Streams -> 0..(MaxChunks + 1)]
      /\ speaker \in [Streams -> [pc : {"recording", "transcribing", "done"}, heard : 0..(MaxChunks + 1)]]
      /\ poller \in [Streams -> [pc : {"none", "wait", "transcribe", "send"}, heard : 0..MaxChunks]]
      /\ MaxChunks \in Nat \ {0}
  BY MaxChunksAssumption DEF AudioInv, AudioTypeOK
<1>3. /\ buffered[s] \in 0..MaxChunks /\ box[s] \in 0..(MaxChunks + 1)
      /\ speaker[s].heard \in 0..(MaxChunks + 1) /\ poller[s].heard \in 0..MaxChunks
  BY <1>2
<1>4. CASE AppendAudioChunk(s)
  <2>1. buffered' = [buffered EXCEPT ![s] = buffered[s] + 1] /\ UNCHANGED <<speaker, box>>
    BY <1>4 DEF AppendAudioChunk
  <2>2. poller' = poller \/ poller' = [poller EXCEPT ![s] = [pc |-> "wait", heard |-> 0]]
    BY <1>4 DEF AppendAudioChunk, PollerGoto
  <2>3. buffered[s] + 1 \in 0..MaxChunks
    BY <1>2, <1>3, <1>4 DEF AppendAudioChunk
  <2>4. AudioTypeOK'
    BY <1>2, <2>1, <2>2, <2>3 DEF AudioTypeOK
  <2>5. OthersUntouched(s)
    BY <1>2, <2>1, <2>2 DEF OthersUntouched
  <2>6. poller'[s].heard \in {0, poller[s].heard} /\ buffered'[s] = buffered[s] + 1 /\ speaker' = speaker /\ box' = box
    BY <1>2, <2>1, <2>2
  <2>7. RecordingOK(s)' /\ box'[s] >= box[s]
    BY <1>1, <1>2, <1>3, <1>4, <2>6 DEF AppendAudioChunk, RecordingOK
  <2> QED
    BY <2>4, <2>5, <2>7 DEF AudioKept
<1>5. CASE TakeAudioStream(s)
  <2>1. /\ buffered' = [buffered EXCEPT ![s] = 0] /\ UNCHANGED <<poller, box>>
        /\ speaker' = [speaker EXCEPT ![s] = [pc |-> "transcribing", heard |-> buffered[s] + 1]]
        /\ speaker[s].pc = "recording"
    BY <1>5 DEF TakeAudioStream
  <2>2. buffered[s] + 1 \in 0..(MaxChunks + 1)
    BY <1>2, <1>3
  <2>3. AudioTypeOK'
    BY <1>2, <2>1, <2>2 DEF AudioTypeOK
  <2>4. OthersUntouched(s)
    BY <1>2, <2>1 DEF OthersUntouched
  <2>5. RecordingOK(s)' /\ box'[s] >= box[s]
    BY <1>1, <1>2, <1>3, <2>1 DEF RecordingOK
  <2> QED
    BY <2>3, <2>4, <2>5 DEF AudioKept
<1>6. CASE SendFinal(s)
  <2>1. /\ speaker[s].pc = "transcribing" /\ UNCHANGED <<buffered, poller>>
        /\ speaker' = [speaker EXCEPT ![s] = [speaker[s] EXCEPT !.pc = "done"]]
        /\ box' = [box EXCEPT ![s] = speaker[s].heard] \/ box' = box
    BY <1>6 DEF SendFinal
  <2>2. AudioTypeOK'
    BY <1>2, <1>3, <2>1 DEF AudioTypeOK
  <2>3. OthersUntouched(s)
    BY <1>2, <2>1 DEF OthersUntouched
  <2>4. RecordingOK(s)' /\ box'[s] >= box[s]
    BY <1>1, <1>2, <1>3, <2>1 DEF RecordingOK
  <2> QED
    BY <2>2, <2>3, <2>4 DEF AudioKept
<1>7. CASE PeekAudioStream(s)
  <2>1. /\ UNCHANGED <<buffered, speaker, box>>
        /\ \/ poller' = [poller EXCEPT ![s] = [pc |-> "none", heard |-> 0]]
           \/ poller' = [poller EXCEPT ![s] = [pc |-> "transcribe", heard |-> buffered[s]]]
    BY <1>7 DEF PeekAudioStream, PollerGoto
  <2>2. AudioTypeOK'
    BY <1>2, <1>3, <2>1 DEF AudioTypeOK
  <2>3. OthersUntouched(s)
    BY <1>2, <2>1 DEF OthersUntouched
  <2>4. RecordingOK(s)' /\ box'[s] >= box[s]
    BY <1>1, <1>2, <1>3, <2>1 DEF RecordingOK
  <2> QED
    BY <2>2, <2>3, <2>4 DEF AudioKept
<1>8. CASE TranscribePartial(s)
  <2>1. /\ UNCHANGED <<buffered, speaker, box>> /\ poller[s].pc = "transcribe"
        /\ \/ poller' = [poller EXCEPT ![s] = [pc |-> "send", heard |-> poller[s].heard]]
           \/ poller' = [poller EXCEPT ![s] = [pc |-> "wait", heard |-> 0]]
    BY <1>8 DEF TranscribePartial, PollerAt, PollerGoto
  <2>2. AudioTypeOK'
    BY <1>2, <1>3, <2>1 DEF AudioTypeOK
  <2>3. OthersUntouched(s)
    BY <1>2, <2>1 DEF OthersUntouched
  <2>4. RecordingOK(s)' /\ box'[s] >= box[s]
    BY <1>1, <1>2, <1>3, <2>1 DEF RecordingOK
  <2> QED
    BY <2>2, <2>3, <2>4 DEF AudioKept
<1>9. CASE SendPartial(s)
  <2>1. /\ UNCHANGED <<buffered, speaker>> /\ poller[s].pc = "send"
        /\ poller' = [poller EXCEPT ![s] = [pc |-> "wait", heard |-> 0]]
        /\ \/ buffered[s] > 0 /\ box' = [box EXCEPT ![s] = poller[s].heard]
           \/ box' = box
    BY <1>9 DEF SendPartial, StillRecording, PollerAt, PollerGoto
  <2>2. AudioTypeOK'
    BY <1>2, <1>3, <2>1 DEF AudioTypeOK
  <2>3. OthersUntouched(s)
    BY <1>2, <2>1 DEF OthersUntouched
  <2>4. RecordingOK(s)' /\ box'[s] >= box[s]
    BY <1>1, <1>2, <1>3, <2>1 DEF RecordingOK
  <2> QED
    BY <2>2, <2>3, <2>4 DEF AudioKept
<1> QED
  BY <1>4, <1>5, <1>6, <1>7, <1>8, <1>9 DEF Poll

LEMMA AudioInductive ==
  AudioInv /\ [AudioNext]_audioVars => AudioInv' /\ [\A s \in Streams : box'[s] >= box[s]]_audioVars
<1> SUFFICES ASSUME AudioInv, [AudioNext]_audioVars
             PROVE  AudioInv' /\ [\A s \in Streams : box'[s] >= box[s]]_audioVars
  OBVIOUS
<1>1. CASE AudioNext
  <2>1. PICK s \in Streams : AudioKept(s) /\ OthersUntouched(s)
    BY <1>1, AudioStep DEF AudioNext
  <2>2. ASSUME NEW r \in Streams PROVE RecordingOK(r)' /\ box'[r] >= box[r]
    <3>1. CASE r = s
      BY <2>1, <3>1 DEF AudioKept
    <3>2. CASE r # s
      BY <2>1, <3>2, MaxChunksAssumption DEF OthersUntouched, AudioInv, AudioTypeOK, RecordingOK
    <3> QED
      BY <3>1, <3>2
  <2> QED
    BY <2>1, <2>2 DEF AudioInv, AudioKept
<1>2. CASE UNCHANGED audioVars
  BY <1>2 DEF audioVars, AudioInv, AudioTypeOK, RecordingOK
<1> QED
  BY <1>1, <1>2

\* The text of a recording never goes back to an earlier part of it, for any
\* number of recordings and of chunks.
THEOREM TextsGrow == AudioSpec => TextNeverShrinks
<1> DEFINE Longer == \A s \in Streams : box'[s] >= box[s]
<1>1. AudioInv /\ [AudioNext]_audioVars => [Longer]_audioVars
  BY AudioInductive
<1>2. AudioInv /\ [AudioNext]_audioVars => AudioInv'
  BY AudioInductive
<1> QED
  BY <1>1, <1>2, AudioStarts, PTL DEF AudioSpec, TextNeverShrinks

--------------------------------------------------------------------------------
(* SlowPass.  As long as a turn runs the table has seen no answer, and     *)
(* remembers a failed turn-order call as well as the goroutine does.       *)

CallPhases == {"mechanicsCall", "narrationCall"}
TurnRecord == [pc : Phases \cup {"none", "ended"}, round : Nat, left : 0..MaxBatch, failed : BOOLEAN]

TurnOK(t) ==
  /\ turn[t].pc = "none" => table[t] = <<>>
  /\ turn[t].pc \in CallPhases => turn[t].left > 0
  /\ turn[t].pc \in Phases => /\ ToldAt(t, Answer) = {}
                              /\ ToldAt(t, {"noTurnOrder"}) # {} => turn[t].failed
                              /\ table[t] # <<>>
  /\ \A i \in ToldAt(t, Answer) : i = Len(table[t])
  /\ turn[t].pc = "ended" /\ table[t] # <<>> /\ t \notin cut => ToldAt(t, Answer) # {}
  /\ ToldAt(t, {"claim"}) = {} \/ ToldAt(t, {"noTurnOrder"}) = {}

TurnInv == TurnTypeOK /\ npcs \subseteq schema \cup loose /\ \A t \in Turns : TurnOK(t)

LEMMA TurnStarts == TurnInit => TurnInv
<1> SUFFICES ASSUME TurnInit PROVE TurnInv
  OBVIOUS
<1>1. TurnTypeOK
  BY LimitsAssumption DEF TurnInit, TurnTypeOK, NoTurn, Phases, Told
<1>2. ASSUME NEW t \in Turns PROVE TurnOK(t)
  BY DEF TurnInit, TurnOK, NoTurn, ToldAt, Answer, Phases, CallPhases
<1> QED
  BY <1>1, <1>2 DEF TurnInit, TurnInv

LEMMA TurnSuffices == TurnInv => AnsweredOnce
BY DEF TurnInv, TurnOK, TurnAt, AnsweredOnce

\* What a message adds to what the table was told.
LEMMA Telling ==
  ASSUME TurnTypeOK, NEW t \in Turns, NEW what \in Told, Tell(t, what)
  PROVE  /\ table' \in [Turns -> Seq(Told)]
         /\ Len(table'[t]) = Len(table[t]) + 1 /\ table'[t] # <<>>
         /\ ToldAt(t, Answer)' = ToldAt(t, Answer) \cup (IF what \in Answer THEN {Len(table[t]) + 1} ELSE {})
         /\ ToldAt(t, {"claim"})' # {} => ToldAt(t, {"claim"}) # {} \/ what = "claim"
         /\ ToldAt(t, {"noTurnOrder"})' # {} => ToldAt(t, {"noTurnOrder"}) # {} \/ what = "noTurnOrder"
         /\ \A u \in Turns \ {t} : table'[u] = table[u]
<1>1. table[t] \in Seq(Told) /\ table' = [table EXCEPT ![t] = Append(table[t], what)]
  BY DEF TurnTypeOK, Tell
<1>2. table'[t] = Append(table[t], what)
  BY <1>1 DEF TurnTypeOK
<1>3. Append(table[t], what) \in Seq(Told)
  BY <1>1
<1>4. table' \in [Turns -> Seq(Told)] /\ \A u \in Turns \ {t} : table'[u] = table[u]
  BY <1>1, <1>3 DEF TurnTypeOK
<1>5. Len(table'[t]) = Len(table[t]) + 1 /\ table'[t] # <<>>
  BY <1>1, <1>2
<1>6. ToldAt(t, Answer)' = ToldAt(t, Answer) \cup (IF what \in Answer THEN {Len(table[t]) + 1} ELSE {})
  BY <1>1, <1>2, <1>5 DEF ToldAt, Answer
<1>7. ToldAt(t, {"claim"})' # {} => ToldAt(t, {"claim"}) # {} \/ what = "claim"
  BY <1>1, <1>2, <1>5 DEF ToldAt
<1>8. ToldAt(t, {"noTurnOrder"})' # {} => ToldAt(t, {"noTurnOrder"}) # {} \/ what = "noTurnOrder"
  BY <1>1, <1>2, <1>5 DEF ToldAt
<1> QED
  BY <1>4, <1>5, <1>6, <1>7, <1>8

\* A step of one turn leaves the others alone.
LEMMA TurnStep ==
  ASSUME TurnInv, NEW t \in Turns, NEW n \in TurnRecord, turn' = [turn EXCEPT ![t] = n],
         table' \in [Turns -> Seq(Told)], \A u \in Turns \ {t} : table'[u] = table[u],
         schema' \subseteq Turns, npcs' \subseteq schema' \cup loose', loose' \subseteq Turns, cut' \subseteq Turns, cut' \ {t} = cut \ {t},
         TurnOK(t)'
  PROVE  TurnInv'
<1>1. turn' \in [Turns -> TurnRecord]
  BY DEF TurnInv, TurnTypeOK, TurnRecord
<1>2. ASSUME NEW u \in Turns \ {t} PROVE TurnOK(u)'
  <2>1. turn'[u] = turn[u] /\ table'[u] = table[u] /\ (u \in cut' <=> u \in cut)
    BY DEF TurnInv, TurnTypeOK
  <2>2. ToldAt(u, Answer)' = ToldAt(u, Answer)
    BY <2>1 DEF ToldAt, Answer
  <2>3. ToldAt(u, {"claim"})' = ToldAt(u, {"claim"}) /\ ToldAt(u, {"noTurnOrder"})' = ToldAt(u, {"noTurnOrder"})
    BY <2>1 DEF ToldAt
  <2>4. TurnOK(u)
    BY DEF TurnInv
  <2> QED
    BY <2>1, <2>2, <2>3, <2>4 DEF TurnOK
<1> QED
  BY <1>1, <1>2 DEF TurnInv, TurnTypeOK, TurnRecord

\* The three ways a turn goes on.
LEMMA TurnSilent ==
  ASSUME TurnInv, NEW t \in Turns, NEW n \in TurnRecord, turn' = [turn EXCEPT ![t] = n],
         turn[t].pc \in Phases, n.pc \in Phases, n.failed = turn[t].failed,
         n.pc \in CallPhases => n.left > 0, UNCHANGED <<table, schema, npcs, loose, cut>>
  PROVE  TurnInv'
<1>1. turn'[t] = n
  BY DEF TurnInv, TurnTypeOK
<1>2. \A kinds \in SUBSET Told : ToldAt(t, kinds)' = ToldAt(t, kinds)
  BY DEF ToldAt
<1>3. TurnOK(t)'
  BY <1>1, <1>2 DEF TurnInv, TurnOK, Phases, Answer, Told
<1> QED
  BY <1>3, TurnStep DEF TurnInv, TurnTypeOK

LEMMA TurnSpeaks ==
  ASSUME TurnInv, NEW t \in Turns, NEW n \in TurnRecord, turn' = [turn EXCEPT ![t] = n],
         turn[t].pc \in Phases \cup {"none"}, n.pc \in Phases, turn[t].failed => n.failed,
         n.pc \in CallPhases => n.left > 0,
         NEW what \in {"bubble", "result", "noTurnOrder", "lateNoTurnOrder"}, Tell(t, what), what = "noTurnOrder" => n.failed,
         schema \subseteq schema', schema' \subseteq schema \cup {t}, npcs' \subseteq schema' \cup loose', loose' \subseteq Turns, UNCHANGED cut
  PROVE  TurnInv'
<1>1. turn'[t] = n
  BY DEF TurnInv, TurnTypeOK
<1>2. what \in Told /\ what \notin Answer /\ what # "claim"
  BY DEF Told, Answer
<1>3. /\ table' \in [Turns -> Seq(Told)] /\ table'[t] # <<>> /\ \A u \in Turns \ {t} : table'[u] = table[u]
      /\ ToldAt(t, Answer)' = ToldAt(t, Answer) /\ (ToldAt(t, {"claim"})' # {} => ToldAt(t, {"claim"}) # {})
      /\ ToldAt(t, {"noTurnOrder"})' # {} => ToldAt(t, {"noTurnOrder"}) # {} \/ what = "noTurnOrder"
  BY <1>2, Telling DEF TurnInv
<1>4. ToldAt(t, Answer) = {} /\ ToldAt(t, {"claim"}) = {}
  <2>1. CASE turn[t].pc = "none"
    BY <2>1 DEF TurnInv, TurnOK, ToldAt
  <2>2. CASE turn[t].pc \in Phases
    BY <2>2 DEF TurnInv, TurnOK, ToldAt, Answer
  <2> QED
    BY <2>1, <2>2
<1>5. ToldAt(t, {"noTurnOrder"}) # {} => turn[t].failed
  <2>1. CASE turn[t].pc = "none"
    BY <2>1 DEF TurnInv, TurnOK, ToldAt
  <2>2. CASE turn[t].pc \in Phases
    BY <2>2 DEF TurnInv, TurnOK
  <2> QED
    BY <2>1, <2>2
<1>6. TurnOK(t)'
  BY <1>1, <1>3, <1>4, <1>5 DEF TurnOK, Phases
<1> QED
  BY <1>3, <1>6, TurnStep DEF TurnInv, TurnTypeOK

LEMMA TurnAnswers ==
  ASSUME TurnInv, NEW t \in Turns, NEW n \in TurnRecord, turn' = [turn EXCEPT ![t] = n],
         turn[t].pc \in Phases, n.pc = "ended", NEW what \in Answer, Tell(t, what),
         what = "claim" => ~turn[t].failed, UNCHANGED <<schema, npcs, loose, cut>>
  PROVE  TurnInv'
<1>1. turn'[t] = n
  BY DEF TurnInv, TurnTypeOK
<1>2. what \in Told /\ what # "noTurnOrder"
  BY DEF Told, Answer
<1>3. /\ table' \in [Turns -> Seq(Told)] /\ \A u \in Turns \ {t} : table'[u] = table[u]
      /\ Len(table'[t]) = Len(table[t]) + 1
      /\ ToldAt(t, Answer)' = ToldAt(t, Answer) \cup {Len(table[t]) + 1}
      /\ ToldAt(t, {"claim"})' # {} => ToldAt(t, {"claim"}) # {} \/ what = "claim"
      /\ ToldAt(t, {"noTurnOrder"})' # {} => ToldAt(t, {"noTurnOrder"}) # {}
  BY <1>2, Telling DEF TurnInv
<1>4. /\ ToldAt(t, Answer) = {} /\ ToldAt(t, {"claim"}) = {}
      /\ ToldAt(t, {"noTurnOrder"}) # {} => turn[t].failed
  BY DEF TurnInv, TurnOK, ToldAt, Answer
<1>5. TurnOK(t)'
  BY <1>1, <1>3, <1>4 DEF TurnOK, Phases, CallPhases
<1> QED
  BY <1>3, <1>5, TurnStep DEF TurnInv, TurnTypeOK

\* A tool call was executed.
LEMMA TurnCalls ==
  ASSUME TurnInv, NEW t \in Turns, NEW pc \in {"mechanics", "narration"},
         turn[t].pc \in CallPhases, NEW failed \in BOOLEAN, turn[t].failed => failed,
         Called(t, failed, pc),
         NEW what \in {"result", "noTurnOrder", "lateNoTurnOrder"}, Tell(t, what), what = "noTurnOrder" => failed,
         schema \subseteq schema', schema' \subseteq schema \cup {t}, npcs' \subseteq schema' \cup loose', loose' \subseteq Turns, UNCHANGED cut
  PROVE  TurnInv'
<1>1. turn[t] \in TurnRecord /\ turn[t].left > 0 /\ turn \in [Turns -> TurnRecord]
  BY DEF TurnInv, TurnTypeOK, TurnRecord, TurnOK
<1>2. PICK n \in TurnRecord : /\ turn' = [turn EXCEPT ![t] = n] /\ n.failed = failed /\ n.pc \in Phases
                              /\ n.pc \in CallPhases => n.left > 0
  <2>1. PICK next : next = IF turn[t].left > 1 THEN turn[t].pc ELSE pc
    OBVIOUS
  <2>2. PICK n : n = [turn[t] EXCEPT !.left = turn[t].left - 1, !.failed = failed, !.pc = next]
    OBVIOUS
  <2>3. turn' = [turn EXCEPT ![t] = n]
    BY <2>1, <2>2, Zenon DEF Called
  <2>4. /\ turn[t].left - 1 \in 0..MaxBatch /\ next \in Phases /\ next \notin {"none", "ended"}
        /\ next \in CallPhases => turn[t].left - 1 > 0
    BY <1>1, <2>1, LimitsAssumption DEF TurnRecord, Phases, CallPhases
  <2>5. n \in TurnRecord /\ n.failed = failed /\ n.pc = next /\ n.left = turn[t].left - 1
    BY <1>1, <2>2, <2>4 DEF TurnRecord
  <2> QED
    BY <2>3, <2>4, <2>5
<1>3. turn[t].pc \in Phases \cup {"none"} /\ what \in {"bubble", "result", "noTurnOrder", "lateNoTurnOrder"}
  BY DEF CallPhases, Phases
<1>4. turn[t].failed => n.failed
  BY <1>2
<1>5. what = "noTurnOrder" => n.failed
  BY <1>2
<1> QED
  BY <1>2, <1>3, <1>4, <1>5, TurnSpeaks

LEMMA RoundStep ==
  ASSUME TurnInv, NEW t \in Turns, RenderPlayerBubble(t) \/ MechanicsRound(t) \/ NarrationRound(t)
  PROVE  TurnInv'
<1>1. /\ turn[t] \in TurnRecord /\ MaxBatch \in Nat \ {0} /\ schema \subseteq Turns /\ npcs \subseteq schema \cup loose /\ loose \subseteq Turns
      /\ turn \in [Turns -> TurnRecord] /\ table \in [Turns -> Seq(Told)] /\ cut \subseteq Turns
  BY LimitsAssumption DEF TurnInv, TurnTypeOK, TurnRecord
<1>2. ASSUME NEW pc \in Phases \cup {"ended"}, TurnGoto(t, pc)
      PROVE  \E n \in TurnRecord : /\ turn' = [turn EXCEPT ![t] = n]
                                   /\ n.pc = pc /\ n.failed = turn[t].failed /\ n.left = turn[t].left
  <2>1. PICK n : n = [turn[t] EXCEPT !.pc = pc]
    OBVIOUS
  <2>2. n \in TurnRecord /\ n.pc = pc /\ n.failed = turn[t].failed /\ n.left = turn[t].left
    BY <1>1, <2>1 DEF TurnRecord
  <2> QED
    BY <1>2, <2>1, <2>2 DEF TurnGoto
<1>3. ASSUME turn[t].pc \in Phases, NEW what \in Answer, what = "claim" => ~turn[t].failed,
             Tell(t, what), TurnGoto(t, "ended"), UNCHANGED <<schema, npcs, loose, cut>>
      PROVE  TurnInv'
  <2>1. PICK n \in TurnRecord : turn' = [turn EXCEPT ![t] = n] /\ n.pc = "ended"
    BY <1>2, <1>3
  <2> QED
    BY <1>3, <2>1, TurnAnswers
<1>4. ASSUME turn[t].pc \in Phases, NEW pc \in CallPhases, CallTools(t, pc), UNCHANGED <<schema, npcs, loose, cut>>
      PROVE  TurnInv'
  <2>1. PICK b \in 1..MaxBatch :
          turn' = [turn EXCEPT ![t].pc = pc, ![t].round = @ + 1, ![t].left = b] /\ UNCHANGED table
    BY <1>4 DEF CallTools
  <2>2. PICK n : n = [turn[t] EXCEPT !.pc = pc, !.round = @ + 1, !.left = b]
    OBVIOUS
  <2>3. turn' = [turn EXCEPT ![t] = n]
    BY <2>1, <2>2, Zenon
  <2>4. n \in TurnRecord /\ n.pc = pc /\ n.failed = turn[t].failed /\ n.left > 0
    <3>1. turn[t].round + 1 \in Nat /\ b \in 0..MaxBatch /\ b > 0 /\ pc \in Phases
      BY <1>1, <2>1 DEF TurnRecord, CallPhases, Phases
    <3> QED
      BY <1>1, <2>2, <3>1 DEF TurnRecord
  <2>5. pc \in Phases
    BY DEF CallPhases, Phases
  <2> QED
    BY <1>4, <2>1, <2>3, <2>4, <2>5, TurnSilent
<1>5. CASE RenderPlayerBubble(t)
  <2>1. turn[t].pc = "none" /\ UNCHANGED <<schema, npcs, loose, cut>> /\ table[t] = <<>>
    BY <1>5 DEF RenderPlayerBubble, TurnAt, TurnInv, TurnOK
  <2>2. CASE Tell(t, "bubble") /\ TurnGoto(t, "mechanics")
    <3>1. PICK n \in TurnRecord : turn' = [turn EXCEPT ![t] = n] /\ n.pc = "mechanics" /\ n.failed = turn[t].failed
      BY <1>2, <2>2 DEF Phases
    <3>2. n.pc \in Phases /\ n.pc \notin CallPhases
      BY <3>1 DEF Phases, CallPhases
    <3> QED
      BY <1>1, <2>1, <2>2, <3>1, <3>2, TurnSpeaks
  <2>3. CASE UNCHANGED table /\ TurnGoto(t, "ended")
    <3>1. PICK n \in TurnRecord : turn' = [turn EXCEPT ![t] = n] /\ n.pc = "ended"
      BY <1>2, <2>3
    <3>2. turn'[t].pc = "ended" /\ table'[t] = <<>>
      BY <1>1, <2>1, <2>3, <3>1
    <3>3. TurnOK(t)'
      BY <3>2 DEF TurnOK, ToldAt, Phases, CallPhases
    <3> QED
      BY <1>1, <2>1, <2>3, <3>1, <3>3, TurnStep
  <2> QED
    BY <1>5, <2>2, <2>3 DEF RenderPlayerBubble
<1>6. CASE MechanicsRound(t)
  <2>1. turn[t].pc = "mechanics" /\ UNCHANGED <<schema, npcs, loose, cut>> /\ turn[t].pc \in Phases
    BY <1>6 DEF MechanicsRound, TurnAt, Phases
  <2>2. CASE FailureNotice(t)
    BY <1>3, <2>1, <2>2 DEF FailureNotice, Answer
  <2>3. CASE CallTools(t, "mechanicsCall")
    BY <1>4, <2>1, <2>3 DEF CallPhases
  <2>4. CASE turn' = [turn EXCEPT ![t].pc = "narration", ![t].round = 0] /\ UNCHANGED table
    <3>1. PICK n : n = [turn[t] EXCEPT !.pc = "narration", !.round = 0]
      OBVIOUS
    <3>2. turn' = [turn EXCEPT ![t] = n] /\ n \in TurnRecord
      BY <1>1, <2>4, <3>1 DEF TurnRecord, Phases
    <3>3. n.pc \in Phases /\ n.pc \notin CallPhases /\ n.failed = turn[t].failed
      BY <1>1, <3>1 DEF Phases, CallPhases, TurnRecord
    <3> QED
      BY <2>1, <2>4, <3>2, <3>3, TurnSilent
  <2> QED
    BY <1>6, <2>2, <2>3, <2>4 DEF MechanicsRound
<1>7. CASE NarrationRound(t)
  <2>1. turn[t].pc = "narration" /\ UNCHANGED <<schema, npcs, loose, cut>> /\ turn[t].pc \in Phases
    BY <1>7 DEF NarrationRound, TurnAt, Phases
  <2>2. CASE FailureNotice(t)
    BY <1>3, <2>1, <2>2 DEF FailureNotice, Answer
  <2>3. CASE CallTools(t, "narrationCall")
    BY <1>4, <2>1, <2>3 DEF CallPhases
  <2>4. ASSUME NEW claim \in BOOLEAN, ~Gated(t, claim),
               Tell(t, IF claim THEN "claim" ELSE "narration"), TurnGoto(t, "ended")
        PROVE  TurnInv'
    <3>1. PICK what : what = IF claim THEN "claim" ELSE "narration"
      OBVIOUS
    <3>2. what \in Answer /\ (what = "claim" => ~turn[t].failed) /\ Tell(t, what)
      BY <2>4, <3>1 DEF Answer, Gated
    <3> QED
      BY <1>3, <2>1, <2>4, <3>2
  <2> QED
    BY <1>7, <2>2, <2>3, <2>4 DEF NarrationRound
<1> QED
  BY <1>5, <1>6, <1>7

LEMMA CallStep ==
  ASSUME TurnInv, NEW t \in Turns,
         \/ GetCharacterSchema(t) \/ CreateNPC(t) \/ LooseNPC(t)
         \/ \E order, ok \in BOOLEAN : MechanicsCall(t, order, ok) \/ NarrationCall(t, order, ok)
  PROVE  TurnInv'
<1>1. npcs \subseteq schema \cup loose /\ loose \subseteq Turns /\ schema \subseteq Turns /\ turn[t].failed \in BOOLEAN
  BY DEF TurnInv, TurnTypeOK
<1>2. CASE GetCharacterSchema(t)
  BY <1>1, <1>2, TurnCalls DEF GetCharacterSchema, TurnAt, CallPhases
<1>3. CASE CreateNPC(t)
  <2>1. npcs' \subseteq schema' \cup loose' /\ schema' = schema /\ loose' = loose
    BY <1>1, <1>3 DEF CreateNPC
  <2> QED
    BY <1>1, <1>3, <2>1, TurnCalls DEF CreateNPC, TurnAt, CallPhases
<1>4. CASE LooseNPC(t)
  <2>1. npcs' \subseteq schema' \cup loose' /\ schema' = schema /\ loose' \subseteq Turns
    BY <1>1, <1>4 DEF LooseNPC
  <2> QED
    BY <1>1, <1>4, <2>1, TurnCalls DEF LooseNPC, TurnAt, CallPhases
<1>5. ASSUME NEW order \in BOOLEAN, NEW ok \in BOOLEAN, MechanicsCall(t, order, ok)
      PROVE  TurnInv'
  <2>1. PICK what : what = IF order /\ ~ok THEN "noTurnOrder" ELSE "result"
    OBVIOUS
  <2>2. PICK failed : failed = NoteFailure(t, order, ok)
    OBVIOUS
  <2>3. /\ failed \in BOOLEAN /\ what \in {"result", "noTurnOrder", "lateNoTurnOrder"}
        /\ turn[t].failed => failed
        /\ what = "noTurnOrder" => failed
    BY <1>1, <2>1, <2>2 DEF NoteFailure
  <2>4. Tell(t, what) /\ Called(t, failed, "mechanics") /\ UNCHANGED <<schema, npcs, loose, cut>> /\ turn[t].pc \in CallPhases
    BY <1>5, <2>1, <2>2 DEF MechanicsCall, TurnAt, CallPhases
  <2> QED
    BY <1>1, <2>3, <2>4, TurnCalls
<1>6. ASSUME NEW order \in BOOLEAN, NEW ok \in BOOLEAN, NarrationCall(t, order, ok)
      PROVE  TurnInv'
  <2>1. PICK what : what = IF order /\ ~ok THEN "lateNoTurnOrder" ELSE "result"
    OBVIOUS
  <2>2. what \in {"result", "noTurnOrder", "lateNoTurnOrder"} /\ what # "noTurnOrder"
    BY <2>1
  <2>3. /\ Tell(t, what) /\ Called(t, turn[t].failed, "narration")
        /\ UNCHANGED <<schema, npcs, loose, cut>> /\ turn[t].pc \in CallPhases
    BY <1>6, <2>1 DEF NarrationCall, TurnAt, CallPhases
  <2> QED
    BY <1>1, <2>2, <2>3, TurnCalls
<1> QED
  BY <1>2, <1>3, <1>4, <1>5, <1>6

LEMMA CutStep ==
  ASSUME TurnInv, TurnRestart \/ \E t \in Turns : Panic(t)
  PROVE  TurnInv'
<1>1. UNCHANGED <<table, schema, npcs, loose>> /\ cut \subseteq cut' /\ cut' \subseteq Turns
  BY DEF TurnRestart, Panic, TurnInv, TurnTypeOK
<1>2. /\ turn' \in [Turns -> TurnRecord]
      /\ \A t \in Turns : turn'[t] = turn[t] \/ (turn'[t].pc = "ended" /\ t \in cut' /\ Running(t))
  <2>1. turn \in [Turns -> TurnRecord]
    BY DEF TurnInv, TurnTypeOK, TurnRecord
  <2>2. CASE TurnRestart
    BY <2>1, <2>2 DEF TurnRestart, TurnRecord
  <2>3. ASSUME NEW t \in Turns, Panic(t) PROVE <1>2
    BY <2>1, <2>3 DEF Panic, TurnGoto, TurnRecord
  <2> QED
    BY <2>2, <2>3
<1>3. \A t \in Turns : ToldAt(t, Answer)' = ToldAt(t, Answer)
                       /\ ToldAt(t, {"claim"})' = ToldAt(t, {"claim"})
                       /\ ToldAt(t, {"noTurnOrder"})' = ToldAt(t, {"noTurnOrder"})
  BY <1>1 DEF ToldAt
<1>4. ASSUME NEW t \in Turns PROVE TurnOK(t)'
  <2>1. CASE turn'[t] = turn[t]
    BY <1>1, <1>3, <2>1 DEF TurnInv, TurnOK
  <2>2. CASE turn'[t].pc = "ended" /\ t \in cut' /\ Running(t)
    BY <1>1, <1>3, <2>2 DEF TurnInv, TurnOK, CallPhases, Phases
  <2> QED
    BY <1>2, <2>1, <2>2
<1> QED
  BY <1>1, <1>2, <1>4 DEF TurnInv, TurnTypeOK, TurnRecord

LEMMA TurnInductive == TurnInv /\ [TurnNext]_turnVars => TurnInv'
<1> SUFFICES ASSUME TurnInv, [TurnNext]_turnVars PROVE TurnInv'
  OBVIOUS
<1>1. CASE TurnNext
  <2>1. ASSUME NEW t \in Turns, RenderPlayerBubble(t) \/ Proceed(t) PROVE TurnInv'
    BY <2>1, RoundStep, CallStep DEF Proceed
  <2> QED
    BY <1>1, <2>1, CutStep DEF TurnNext
<1>2. CASE UNCHANGED turnVars
  BY <1>2 DEF turnVars, TurnInv, TurnTypeOK, TurnOK, ToldAt
<1> QED
  BY <1>1, <1>2

\* A turn that was shown gets one answer, as its last message, unless it was cut
\* short; the gate on claims of a turn order holds for the failures of the
\* mechanics pass, whatever tools the narration pass runs after it, and only the
\* narration pass makes an NPC without its schema; for any number of turns and
\* any limits (dm_slow_pass.go:515-540, 605-607).
THEOREM TurnsAnsweredOnce == TurnSpec => []AnsweredOnce
<1> QED
  BY TurnStarts, TurnInductive, TurnSuffices, PTL DEF TurnSpec

\* What k rounds may add to what the table is told.
CallsIn(k) == k * MaxBatch

\* No round goes over its pass's limit, and what was told is accounted for by
\* the input, the rounds so far and, less what is left of it, the reply at hand.
OnBudget(n, told) ==
  /\ n.pc = "none" => told = 0 /\ n.round = 0
  /\ n.pc \in {"mechanics", "mechanicsCall"} => n.round <= MechanicsLimit
  /\ n.pc \in {"narration", "narrationCall"} => n.round <= NarrationLimit
  /\ n.pc = "mechanics" => told <= 1 + CallsIn(n.round)
  /\ n.pc = "mechanicsCall" => told + n.left <= 1 + CallsIn(n.round)
  /\ n.pc = "narration" => told <= 1 + CallsIn(MechanicsLimit + n.round)
  /\ n.pc = "narrationCall" => told + n.left <= 1 + CallsIn(MechanicsLimit + n.round)
  /\ n.pc = "ended" => told <= 2 + CallsIn(MechanicsLimit + NarrationLimit)

RoundsOK == \A t \in Turns : OnBudget(turn[t], Len(table[t]))

\* However the model answers, a turn tells the table no more than the input, an
\* answer, and what the calls of its rounds come to.
TurnsAreBounded ==
  \A t \in Turns : Len(table[t]) <= 2 + (MechanicsLimit + NarrationLimit) * MaxBatch

LEMMA CallsInFacts ==
  ASSUME NEW k \in Nat
  PROVE  /\ CallsIn(k) \in Nat /\ CallsIn(k + 1) = CallsIn(k) + MaxBatch
         /\ \A m \in Nat : k <= m => CallsIn(k) <= CallsIn(m)
<1>1. MaxBatch \in Nat
  BY LimitsAssumption
<1>2. CallsIn(k) \in Nat /\ CallsIn(k + 1) = CallsIn(k) + MaxBatch
  BY <1>1 DEF CallsIn
<1>3. ASSUME NEW m \in Nat, k <= m PROVE CallsIn(k) <= CallsIn(m)
  <2>1. m - k \in Nat /\ (m - k) * MaxBatch >= 0 /\ m * MaxBatch = k * MaxBatch + (m - k) * MaxBatch
    BY <1>1, <1>3
  <2> QED
    BY <1>1, <2>1 DEF CallsIn
<1> QED
  BY <1>2, <1>3

\* The types of one turn, and the sums its rounds stay within.
LEMMA TurnNumbers ==
  ASSUME TurnTypeOK, NEW t \in Turns
  PROVE  /\ turn[t] \in TurnRecord /\ turn[t].round \in Nat /\ turn[t].left \in Nat /\ Len(table[t]) \in Nat
         /\ MechanicsLimit \in Nat /\ NarrationLimit \in Nat /\ MaxBatch \in Nat
         /\ MechanicsLimit + turn[t].round \in Nat
         /\ CallsIn(turn[t].round) \in Nat /\ CallsIn(MechanicsLimit + turn[t].round) \in Nat
         /\ CallsIn(turn[t].round + 1) = CallsIn(turn[t].round) + MaxBatch
         /\ CallsIn(MechanicsLimit + (turn[t].round + 1)) = CallsIn(MechanicsLimit + turn[t].round) + MaxBatch
         /\ CallsIn(MechanicsLimit + 0) = CallsIn(MechanicsLimit) /\ CallsIn(MechanicsLimit) \in Nat
         /\ CallsIn(MechanicsLimit + NarrationLimit) \in Nat
         /\ turn[t].round <= MechanicsLimit =>
              /\ CallsIn(turn[t].round) <= CallsIn(MechanicsLimit)
              /\ CallsIn(turn[t].round) <= CallsIn(MechanicsLimit + NarrationLimit)
         /\ turn[t].round <= NarrationLimit =>
              CallsIn(MechanicsLimit + turn[t].round) <= CallsIn(MechanicsLimit + NarrationLimit)
<1>1. turn[t] \in TurnRecord /\ table[t] \in Seq(Told)
  BY DEF TurnTypeOK, TurnRecord
<1>2. turn[t].round \in Nat /\ turn[t].left \in Nat /\ Len(table[t]) \in Nat
  BY <1>1, LimitsAssumption DEF TurnRecord
<1>3. MechanicsLimit \in Nat /\ NarrationLimit \in Nat /\ MaxBatch \in Nat
  BY LimitsAssumption
<1>4. MechanicsLimit + turn[t].round \in Nat /\ MechanicsLimit + NarrationLimit \in Nat
      /\ MechanicsLimit + (turn[t].round + 1) = (MechanicsLimit + turn[t].round) + 1 /\ MechanicsLimit + 0 = MechanicsLimit
  BY <1>2, <1>3
<1>5. turn[t].round <= MechanicsLimit => turn[t].round <= MechanicsLimit + NarrationLimit
  BY <1>2, <1>3
<1>6. turn[t].round <= NarrationLimit => MechanicsLimit + turn[t].round <= MechanicsLimit + NarrationLimit
  BY <1>2, <1>3
<1> QED
  BY <1>1, <1>2, <1>3, <1>4, <1>5, <1>6, CallsInFacts

\* A turn goes on with record n, having told the table something or nothing;
\* the others are left alone.
LEMMA RoundsStep ==
  ASSUME TurnInv, RoundsOK, NEW t \in Turns, NEW n, turn' = [turn EXCEPT ![t] = n],
         \/ UNCHANGED table /\ OnBudget(n, Len(table[t]))
         \/ (\E what : Tell(t, what)) /\ OnBudget(n, Len(table[t]) + 1)
  PROVE  RoundsOK'
<1>1. turn \in [Turns -> TurnRecord] /\ table \in [Turns -> Seq(Told)]
  BY DEF TurnInv, TurnTypeOK, TurnRecord
<1>2. ASSUME NEW what, Tell(t, what)
      PROVE  Len(table'[t]) = Len(table[t]) + 1 /\ \A u \in Turns \ {t} : table'[u] = table[u]
  <2>1. table'[t] = Append(table[t], what) /\ \A u \in Turns \ {t} : table'[u] = table[u]
    BY <1>1, <1>2 DEF Tell
  <2> QED
    BY <1>1, <2>1
<1>3. turn'[t] = n /\ OnBudget(n, Len(table'[t]))
  BY <1>1, <1>2
<1>4. \A u \in Turns \ {t} : turn'[u] = turn[u] /\ table'[u] = table[u]
  BY <1>1, <1>2
<1> QED
  BY <1>3, <1>4 DEF RoundsOK

\* Whatever its phase a turn has told no more than all its rounds come to, and
\* between two replies there is room for one message more.
LEMMA BudgetTotal ==
  ASSUME TurnTypeOK, NEW t \in Turns, OnBudget(turn[t], Len(table[t]))
  PROVE  /\ Len(table[t]) <= 2 + CallsIn(MechanicsLimit + NarrationLimit)
         /\ turn[t].pc \in {"none", "mechanics", "narration"} =>
              Len(table[t]) + 1 <= 2 + CallsIn(MechanicsLimit + NarrationLimit)
<1>1. PICK total : total = CallsIn(MechanicsLimit + NarrationLimit)
  OBVIOUS
<1>2. /\ total \in Nat /\ Len(table[t]) \in Nat /\ turn[t].left \in Nat
      /\ CallsIn(turn[t].round) \in Nat /\ CallsIn(MechanicsLimit + turn[t].round) \in Nat
      /\ turn[t].round <= MechanicsLimit => CallsIn(turn[t].round) <= total
      /\ turn[t].round <= NarrationLimit => CallsIn(MechanicsLimit + turn[t].round) <= total
  BY <1>1, TurnNumbers
<1>3. turn[t].pc \in Phases \cup {"none", "ended"}
  BY DEF TurnTypeOK
<1>4. CASE turn[t].pc \in {"none", "ended"}
  BY <1>1, <1>2, <1>4 DEF OnBudget
<1>5. CASE turn[t].pc = "mechanics" \/ turn[t].pc = "mechanicsCall"
  <2>1. CallsIn(turn[t].round) <= total
    BY <1>2, <1>5 DEF OnBudget
  <2>2. Len(table[t]) <= 1 + CallsIn(turn[t].round) \/ Len(table[t]) + turn[t].left <= 1 + CallsIn(turn[t].round)
    BY <1>5 DEF OnBudget
  <2>3. ASSUME NEW l \in Nat, NEW k \in Nat, NEW c \in Nat, NEW b \in Nat,
               l <= 1 + c \/ l + k <= 1 + c, c <= b
        PROVE  l <= 1 + b
    BY <2>3
  <2>4. Len(table[t]) <= 1 + total
    BY <1>2, <2>1, <2>2, <2>3
  <2>. QED
    BY <1>1, <1>2, <2>4
<1>6. CASE turn[t].pc = "narration" \/ turn[t].pc = "narrationCall"
  <2>1. CallsIn(MechanicsLimit + turn[t].round) <= total
    BY <1>2, <1>6 DEF OnBudget
  <2>2. Len(table[t]) <= 1 + CallsIn(MechanicsLimit + turn[t].round) \/ Len(table[t]) + turn[t].left <= 1 + CallsIn(MechanicsLimit + turn[t].round)
    BY <1>6 DEF OnBudget
  <2>3. ASSUME NEW l \in Nat, NEW k \in Nat, NEW c \in Nat, NEW b \in Nat,
               l <= 1 + c \/ l + k <= 1 + c, c <= b
        PROVE  l <= 1 + b
    BY <2>3
  <2>4. Len(table[t]) <= 1 + total
    BY <1>2, <2>1, <2>2, <2>3
  <2>. QED
    BY <1>1, <1>2, <2>4
<1>. QED
  BY <1>3, <1>4, <1>5, <1>6 DEF Phases

\* One of the steps that end a turn: it has said what it says.
LEMMA EndsWithin ==
  ASSUME TurnInv, RoundsOK, NEW t \in Turns, TurnGoto(t, "ended"),
         UNCHANGED table \/ (\E what : Tell(t, what)),
         turn[t].pc \in {"none", "mechanics", "narration"}
  PROVE  RoundsOK'
<1>. DEFINE n == [turn[t] EXCEPT !.pc = "ended"]
<1>1. TurnTypeOK /\ OnBudget(turn[t], Len(table[t]))
  BY DEF TurnInv, RoundsOK
<1>2. turn' = [turn EXCEPT ![t] = n] /\ n.pc = "ended"
  BY <1>1, TurnNumbers DEF TurnGoto, TurnRecord
<1>3. Len(table[t]) \in Nat /\ Len(table[t]) + 1 <= 2 + CallsIn(MechanicsLimit + NarrationLimit)
  BY <1>1, TurnNumbers, BudgetTotal
<1>. HIDE DEF n
<1>4. OnBudget(n, Len(table[t])) /\ OnBudget(n, Len(table[t]) + 1)
  <2>1. CallsIn(MechanicsLimit + NarrationLimit) \in Nat
    BY <1>1, TurnNumbers
  <2>. QED
    BY <1>2, <1>3, <2>1 DEF OnBudget
<1>. QED
  BY <1>2, <1>4, RoundsStep

LEMMA ProceedKeepsRounds ==
  ASSUME TurnInv, RoundsOK, NEW t \in Turns, RenderPlayerBubble(t) \/ Proceed(t)
  PROVE  RoundsOK'
<1>0. TurnTypeOK /\ OnBudget(turn[t], Len(table[t]))
  BY DEF TurnInv, RoundsOK
<1>1. /\ turn[t].round \in Nat /\ turn[t].left \in Nat /\ Len(table[t]) \in Nat /\ turn[t] \in TurnRecord
      /\ MechanicsLimit \in Nat /\ NarrationLimit \in Nat /\ MaxBatch \in Nat
  BY <1>0, TurnNumbers
<1>2. ASSUME FailureNotice(t), turn[t].pc \in {"mechanics", "narration"}  PROVE RoundsOK'
  BY <1>2, EndsWithin DEF FailureNotice
<1>3. ASSUME NEW pc \in {"mechanicsCall", "narrationCall"}, CallTools(t, pc),
             turn[t].pc = (IF pc = "mechanicsCall" THEN "mechanics" ELSE "narration"),
             turn[t].round < (IF pc = "mechanicsCall" THEN MechanicsLimit ELSE NarrationLimit)
      PROVE  RoundsOK'
  <2>1. PICK k \in 1..MaxBatch : turn' = [turn EXCEPT ![t].pc = pc, ![t].round = @ + 1, ![t].left = k]
    BY <1>3 DEF CallTools
  <2>2. PICK n : n = [turn[t] EXCEPT !.pc = pc, !.round = @ + 1, !.left = k]
    OBVIOUS
  <2>3. turn' = [turn EXCEPT ![t] = n]
    BY <1>0, <2>1, <2>2 DEF TurnTypeOK
  <2>4. n.pc = pc /\ n.round = turn[t].round + 1 /\ n.left = k /\ k \in Nat /\ k <= MaxBatch
    BY <1>1, <2>2 DEF TurnRecord
  <2>5. OnBudget(n, Len(table[t]))
    <3>1. /\ CallsIn(turn[t].round) \in Nat /\ CallsIn(MechanicsLimit + turn[t].round) \in Nat
          /\ CallsIn(turn[t].round + 1) = CallsIn(turn[t].round) + MaxBatch
          /\ CallsIn(MechanicsLimit + (turn[t].round + 1)) = CallsIn(MechanicsLimit + turn[t].round) + MaxBatch
      BY <1>0, TurnNumbers
    <3>2. ASSUME NEW C \in Nat, Len(table[t]) <= 1 + C  PROVE Len(table[t]) + n.left <= 1 + (C + MaxBatch)
      <4>1. Len(table[t]) \in Nat /\ k \in Nat /\ MaxBatch \in Nat /\ k <= MaxBatch /\ n.left = k
        BY <1>1, <2>4
      <4>2. Len(table[t]) + k <= 1 + (C + MaxBatch)
        BY <3>2, <4>1
      <4>. QED
        BY <4>1, <4>2
    <3>3. CASE pc = "mechanicsCall"
      <4>1. Len(table[t]) <= 1 + CallsIn(turn[t].round) /\ turn[t].round < MechanicsLimit
        BY <1>0, <1>3, <3>3 DEF OnBudget
      <4>2. CallsIn(n.round) = CallsIn(turn[t].round) + MaxBatch
        BY <2>4, <3>1
      <4>3. n.round <= MechanicsLimit
        BY <1>1, <2>4, <4>1
      <4>4. Len(table[t]) + n.left <= 1 + (CallsIn(turn[t].round) + MaxBatch)
        BY <3>1, <3>2, <4>1
      <4>5. Len(table[t]) + n.left <= 1 + CallsIn(n.round)
        BY <4>2, <4>4
      <4>. QED
        BY <2>4, <3>3, <4>3, <4>5 DEF OnBudget
    <3>4. CASE pc = "narrationCall"
      <4>1. Len(table[t]) <= 1 + CallsIn(MechanicsLimit + turn[t].round) /\ turn[t].round < NarrationLimit
        BY <1>0, <1>3, <3>4 DEF OnBudget
      <4>2. MechanicsLimit + n.round = MechanicsLimit + (turn[t].round + 1) /\ n.round <= NarrationLimit
        BY <1>1, <2>4, <4>1
      <4>3. CallsIn(MechanicsLimit + n.round) = CallsIn(MechanicsLimit + turn[t].round) + MaxBatch
        BY <3>1, <4>2
      <4>4. Len(table[t]) + n.left <= 1 + (CallsIn(MechanicsLimit + turn[t].round) + MaxBatch)
        BY <3>1, <3>2, <4>1
      <4>5. Len(table[t]) + n.left <= 1 + CallsIn(MechanicsLimit + n.round)
        BY <4>3, <4>4
      <4>. QED
        BY <2>4, <3>4, <4>2, <4>5 DEF OnBudget
    <3>. QED
      BY <3>3, <3>4
  <2>. QED
    BY <1>3, <2>3, <2>5, RoundsStep DEF CallTools
<1>4. ASSUME NEW pc \in {"mechanics", "narration"}, NEW failed, Called(t, failed, pc), \E what : Tell(t, what),
             turn[t].pc = (IF pc = "mechanics" THEN "mechanicsCall" ELSE "narrationCall")
      PROVE  RoundsOK'
  <2>1. PICK n : n = [turn[t] EXCEPT !.left = @ - 1, !.failed = failed,
                                     !.pc = IF turn[t].left > 1 THEN @ ELSE pc]
    OBVIOUS
  <2>2. turn' = [turn EXCEPT ![t] = n]
    BY <1>4, <2>1 DEF Called
  <2>3. n.pc = (IF turn[t].left > 1 THEN turn[t].pc ELSE pc) /\ n.round = turn[t].round /\ n.left = turn[t].left - 1
    BY <1>1, <2>1 DEF TurnRecord
  <2>4. turn[t].left > 0
    BY <1>4 DEF TurnInv, TurnOK, CallPhases
  <2>5. OnBudget(n, Len(table[t]) + 1)
    <3>1. CallsIn(turn[t].round) \in Nat /\ CallsIn(MechanicsLimit + turn[t].round) \in Nat
      BY <1>0, TurnNumbers
    <3>2. ASSUME NEW C \in Nat, Len(table[t]) + turn[t].left <= 1 + C
          PROVE  (Len(table[t]) + 1) + n.left <= 1 + C /\ Len(table[t]) + 1 <= 1 + C
      <4>1. Len(table[t]) \in Nat /\ turn[t].left \in Nat /\ turn[t].left > 0 /\ n.left = turn[t].left - 1
        BY <1>1, <2>3, <2>4
      <4>2. (Len(table[t]) + 1) + (turn[t].left - 1) <= 1 + C /\ Len(table[t]) + 1 <= 1 + C
        BY <3>2, <4>1
      <4>. QED
        BY <4>1, <4>2
    <3>3. CASE pc = "mechanics"
      <4>1. Len(table[t]) + turn[t].left <= 1 + CallsIn(turn[t].round) /\ turn[t].round <= MechanicsLimit
        BY <1>0, <1>4, <3>3 DEF OnBudget
      <4>2. (Len(table[t]) + 1) + n.left <= 1 + CallsIn(turn[t].round) /\ Len(table[t]) + 1 <= 1 + CallsIn(turn[t].round)
        BY <3>1, <3>2, <4>1
      <4>3. n.pc = "mechanicsCall" \/ n.pc = "mechanics"
        BY <1>4, <2>3, <3>3
      <4>. QED
        BY <2>3, <4>1, <4>2, <4>3 DEF OnBudget
    <3>4. CASE pc = "narration"
      <4>1. Len(table[t]) + turn[t].left <= 1 + CallsIn(MechanicsLimit + turn[t].round) /\ turn[t].round <= NarrationLimit
        BY <1>0, <1>4, <3>4 DEF OnBudget
      <4>2. (Len(table[t]) + 1) + n.left <= 1 + CallsIn(MechanicsLimit + turn[t].round) /\ Len(table[t]) + 1 <= 1 + CallsIn(MechanicsLimit + turn[t].round)
        BY <3>1, <3>2, <4>1
      <4>3. n.pc = "narrationCall" \/ n.pc = "narration"
        BY <1>4, <2>3, <3>4
      <4>. QED
        BY <2>3, <4>1, <4>2, <4>3 DEF OnBudget
    <3>. QED
      BY <3>3, <3>4
  <2>. QED
    BY <1>4, <2>2, <2>5, RoundsStep
<1>5. CASE RenderPlayerBubble(t)
  <2>1. CASE TurnGoto(t, "ended") /\ UNCHANGED table
    BY <1>5, <2>1, EndsWithin DEF RenderPlayerBubble, TurnAt
  <2>2. CASE Tell(t, "bubble") /\ TurnGoto(t, "mechanics")
    <3>1. PICK n : n = [turn[t] EXCEPT !.pc = "mechanics"]
      OBVIOUS
    <3>2. turn' = [turn EXCEPT ![t] = n] /\ n.pc = "mechanics" /\ n.round = turn[t].round
      BY <1>1, <2>2, <3>1 DEF TurnGoto, TurnRecord
    <3>3. Len(table[t]) = 0 /\ n.round = 0 /\ CallsIn(n.round) \in Nat
      BY <1>0, <1>5, <3>2, TurnNumbers DEF RenderPlayerBubble, TurnAt, OnBudget
    <3>4. OnBudget(n, Len(table[t]) + 1)
      BY <1>1, <3>2, <3>3 DEF OnBudget
    <3>. QED
      BY <2>2, <3>2, <3>4, RoundsStep
  <2>. QED
    BY <1>5, <2>1, <2>2 DEF RenderPlayerBubble
<1>6. CASE MechanicsRound(t)
  <2>1. turn[t].pc = "mechanics"
    BY <1>6 DEF MechanicsRound, TurnAt
  <2>2. CASE turn' = [turn EXCEPT ![t].pc = "narration", ![t].round = 0] /\ UNCHANGED table
    <3>1. PICK n : n = [turn[t] EXCEPT !.pc = "narration", !.round = 0]
      OBVIOUS
    <3>2. turn' = [turn EXCEPT ![t] = n] /\ n.pc = "narration" /\ n.round = 0
      BY <1>0, <1>1, <2>2, <3>1 DEF TurnTypeOK, TurnRecord
    <3>3. Len(table[t]) <= 1 + CallsIn(MechanicsLimit + 0)
      <4>1. Len(table[t]) <= 1 + CallsIn(turn[t].round) /\ turn[t].round <= MechanicsLimit
        BY <1>0, <2>1 DEF OnBudget
      <4>2. CallsIn(turn[t].round) \in Nat /\ CallsIn(turn[t].round) <= CallsIn(MechanicsLimit)
        BY <1>0, <4>1, TurnNumbers
      <4>3. CallsIn(MechanicsLimit + 0) = CallsIn(MechanicsLimit) /\ CallsIn(MechanicsLimit) \in Nat
        BY <1>0, TurnNumbers
      <4>. QED
        BY <1>1, <4>1, <4>2, <4>3
    <3>4. OnBudget(n, Len(table[t]))
      BY <1>1, <3>2, <3>3 DEF OnBudget
    <3>. QED
      BY <2>2, <3>2, <3>4, RoundsStep
  <2>. QED
    BY <1>2, <1>3, <1>6, <2>1, <2>2 DEF MechanicsRound
<1>7. CASE NarrationRound(t)
  <2>1. turn[t].pc = "narration"
    BY <1>7 DEF NarrationRound, TurnAt
  <2>2. ASSUME NEW what, Tell(t, what), TurnGoto(t, "ended")  PROVE RoundsOK'
    BY <2>1, <2>2, EndsWithin
  <2>. QED
    BY <1>2, <1>3, <1>7, <2>1, <2>2 DEF NarrationRound
<1>8. CASE LooseNPC(t) \/ GetCharacterSchema(t) \/ CreateNPC(t)
  BY <1>4, <1>8 DEF LooseNPC, GetCharacterSchema, CreateNPC, TurnAt
<1>9. ASSUME NEW order, NEW ok, MechanicsCall(t, order, ok) \/ NarrationCall(t, order, ok)  PROVE RoundsOK'
  BY <1>4, <1>9 DEF MechanicsCall, NarrationCall, TurnAt
<1>. QED
  BY <1>5, <1>6, <1>7, <1>8, <1>9 DEF Proceed

LEMMA CutKeepsRounds ==
  ASSUME TurnInv, RoundsOK, TurnRestart \/ \E t \in Turns : Panic(t)
  PROVE  RoundsOK'
<1>1. UNCHANGED table
  BY DEF TurnRestart, Panic
<1>2. \A t \in Turns : turn'[t] = turn[t] \/ (turn'[t].pc = "ended" /\ Running(t))
  <2>1. turn \in [Turns -> TurnRecord]
    BY DEF TurnInv, TurnTypeOK, TurnRecord
  <2>2. CASE TurnRestart
    BY <2>1, <2>2 DEF TurnRestart, TurnRecord
  <2>3. ASSUME NEW t \in Turns, Panic(t) PROVE <1>2
    BY <2>1, <2>3 DEF Panic, TurnGoto, TurnRecord
  <2>. QED
    BY <2>2, <2>3
<1>3. ASSUME NEW t \in Turns, turn'[t].pc = "ended", Running(t)  PROVE OnBudget(turn'[t], Len(table[t]))
  <2>1. OnBudget(turn[t], Len(table[t])) /\ TurnTypeOK /\ turn[t].pc \in Phases
    BY <1>3, TurnNumbers DEF TurnInv, RoundsOK, Running, TurnRecord
  <2>2. Len(table[t]) <= 2 + CallsIn(MechanicsLimit + NarrationLimit)
    BY <2>1, BudgetTotal
  <2>. QED
    BY <1>3, <2>2 DEF OnBudget
<1>. QED
  BY <1>1, <1>2, <1>3 DEF RoundsOK

LEMMA RoundsInductive == TurnInv /\ RoundsOK /\ [TurnNext]_turnVars => RoundsOK'
<1>. SUFFICES ASSUME TurnInv, RoundsOK, [TurnNext]_turnVars  PROVE RoundsOK'
  OBVIOUS
<1>1. CASE UNCHANGED turnVars
  BY <1>1 DEF turnVars, RoundsOK
<1>. QED
  BY <1>1, ProceedKeepsRounds, CutKeepsRounds DEF TurnNext

\* A turn comes to no more than the input, one answer and the results of the calls
\* its two passes have rounds for, whatever the model answers, for any number of
\* turns and any limits (dm_slow_pass.go:85-110, 501, 589).
THEOREM TurnsStayBounded == TurnSpec => []TurnsAreBounded
<1>1. TurnInit => RoundsOK
  BY DEF TurnInit, NoTurn, RoundsOK, OnBudget
<1>2. TurnInv /\ RoundsOK => TurnsAreBounded
  <2>. SUFFICES ASSUME TurnInv, RoundsOK, NEW t \in Turns
                PROVE  Len(table[t]) <= 2 + (MechanicsLimit + NarrationLimit) * MaxBatch
    BY DEF TurnsAreBounded
  <2>1. OnBudget(turn[t], Len(table[t])) /\ TurnTypeOK /\ turn[t].pc \in Phases \cup {"none", "ended"}
    BY TurnNumbers DEF TurnInv, RoundsOK, TurnRecord
  <2>2. Len(table[t]) <= 2 + CallsIn(MechanicsLimit + NarrationLimit)
    BY <2>1, BudgetTotal
  <2>. QED
    BY <2>2 DEF CallsIn
<1>3. TurnInv /\ RoundsOK /\ [TurnNext]_turnVars => (TurnInv /\ RoundsOK)'
  BY TurnInductive, RoundsInductive
<1>. QED
  BY <1>1, <1>2, <1>3, TurnStarts, PTL DEF TurnSpec

--------------------------------------------------------------------------------
(* Campaigns.  A form that is being saved differs from the row it was      *)
(* filled in from in its own field only.                                   *)

Opening == [pc : {"activate"}, campaign : Campaigns \cup {Nothing}]
Saving == [pc : {"save"}, campaign : Campaigns, field : {"policy", "password"}, read : Row, row : Row]
Installing == [pc : {"name", "bind"}, campaign : Campaigns, pack : Bindings]
Request == {NoRequest} \cup Opening \cup Saving \cup Installing
Late == {NoRow} \cup [campaign : Campaigns, owner : Names]
Guest == {Outside} \cup [pc : {"lookup", "admitted", "in"}, campaign : Campaigns]
Entering == [policy : Values, password : Values, pack : Bindings \cup {Nothing}]

OneFieldChanged(q) ==
  q.pc = "save" => /\ q.field = "policy" => q.row.password = q.read.password
                   /\ q.field = "password" => q.row.policy = q.read.policy

FormsOK == \A r \in Requests : OneFieldChanged(request[r])

CampaignsInv == CampaignsTypeOK /\ FormsOK /\ ClosedToNewcomers /\ EditsAreLostOnlyByOverlap

\* What the Host entered for a campaign is what is stored of it.
Kept(c) ==
  entered[c] = [policy |-> GetCampaignSettings(c).policy, password |-> GetCampaignSettings(c).password, pack |-> bound[c]]

LEMMA EditsAreKept == EditsAreLostOnlyByOverlap <=> \A c \in Campaigns \ overlapped : Kept(c)
BY DEF EditsAreLostOnlyByOverlap, Kept

LEMMA CampaignsTypes ==
  LET Typed ==
        /\ meta \in [Campaigns -> {Nothing, "shown", "archived"}]
        /\ settings \in [Campaigns -> Row \cup {NoRow}]
        /\ owners \in [Campaigns -> SUBSET Names] /\ welcome \subseteq Names
        /\ overlapped \subseteq Campaigns
        /\ bound \in [Campaigns -> Bindings \cup {Nothing}]
        /\ active \in Campaigns \cup {Nothing} /\ closed \in BOOLEAN /\ acts \in 0..MaxActs
        /\ request \in [Requests -> Request]
        /\ late \in Late
        /\ guest \in [Guests -> Guest]
        /\ entered \in [Campaigns -> Entering]
  IN  (CampaignsTypeOK <=> Typed) /\ (CampaignsTypeOK' <=> Typed')
BY Zenon DEF CampaignsTypeOK, Request, Opening, Saving, Installing, Guest, Entering, Late

\* What a request is, by what it is doing.
LEMMA RequestForms ==
  ASSUME NEW q \in Request
  PROVE  /\ q.pc = "activate" => q.campaign \in Campaigns \cup {Nothing}
         /\ q.pc = "save" => q \in Saving
         /\ q.pc \in {"name", "bind"} => q \in Installing
BY DEF Request, Opening, Saving, Installing, NoRequest

LEMMA GuestForms ==
  ASSUME NEW q \in Guest, q.pc # "away"
  PROVE  q.campaign \in Campaigns
BY DEF Guest, Outside

LEMMA RowsAreRows ==
  ASSUME CampaignsTypeOK, NEW c \in Campaigns
  PROVE  GetCampaignSettings(c) \in Row
BY CampaignsTypes DEF GetCampaignSettings, Blank, Row, Values

LEMMA NoRowIsNoRow == NoRow \notin Row
BY DEF NoRow, Row

LEMMA CampaignsStart == CampaignsInit => CampaignsInv
<1> SUFFICES ASSUME CampaignsInit PROVE CampaignsInv
  OBVIOUS
<1>1. CampaignsTypeOK
  <2>1. acts \in 0..MaxActs
    BY MaxActsAssumption DEF CampaignsInit
  <2>2. entered \in [Campaigns -> Entering]
    BY DEF CampaignsInit, Values, Entering
  <2>3. request \in [Requests -> Request] /\ guest \in [Guests -> Guest]
    BY DEF CampaignsInit, Request, Guest
  <2> QED
    BY <2>1, <2>2, <2>3, CampaignsTypes DEF CampaignsInit, Late
<1>2. FormsOK
  BY DEF CampaignsInit, FormsOK, OneFieldChanged, NoRequest
<1>3. ClosedToNewcomers
  BY DEF CampaignsInit, ClosedToNewcomers
<1>4. EditsAreLostOnlyByOverlap
  BY DEF CampaignsInit, EditsAreLostOnlyByOverlap, GetCampaignSettings, Blank, NoRow
<1> QED
  BY <1>1, <1>2, <1>3, <1>4 DEF CampaignsInv

\* A step that leaves what the Host edits alone.
LEMMA EditsUntouched ==
  ASSUME EditsAreLostOnlyByOverlap, UNCHANGED <<settings, bound, entered, overlapped>>
  PROVE  EditsAreLostOnlyByOverlap'
BY DEF EditsAreLostOnlyByOverlap, GetCampaignSettings

\* A step that lets nobody in.
LEMMA NobodyComes ==
  ASSUME ClosedToNewcomers, UNCHANGED <<active, closed, welcome>>,
         \A c \in Campaigns : Present(c)' \subseteq Present(c), CampaignsTypeOK
  PROVE  ClosedToNewcomers'
BY DEF ClosedToNewcomers, CampaignsTypeOK

\* A step of one request keeps the others' forms.
LEMMA FormsKept ==
  ASSUME FormsOK, NEW r \in Requests, NEW q, OneFieldChanged(q), request' = [request EXCEPT ![r] = q], CampaignsTypeOK
  PROVE  FormsOK'
BY DEF FormsOK, CampaignsTypeOK

\* Where nobody moves, the same people are there.
LEMMA SamePeople ==
  ASSUME UNCHANGED <<owners, guest>>, NEW c
  PROVE  Present(c)' = Present(c)
BY DEF Present

LEMMA FlagStep ==
  ASSUME CampaignsInv, NEW c \in Campaigns,
         HandleCreateCampaign(c) \/ HandlePutCampaignArchived(c) \/ HandleDeleteCampaign(c)
           \/ \E pack \in Bindings : HandlePutCampaignPack(c, pack)
  PROVE  CampaignsInv'
<1> USE CampaignsTypes DEF CampaignsInv
<1>1. ASSUME Act PROVE acts' \in 0..MaxActs
  BY <1>1, MaxActsAssumption DEF Act
<1>2. ASSUME UNCHANGED request PROVE FormsOK'
  BY <1>2 DEF FormsOK, OneFieldChanged
<1>3. CASE HandleCreateCampaign(c)
  <2>1. CampaignsTypeOK'
    BY <1>1, <1>3 DEF HandleCreateCampaign, SaveCampaignMeta
  <2> QED
    BY <1>2, <1>3, <2>1, EditsUntouched, NobodyComes, SamePeople DEF HandleCreateCampaign
<1>4. CASE HandlePutCampaignArchived(c)
  <2>1. CampaignsTypeOK'
    BY <1>1, <1>4 DEF HandlePutCampaignArchived, SetCampaignArchived
  <2> QED
    BY <1>2, <1>4, <2>1, EditsUntouched, NobodyComes, SamePeople DEF HandlePutCampaignArchived
<1>5. CASE HandleDeleteCampaign(c)
  <2>1. /\ settings' = [settings EXCEPT ![c] = NoRow] /\ owners' = [owners EXCEPT ![c] = {}]
        /\ meta' = [meta EXCEPT ![c] = Nothing] /\ Act
        /\ entered' = [entered EXCEPT ![c] = [policy |-> 0, password |-> 0, pack |-> entered[c].pack]]
        /\ UNCHANGED <<bound, active, closed, request, guest, late, overlapped, welcome>>
    BY <1>5, Zenon DEF HandleDeleteCampaign, DeleteCampaign
  <2>2. entered[c] \in Entering
    OBVIOUS
  <2>3. entered' \in [Campaigns -> Entering]
    BY <2>1, <2>2 DEF Entering, Values
  <2>4. CampaignsTypeOK'
    BY <1>1, <2>1, <2>3
  <2>5. ASSUME NEW d \in Campaigns \ overlapped PROVE Kept(d)'
    <3>1. Kept(d)
      BY EditsAreKept
    <3>2. CASE d = c
      BY <2>1, <3>1, <3>2 DEF Kept, GetCampaignSettings, Blank
    <3>3. CASE d # c
      BY <2>1, <3>1, <3>3 DEF Kept, GetCampaignSettings
    <3> QED
      BY <3>2, <3>3
  <2>6. EditsAreLostOnlyByOverlap'
    BY <2>1, <2>5 DEF EditsAreLostOnlyByOverlap, Kept
  <2>7. \A d \in Campaigns : Present(d)' \subseteq Present(d)
    BY <2>1 DEF Present
  <2> QED
    BY <1>2, <2>1, <2>4, <2>6, <2>7, NobodyComes
<1>6. ASSUME NEW pack \in Bindings, HandlePutCampaignPack(c, pack) PROVE CampaignsInv'
  <2>1. /\ bound' = [bound EXCEPT ![c] = pack] /\ Act
        /\ entered' = [entered EXCEPT ![c] = [entered[c] EXCEPT !.pack = pack]]
        /\ UNCHANGED <<meta, settings, owners, active, closed, request, guest, late, overlapped, welcome>>
    BY <1>6, Zenon DEF HandlePutCampaignPack
  <2>2. entered[c] \in Entering
    OBVIOUS
  <2>3. [entered[c] EXCEPT !.pack = pack] = [policy |-> entered[c].policy, password |-> entered[c].password, pack |-> pack]
    BY <2>2 DEF Entering
  <2>4. CampaignsTypeOK'
    BY <1>1, <2>1, <2>2, <2>3 DEF Entering
  <2>5. ASSUME NEW d \in Campaigns \ overlapped PROVE Kept(d)'
    <3>1. Kept(d)
      BY EditsAreKept
    <3>2. CASE d = c
      BY <2>1, <2>3, <3>1, <3>2 DEF Kept, GetCampaignSettings
    <3>3. CASE d # c
      BY <2>1, <3>1, <3>3 DEF Kept, GetCampaignSettings
    <3> QED
      BY <3>2, <3>3
  <2>6. EditsAreLostOnlyByOverlap'
    BY <2>1, <2>5 DEF EditsAreLostOnlyByOverlap, Kept
  <2> QED
    BY <1>2, <2>1, <2>4, <2>6, NobodyComes, SamePeople
<1> QED
  BY <1>3, <1>4, <1>5, <1>6

LEMMA LockStep ==
  ASSUME CampaignsInv, NEW shut \in BOOLEAN, HandleSetJoinLock(shut)
  PROVE  CampaignsInv'
<1> USE CampaignsTypes DEF CampaignsInv, HandleSetJoinLock
<1>1. \A c : Present(c)' = Present(c)
  BY SamePeople
<1>2. \A c : Present(c) \subseteq Names \/ c \notin Campaigns
  BY NamesAssumption DEF Present
<1>3. CampaignsTypeOK'
  BY <1>2, MaxActsAssumption DEF Close, Act
<1>4. FormsOK'
  BY DEF FormsOK, OneFieldChanged
<1>5. ClosedToNewcomers'
  BY <1>1 DEF Close, ClosedToNewcomers
<1> QED
  BY <1>3, <1>4, <1>5, EditsUntouched

\* Whoever comes by a character in the closed game is welcome in it.
LEMMA OneOwner ==
  ASSUME ClosedToNewcomers, CampaignsTypeOK, NEW to \in Campaigns, NEW name, Welcome(to, name),
         UNCHANGED <<active, closed, guest>>,
         \A c \in Campaigns : owners'[c] \subseteq owners[c] \cup (IF c = to THEN {name} ELSE {})
  PROVE  ClosedToNewcomers'
<1>1. \A c \in Campaigns : Present(c)' \subseteq Present(c) \cup (IF c = to THEN {name} ELSE {})
  BY DEF Present
<1> QED
  BY <1>1, CampaignsTypes DEF ClosedToNewcomers, Welcome

LEMMA MoveStep ==
  ASSUME CampaignsInv, NEW from \in Campaigns, NEW to \in Campaigns, NEW owner \in Names, HandleMoveCharacter(from, to, owner)
  PROVE  CampaignsInv'
<1> USE CampaignsTypes DEF CampaignsInv
<1>1. PICK others \in BOOLEAN :
        owners' = [owners EXCEPT ![from] = IF others THEN owners[from] ELSE owners[from] \ {owner}, ![to] = owners[to] \cup {owner}]
  BY DEF HandleMoveCharacter
<1>2. /\ Act /\ from # to /\ UNCHANGED <<meta, settings, bound, active, closed, request, guest, late, entered, overlapped>>
      /\ Welcome(to, owner)
  BY Zenon DEF HandleMoveCharacter
<1>3. owners' \in [Campaigns -> SUBSET Names]
  BY <1>1
<1>4. CampaignsTypeOK'
  BY <1>2, <1>3, MaxActsAssumption DEF Act, Welcome
<1>5. \A c \in Campaigns : owners'[c] \subseteq owners[c] \cup (IF c = to THEN {owner} ELSE {})
  BY <1>1, <1>2
<1>7. ClosedToNewcomers'
  BY <1>2, <1>5, OneOwner
<1>8. FormsOK'
  BY <1>2 DEF FormsOK, OneFieldChanged
<1> QED
  BY <1>2, <1>4, <1>7, <1>8, EditsUntouched

\* A request that only goes on.
LEMMA RequestGoesOn ==
  ASSUME CampaignsInv, NEW r \in Requests, NEW q \in Request, request' = [request EXCEPT ![r] = q], OneFieldChanged(q),
         UNCHANGED <<settings, owners, bound, active, closed, guest, late, entered, overlapped, welcome>>,
         meta' \in [Campaigns -> {Nothing, "shown", "archived"}], acts' \in 0..MaxActs
  PROVE  CampaignsInv'
<1>1. CampaignsTypeOK'
  BY CampaignsTypes DEF CampaignsInv
<1> QED
  BY <1>1, FormsKept, EditsUntouched, NobodyComes, SamePeople DEF CampaignsInv

LEMMA PlainRequestStep ==
  ASSUME CampaignsInv, NEW r \in Requests,
         \/ \E c \in Campaigns \cup {Nothing} : ChooseCampaign(r, c)
         \/ \E c \in Campaigns, field \in {"policy", "password"}, entry \in Entries : ReadForm(r, c, field, entry)
         \/ \E c \in Campaigns, pack \in Bindings : CheckBound(r, c, pack)
         \/ NameCampaign(r) \/ RequestFails(r)
  PROVE  CampaignsInv'
<1> USE DEF CampaignsInv, RequestGoto
<1>0. meta \in [Campaigns -> {Nothing, "shown", "archived"}] /\ acts \in 0..MaxActs /\ request[r] \in Request
  BY CampaignsTypes
<1>1. ASSUME Act PROVE acts' \in 0..MaxActs
  BY <1>0, <1>1, MaxActsAssumption DEF Act
<1>2. ASSUME NEW c \in Campaigns \cup {Nothing}, ChooseCampaign(r, c) PROVE CampaignsInv'
  <2>1. [pc |-> "activate", campaign |-> c] \in Request
    BY DEF Request, Opening
  <2> QED
    BY <1>0, <1>1, <1>2, <2>1, RequestGoesOn DEF ChooseCampaign, OneFieldChanged
<1>3. ASSUME NEW c \in Campaigns, NEW field \in {"policy", "password"}, NEW entry \in Entries, ReadForm(r, c, field, entry)
      PROVE CampaignsInv'
  <2> DEFINE read == GetCampaignSettings(c)
             q == [pc |-> "save", campaign |-> c, field |-> field, read |-> read, row |-> Filled(c, field, entry)]
  <2>1. read \in Row
    BY RowsAreRows
  <2>2. Filled(c, field, entry) = IF field = "policy" THEN [policy |-> entry, password |-> read.password]
                                                      ELSE [policy |-> read.policy, password |-> entry]
    <3>1. \A x \in Row : [x EXCEPT !.policy = entry] = [policy |-> entry, password |-> x.password]
      BY DEF Row
    <3>2. \A x \in Row : [x EXCEPT !.password = entry] = [policy |-> x.policy, password |-> entry]
      BY DEF Row
    <3>3. CASE field = "policy"
      BY <2>1, <3>1, <3>3 DEF Filled
    <3>4. CASE field = "password"
      BY <2>1, <3>2, <3>4 DEF Filled
    <3> QED
      BY <3>3, <3>4
  <2>3. Filled(c, field, entry) \in Row
    BY <2>1, <2>2 DEF Row, Values
  <2>4. OneFieldChanged(q)
    BY <2>2 DEF OneFieldChanged
  <2>5. q \in Request
    BY <2>1, <2>3 DEF Request, Saving
  <2> HIDE DEF q
  <2>6. request' = [request EXCEPT ![r] = q] /\ Act
        /\ UNCHANGED <<meta, settings, owners, bound, active, closed, guest, late, entered, overlapped, welcome>>
    BY <1>3 DEF ReadForm, q
  <2> QED
    BY <1>0, <1>1, <2>4, <2>5, <2>6, RequestGoesOn
<1>4. ASSUME NEW c \in Campaigns, NEW pack \in Bindings, CheckBound(r, c, pack) PROVE CampaignsInv'
  <2>1. [pc |-> "name", campaign |-> c, pack |-> pack] \in Request
    BY DEF Request, Installing
  <2> QED
    BY <1>0, <1>1, <1>4, <2>1, RequestGoesOn DEF CheckBound, OneFieldChanged
<1>5. CASE NameCampaign(r)
  <2>1. request[r] \in Installing
    BY <1>0, <1>5, RequestForms DEF NameCampaign, RequestAt
  <2>2. [request[r] EXCEPT !.pc = "bind"] \in Request /\ OneFieldChanged([request[r] EXCEPT !.pc = "bind"])
    BY <2>1 DEF Request, Installing, OneFieldChanged
  <2>3. meta' \in [Campaigns -> {Nothing, "shown", "archived"}]
    BY <1>0, <1>5 DEF NameCampaign, SaveCampaignMeta
  <2> QED
    BY <1>0, <1>5, <2>2, <2>3, RequestGoesOn DEF NameCampaign
<1>6. CASE RequestFails(r)
  <2>1. NoRequest \in Request /\ OneFieldChanged(NoRequest)
    BY DEF Request, NoRequest, OneFieldChanged
  <2> QED
    BY <1>0, <1>6, <2>1, RequestGoesOn DEF RequestFails
<1> QED
  BY <1>2, <1>3, <1>4, <1>5, <1>6

LEMMA ActivateStep ==
  ASSUME CampaignsInv, NEW r \in Requests, Activate(r)
  PROVE  CampaignsInv'
<1> USE DEF CampaignsInv
<1>1. request[r] \in Request /\ request[r].pc = "activate"
  BY CampaignsTypes DEF Activate, RequestAt
<1>2. request[r].campaign \in Campaigns \cup {Nothing}
  BY <1>1, RequestForms
<1>3. \A c : Present(c)' = Present(c)
  BY SamePeople DEF Activate
<1>4. \A c \in Campaigns : Present(c) \subseteq Names
  BY CampaignsTypes, NamesAssumption DEF Present
<1>5. NoRequest \in Request /\ OneFieldChanged(NoRequest)
  BY DEF Request, NoRequest, OneFieldChanged
<1>6. welcome' \subseteq Names
  BY <1>2, <1>4, CampaignsTypes DEF Activate, Close
<1>7. CampaignsTypeOK'
  BY <1>2, <1>5, <1>6, CampaignsTypes DEF Activate, RequestGoto
<1>8. ClosedToNewcomers'
  BY <1>3 DEF Activate, Close, ClosedToNewcomers
<1> QED
  BY <1>5, <1>7, <1>8, FormsKept, EditsUntouched DEF Activate, RequestGoto

\* The row a form saves: what the Host entered in it, and what it read.
LEMMA SaveStep ==
  ASSUME CampaignsInv, NEW r \in Requests, SaveForm(r)
  PROVE  CampaignsInv'
<1> DEFINE q == request[r]
<1> USE DEF CampaignsInv
<1>1. request[r] \in Request /\ request[r].pc = "save" /\ OneFieldChanged(request[r])
  BY CampaignsTypes DEF SaveForm, RequestAt, FormsOK
<1>2. q \in Saving
  BY <1>1, RequestForms
<1>3. q.campaign \in Campaigns /\ q.field \in {"policy", "password"} /\ q.read \in Row /\ q.row \in Row
  BY <1>2 DEF Saving
<1> HIDE DEF q
<1>4. /\ settings' = [settings EXCEPT ![q.campaign] = q.row]
      /\ entered' = [entered EXCEPT ![q.campaign] = [entered[q.campaign] EXCEPT ![q.field] = q.row[q.field]]]
      /\ overlapped' = IF GetCampaignSettings(q.campaign) = q.read THEN overlapped ELSE overlapped \cup {q.campaign}
      /\ request' = [request EXCEPT ![r] = NoRequest]
      /\ UNCHANGED <<meta, owners, bound, active, closed, guest, late, acts, welcome>>
  BY Zenon DEF SaveForm, RequestGoto, q
<1>5. entered[q.campaign] \in Entering
  BY <1>3, CampaignsTypes
<1>6. entered'[q.campaign] = IF q.field = "policy"
                               THEN [policy |-> q.row.policy, password |-> entered[q.campaign].password, pack |-> entered[q.campaign].pack]
                               ELSE [policy |-> entered[q.campaign].policy, password |-> q.row.password, pack |-> entered[q.campaign].pack]
  <2>1. entered'[q.campaign] = [entered[q.campaign] EXCEPT ![q.field] = q.row[q.field]]
    BY <1>3, <1>4, CampaignsTypes
  <2>2. CASE q.field = "policy"
    BY <1>5, <2>1, <2>2 DEF Entering
  <2>3. CASE q.field = "password"
    BY <1>5, <2>1, <2>3 DEF Entering
  <2> QED
    BY <1>3, <2>2, <2>3
<1>7. entered'[q.campaign] \in Entering
  BY <1>3, <1>5, <1>6 DEF Entering, Row
<1>8. entered' \in [Campaigns -> Entering] /\ \A c \in Campaigns \ {q.campaign} : entered'[c] = entered[c]
  BY <1>3, <1>4, <1>7, CampaignsTypes
<1>9. CampaignsTypeOK'
  BY <1>3, <1>4, <1>8, CampaignsTypes DEF Request
<1>10. FormsOK'
  BY <1>4, FormsKept DEF OneFieldChanged, NoRequest
<1>11. ASSUME NEW c \in Campaigns \ overlapped' PROVE Kept(c)'
  <2>1. c \notin overlapped /\ Kept(c)
    BY <1>4, EditsAreKept
  <2>2. CASE c # q.campaign
    BY <1>4, <1>8, <2>1, <2>2 DEF Kept, GetCampaignSettings
  <2>3. CASE c = q.campaign
    <3>1. GetCampaignSettings(c) = q.read
      BY <1>4, <2>3
    <3>2. GetCampaignSettings(c)' = q.row
      <4>1. settings'[c] = q.row
        BY <1>3, <1>4, <2>3, CampaignsTypes
      <4> QED
        BY <1>3, <4>1, NoRowIsNoRow DEF GetCampaignSettings
    <3>3. entered[c] = [policy |-> q.read.policy, password |-> q.read.password, pack |-> bound[c]]
      BY <2>1, <3>1 DEF Kept
    <3>4. entered'[c] = [policy |-> q.row.policy, password |-> q.row.password, pack |-> bound[c]]
      BY <1>1, <1>3, <1>6, <2>3, <3>3 DEF OneFieldChanged, q
    <3> QED
      BY <1>4, <3>2, <3>4 DEF Kept
  <2> QED
    BY <2>2, <2>3
<1>12. EditsAreLostOnlyByOverlap'
  BY <1>11 DEF EditsAreLostOnlyByOverlap, Kept
<1> QED
  BY <1>4, <1>9, <1>10, <1>12, NobodyComes, SamePeople

LEMMA BindStep ==
  ASSUME CampaignsInv, NEW r \in Requests, BindPack(r)
  PROVE  CampaignsInv'
<1> DEFINE c == request[r].campaign
           pack == request[r].pack
<1> USE DEF CampaignsInv
<1>1. request[r] \in Installing
  BY CampaignsTypes, RequestForms DEF BindPack, RequestAt
<1>2. c \in Campaigns /\ pack \in Bindings
  BY <1>1 DEF Installing
<1>3. /\ bound' = [bound EXCEPT ![c] = pack] /\ request' = [request EXCEPT ![r] = NoRequest]
      /\ \/ /\ bound[c] = Nothing /\ UNCHANGED overlapped
            /\ entered' = [entered EXCEPT ![c] = [entered[c] EXCEPT !.pack = pack]]
         \/ overlapped' = overlapped \cup {c} /\ UNCHANGED entered
      /\ UNCHANGED <<meta, settings, owners, active, closed, guest, late, acts, welcome>>
  BY Zenon DEF BindPack, RequestGoto
<1> HIDE DEF c, pack
<1>4. entered[c] \in Entering
  BY <1>2, CampaignsTypes
<1>5. [entered[c] EXCEPT !.pack = pack] = [policy |-> entered[c].policy, password |-> entered[c].password, pack |-> pack]
  BY <1>4 DEF Entering
<1>6. [entered[c] EXCEPT !.pack = pack] \in Entering
  BY <1>2, <1>4, <1>5 DEF Entering
<1>7. CampaignsTypeOK'
  BY <1>2, <1>3, <1>6, CampaignsTypes DEF Request
<1>8. FormsOK'
  BY <1>3, FormsKept DEF OneFieldChanged, NoRequest
<1>9. ASSUME NEW d \in Campaigns \ overlapped' PROVE Kept(d)'
  <2>1. Kept(d)
    BY <1>3, EditsAreKept
  <2>2. CASE d = c
    BY <1>2, <1>3, <1>5, <2>1, <2>2, CampaignsTypes DEF Kept, GetCampaignSettings
  <2>3. CASE d # c
    BY <1>2, <1>3, <2>1, <2>3, CampaignsTypes DEF Kept, GetCampaignSettings
  <2> QED
    BY <2>2, <2>3
<1>10. EditsAreLostOnlyByOverlap'
  BY <1>9 DEF EditsAreLostOnlyByOverlap, Kept
<1> QED
  BY <1>3, <1>7, <1>8, <1>10, NobodyComes, SamePeople

LEMMA GuestMoves ==
  ASSUME CampaignsInv, NEW g \in Guests, GuestStep(g)
  PROVE  CampaignsInv'
<1> USE DEF CampaignsInv
<1>1. guest[g] \in Guest
  BY CampaignsTypes
<1>2. UNCHANGED <<meta, settings, bound, active, closed, request, late, acts, entered, overlapped>>
  BY DEF GuestStep, SessionGate, LookForCharacter, Enter, Depart, MakeCharacter
<1>3. FormsOK'
  BY <1>2 DEF FormsOK, OneFieldChanged
<1>4. EditsAreLostOnlyByOverlap'
  BY <1>2, EditsUntouched
<1>5. ASSUME CampaignsTypeOK', ClosedToNewcomers' PROVE CampaignsInv'
  BY <1>3, <1>4, <1>5
<1>6. ASSUME NEW c \in Campaigns, NEW pc \in {"lookup", "admitted", "in"}, GuestGoto(g, pc, c), UNCHANGED <<owners, welcome>>,
             pc = "lookup" \/ (active = c /\ closed => GuestName[g] \in Present(c))
      PROVE  CampaignsInv'
  <2>1. guest' = [guest EXCEPT ![g] = [pc |-> pc, campaign |-> c]]
    BY <1>6 DEF GuestGoto
  <2>2. [pc |-> pc, campaign |-> c] \in Guest
    BY DEF Guest
  <2>3. CampaignsTypeOK'
    BY <1>2, <1>6, <2>1, <2>2, CampaignsTypes
  <2>4. guest \in [Guests -> Guest]
    BY CampaignsTypes
  <2>5. ASSUME NEW d \in Campaigns PROVE Present(d)' \subseteq Present(d) \cup (IF d = c /\ pc # "lookup" THEN {GuestName[g]} ELSE {})
    BY <1>6, <2>1, <2>4 DEF Present
  <2>6. ClosedToNewcomers'
    BY <1>2, <1>6, <2>5, CampaignsTypes DEF ClosedToNewcomers
  <2> QED
    BY <1>5, <2>3, <2>6
<1>7. ASSUME GuestGoto(g, "away", Nothing), UNCHANGED <<owners, welcome>> PROVE CampaignsInv'
  <2>1. guest' = [guest EXCEPT ![g] = [pc |-> "away", campaign |-> Nothing]]
    BY <1>7 DEF GuestGoto
  <2>2. [pc |-> "away", campaign |-> Nothing] \in Guest
    BY DEF Guest, Outside
  <2>3. CampaignsTypeOK'
    BY <1>2, <1>7, <2>1, <2>2, CampaignsTypes
  <2>4. guest \in [Guests -> Guest]
    BY CampaignsTypes
  <2>5. \A d \in Campaigns : Present(d)' \subseteq Present(d)
    BY <1>7, <2>1, <2>4 DEF Present
  <2> QED
    BY <1>2, <1>5, <1>7, <2>3, <2>5, NobodyComes
<1>8. ASSUME NEW c \in Campaigns, SessionGate(g, c) PROVE CampaignsInv'
  <2>1. CASE Barred(c)
    BY <1>6, <1>8, <2>1 DEF SessionGate
  <2>2. CASE ~Barred(c)
    BY <1>6, <1>8, <2>2 DEF SessionGate, Barred
  <2> QED
    BY <2>1, <2>2
<1>9. CASE LookForCharacter(g)
  <2>1. guest[g].campaign \in Campaigns
    BY <1>1, <1>9, GuestForms DEF LookForCharacter, GuestAt
  <2>2. CASE OwnsCharacter(g, guest[g].campaign)
    <3>1. GuestName[g] \in Present(guest[g].campaign)
      BY <2>2 DEF OwnsCharacter, Present
    <3> QED
      BY <1>6, <1>9, <2>1, <2>2, <3>1 DEF LookForCharacter
  <2>3. CASE ~OwnsCharacter(g, guest[g].campaign)
    BY <1>7, <1>9, <2>3 DEF LookForCharacter
  <2> QED
    BY <2>2, <2>3
<1>10. CASE Enter(g)
  <2>1. guest[g].campaign \in Campaigns /\ guest[g].pc = "admitted"
    BY <1>1, <1>10, GuestForms DEF Enter, GuestAt
  <2>2. GuestName[g] \in Present(guest[g].campaign)
    BY <2>1 DEF Present
  <2> QED
    BY <1>6, <1>10, <2>1, <2>2 DEF Enter
<1>12. ASSUME NEW name \in Names, MakeCharacter(g, name) PROVE CampaignsInv'
  <2>1. guest[g].campaign \in Campaigns /\ guest[g].pc = "in"
    BY <1>1, <1>12, GuestForms DEF MakeCharacter, GuestAt
  <2>2. GuestName[g] \in Present(guest[g].campaign)
    BY <2>1 DEF Present
  <2>3. owners' = [owners EXCEPT ![guest[g].campaign] = owners[guest[g].campaign] \cup {name}] /\ UNCHANGED guest
    BY <1>12, Zenon DEF MakeCharacter
  <2>4. owners' \in [Campaigns -> SUBSET Names]
    BY <2>1, <2>3, CampaignsTypes
  <2>5. \A d \in Campaigns : owners'[d] \subseteq owners[d] \cup (IF d = guest[g].campaign THEN {name} ELSE {})
    BY <2>1, <2>3, CampaignsTypes
  <2>6. CASE g \in Authenticated
    <3>1. name = GuestName[g] /\ UNCHANGED welcome
      BY <1>12, <2>6 DEF MakeCharacter, ActingSenders
    <3>2. CampaignsTypeOK'
      BY <1>2, <2>3, <2>4, <3>1, CampaignsTypes
    <3>3. \A d \in Campaigns : Present(d)' \subseteq Present(d)
      BY <2>1, <2>2, <2>3, <2>5, <3>1 DEF Present
    <3> QED
      BY <1>2, <1>5, <3>1, <3>2, <3>3, NobodyComes
  <2>7. CASE g \notin Authenticated
    <3>1. Welcome(guest[g].campaign, name)
      BY <1>12, <2>7 DEF MakeCharacter
    <3>2. CampaignsTypeOK'
      BY <1>2, <2>3, <2>4, <3>1, CampaignsTypes DEF Welcome
    <3> QED
      BY <1>2, <1>5, <2>1, <2>3, <2>5, <3>1, <3>2, OneOwner
  <2> QED
    BY <2>6, <2>7
<1>11. CASE Depart(g)
  BY <1>7, <1>11 DEF Depart
<1> QED
  BY <1>8, <1>9, <1>10, <1>11, <1>12 DEF GuestStep

\* What is done to the characters without a connection: the DM's tools and
\* saves that come late.
LEMMA RowStep ==
  ASSUME CampaignsInv, NEW c \in Campaigns,
         DmCreateNPC(c) \/ SaveCharacter(c) \/ \E name \in Names : GetCharacter(c, name)
  PROVE  CampaignsInv'
<1> USE CampaignsTypes DEF CampaignsInv
<1>1. UNCHANGED <<meta, settings, bound, active, closed, request, guest, acts, entered, overlapped>>
  BY DEF DmCreateNPC, SaveCharacter, GetCharacter
<1>2. FormsOK' /\ EditsAreLostOnlyByOverlap'
  BY <1>1, EditsUntouched DEF FormsOK, OneFieldChanged
<1>3. ASSUME NEW name \in Names, GetCharacter(c, name) PROVE CampaignsInv'
  <2>1. late' = [campaign |-> c, owner |-> name] /\ UNCHANGED <<owners, welcome>>
    BY <1>3 DEF GetCharacter
  <2>2. late' \in Late
    BY <2>1 DEF Late
  <2>3. CampaignsTypeOK'
    BY <1>1, <2>1, <2>2
  <2> QED
    BY <1>1, <1>2, <2>1, <2>3, NobodyComes, SamePeople
<1>4. ASSUME NEW to \in Campaigns, NEW name \in Names, Welcome(to, name), late' \in Late,
             owners' \in [Campaigns -> SUBSET Names],
             \A d \in Campaigns : owners'[d] \subseteq owners[d] \cup (IF d = to THEN {name} ELSE {})
      PROVE  CampaignsInv'
  <2>1. CampaignsTypeOK'
    BY <1>1, <1>4 DEF Welcome
  <2> QED
    BY <1>1, <1>2, <1>4, <2>1, OneOwner
<1>5. CASE DmCreateNPC(c)
  <2>1. owners' = [owners EXCEPT ![c] = owners[c] \cup {Master}] /\ Welcome(c, Master) /\ UNCHANGED late
    BY <1>5, Zenon DEF DmCreateNPC
  <2> QED
    BY <1>4, <2>1, NamesAssumption
<1>6. CASE SaveCharacter(c)
  <2>1. late \in [campaign : Campaigns, owner : Names]
    BY <1>6 DEF SaveCharacter, Late
  <2>2. PICK to \in Campaigns, name \in Names : to = late.campaign /\ name = late.owner
    BY <2>1
  <2>3. /\ owners' = [owners EXCEPT ![c] = @ \ {name}, ![to] = @ \cup {name}]
        /\ Welcome(to, name) /\ late' = NoRow
    BY <1>6, <2>2, Zenon DEF SaveCharacter
  <2>4. owners' \in [Campaigns -> SUBSET Names]
    BY <2>3
  <2>5. \A d \in Campaigns : owners'[d] \subseteq owners[d] \cup (IF d = to THEN {name} ELSE {})
    BY <2>3
  <2>6. late' \in Late
    BY <2>3 DEF Late
  <2> QED
    BY <1>4, <2>3, <2>4, <2>5, <2>6
<1> QED
  BY <1>3, <1>5, <1>6

LEMMA CampaignsInductive == CampaignsInv /\ [CampaignsNext]_campaignVars => CampaignsInv'
<1> SUFFICES ASSUME CampaignsInv, [CampaignsNext]_campaignVars PROVE CampaignsInv'
  OBVIOUS
<1>1. ASSUME NEW r \in Requests, EditStep(r) PROVE CampaignsInv'
  BY <1>1, PlainRequestStep, SaveStep, BindStep DEF EditStep
<1>2. CASE EditsNext
  BY <1>1, <1>2, FlagStep DEF EditsNext
<1>3. ASSUME NEW c \in Campaigns, NEW to \in Campaigns, NEW owner \in Names, HandleMoveCharacter(c, to, owner)
      PROVE  CampaignsInv'
  BY <1>3, MoveStep
<1>4. CASE JoinsNext
  BY <1>3, <1>4, PlainRequestStep, ActivateStep, GuestMoves, LockStep, RowStep DEF JoinsNext
<1>5. CASE UNCHANGED campaignVars
  <2>1. CampaignsTypeOK' /\ FormsOK'
    BY <1>5 DEF campaignVars, CampaignsInv, CampaignsTypeOK, FormsOK, OneFieldChanged
  <2>2. ClosedToNewcomers' /\ EditsAreLostOnlyByOverlap'
    BY <1>5, EditsUntouched DEF campaignVars, CampaignsInv, ClosedToNewcomers, Present
  <2> QED
    BY <2>1, <2>2 DEF CampaignsInv
<1> QED
  BY <1>2, <1>4, <1>5 DEF CampaignsNext

LEMMA CampaignsSafe == CampaignsSpec => []CampaignsInv
BY CampaignsStart, CampaignsInductive, PTL DEF CampaignsSpec

\* Nobody who was not there when the game was closed is in it or owns a
\* character in it, but for those who came by one there since: from the Host, from
\* the DM under the Master's name, from somebody inside who is not signed in, or
\* by a late save; for any number of players, campaigns and requests, deletions
\* among them (session_info.go:37-66, terms.go:52-57).
THEOREM ClosedGamesStayClosed == CampaignsSpec => []ClosedToNewcomers
<1>1. CampaignsInv => ClosedToNewcomers
  BY DEF CampaignsInv
<1> QED
  BY <1>1, CampaignsSafe, PTL

\* Two forms that share a row, and an install, undo each other only when their
\* requests overlap.
THEOREM EditsAreSafeOneByOne == CampaignsSpec => []EditsAreLostOnlyByOverlap
<1>1. CampaignsInv => EditsAreLostOnlyByOverlap
  BY DEF CampaignsInv
<1> QED
  BY <1>1, CampaignsSafe, PTL

--------------------------------------------------------------------------------
(* EventLog.  A message with a scope goes to the owners of the characters  *)
(* it names, talk without one to everybody; the positions a page shows are *)
(* positions of the log.                                                   *)

Message == [talk : BOOLEAN, scope : SUBSET Characters, to : SUBSET Players]

MessageOK(m) ==
  /\ m.scope # {} => m.to \subseteq {OwnerOf[c] : c \in m.scope}
  /\ m.talk /\ m.scope = {} => m.to = Players

MayKnow(v, e) == e \in 1..Len(said) /\ (said[e].scope = {} \/ \E c \in said[e].scope : OwnerOf[c] = v)

MessagesOK == said \in Seq(Message) /\ \A e \in 1..Len(said) : MessageOK(said[e])
RecordsOK == log \in Seq(Nat) /\ \A i \in 1..Len(log) : log[i] \in 1..Len(said)
WritersOK ==
  /\ writer \in [Writers -> [pc : {"idle", "record", "send"}, id : Nat]]
  /\ \A w \in Writers : writer[w].pc # "idle" => writer[w].id \in 1..Len(said)
ViewersOK ==
  /\ viewer \in [Viewers -> [on : BOOLEAN, asked : BOOLEAN, oldest : Nat, newest : Nat, more : BOOLEAN]]
  /\ \A v \in Viewers : viewer[v].oldest <= Len(log) /\ viewer[v].newest <= Len(log)
SeenOK == seen \in [Viewers -> SUBSET Nat] /\ \A v \in Viewers : \A e \in seen[v] : MayKnow(v, e)

LogInv == MessagesOK /\ RecordsOK /\ WritersOK /\ ViewersOK /\ SeenOK /\ chars \subseteq Characters

LEMMA LogStarts == LogInit => LogInv
BY DEF LogInit, LogInv, MessagesOK, RecordsOK, WritersOK, ViewersOK, SeenOK, Resting, Away

LEMMA LogSuffices == LogInv => PrivateStaysPrivate
<1> SUFFICES ASSUME LogInv PROVE PrivateStaysPrivate
  OBVIOUS
<1>1. \A v \in Viewers : \A e \in seen[v] : said[e].scope = {} \/ \E c \in said[e].scope : OwnerOf[c] = v
  BY DEF LogInv, SeenOK, MayKnow
<1>2. ASSUME NEW e \in RecentConversation PROVE said[e].to = Players
  <2>1. PICK i \in DOMAIN log : e = log[i] /\ said[e].talk /\ said[e].scope = {}
    BY DEF RecentConversation, Recalled
  <2>2. log \in Seq(Nat)
    BY DEF LogInv, RecordsOK
  <2>3. e \in 1..Len(said)
    BY <2>1, <2>2 DEF LogInv, RecordsOK
  <2>4. MessageOK(said[e])
    BY <2>3 DEF LogInv, MessagesOK
  <2> QED
    BY <2>1, <2>4 DEF MessageOK
<1> QED
  BY <1>1, <1>2 DEF PrivateStaysPrivate

LEMMA SayStep ==
  ASSUME LogInv, NEW w \in Writers, NEW talk \in BOOLEAN, NEW scope \in SUBSET Characters, NEW to \in SUBSET Players,
         MessageOK([talk |-> talk, scope |-> scope, to |-> to]), Say(w, talk, scope, to)
  PROVE  LogInv'
<1> DEFINE m == [talk |-> talk, scope |-> scope, to |-> to]
<1>1. /\ said' = Append(said, m) /\ writer' = [writer EXCEPT ![w] = [pc |-> "record", id |-> Len(said')]]
      /\ UNCHANGED <<log, viewer, seen, lost, chars>>
  BY DEF Say
<1>2. m \in Message /\ MessageOK(m)
  BY DEF Message
<1> HIDE DEF m
<1>3. said \in Seq(Message)
  BY DEF LogInv, MessagesOK
<1>4. /\ said' \in Seq(Message) /\ Len(said') = Len(said) + 1 /\ said'[Len(said) + 1] = m
      /\ \A e \in 1..Len(said) : said'[e] = said[e]
  BY <1>1, <1>2, <1>3
<1>5. MessagesOK'
  <2>1. ASSUME NEW e \in 1..Len(said') PROVE MessageOK(said'[e])
    <3>1. CASE e \in 1..Len(said)
      BY <1>4, <3>1 DEF LogInv, MessagesOK
    <3>2. CASE e = Len(said) + 1
      BY <1>2, <1>4, <3>2
    <3> QED
      BY <1>3, <1>4, <3>1, <3>2
  <2> QED
    BY <1>4, <2>1 DEF MessagesOK
<1>6. RecordsOK'
  <2>1. log' = log /\ RecordsOK /\ Len(said) \in Nat /\ Len(said') = Len(said) + 1
    BY <1>1, <1>3, <1>4 DEF LogInv
  <2>2. 1..Len(said) \subseteq 1..Len(said')
    BY <2>1
  <2> QED
    BY <2>1, <2>2 DEF RecordsOK
<1>7. WritersOK'
  BY <1>1, <1>3, <1>4 DEF LogInv, WritersOK
<1>8. ViewersOK'
  BY <1>1 DEF LogInv, ViewersOK
<1>9. SeenOK'
  <2>1. ASSUME NEW v, NEW e, MayKnow(v, e) PROVE MayKnow(v, e)'
    BY <1>3, <1>4, <2>1 DEF MayKnow
  <2> QED
    BY <1>1, <2>1 DEF LogInv, SeenOK
<1> QED
  BY <1>1, <1>5, <1>6, <1>7, <1>8, <1>9 DEF LogInv

LEMMA WriterSteps ==
  ASSUME LogInv, NEW w \in Writers, WriterStep(w)
  PROVE  LogInv'
<1>1. CASE SendClientDisplay(w)
  BY <1>1, SayStep DEF SendClientDisplay, MessageOK
<1>2. CASE SendFailureNotice(w)
  <2>1. {PlayerOf[w]} \in SUBSET Players /\ {} \in SUBSET Characters
    BY PlayerOfAssumption
  <2>2. MessageOK([talk |-> FALSE, scope |-> {}, to |-> {PlayerOf[w]}])
    BY DEF MessageOK
  <2> QED
    BY <1>2, <2>1, <2>2, SayStep DEF SendFailureNotice
<1>3. ASSUME NEW scope \in Confidants, DmNarratePrivately(w, scope) PROVE LogInv'
  <2>1. scope \in SUBSET Characters /\ scope # {}
    BY ConfidantsAssumption
  <2>2. {OwnerOf[c] : c \in scope} \in SUBSET Players
    BY <2>1, OwnerAssumption
  <2> QED
    BY <1>3, <2>1, <2>2, SayStep DEF DmNarratePrivately, MessageOK
<1>4. CASE SendCharacterIntro(w)
  BY <1>3, <1>4 DEF SendCharacterIntro
<1>5. CASE RecordEvent(w)
  <2>1. /\ log' = Append(log, writer[w].id) \/ log' = log
        /\ writer[w].pc = "record" /\ writer' = [writer EXCEPT ![w] = [writer[w] EXCEPT !.pc = "send"]]
        /\ UNCHANGED <<said, viewer, seen, lost, chars>>
    BY <1>5, Zenon DEF RecordEvent
  <2>2. writer[w].id \in Nat /\ writer[w].id \in 1..Len(said) /\ log \in Seq(Nat)
    BY <2>1 DEF LogInv, WritersOK, RecordsOK
  <2>3. /\ log' \in Seq(Nat) /\ Len(log') \in {Len(log), Len(log) + 1}
        /\ \A i \in 1..Len(log') : (i \in 1..Len(log) /\ log'[i] = log[i]) \/ log'[i] = writer[w].id
    <3>1. CASE log' = Append(log, writer[w].id)
      BY <2>2, <3>1
    <3>2. CASE log' = log
      BY <2>2, <3>2
    <3> QED
      BY <2>1, <3>1, <3>2
  <2>4. RecordsOK'
    BY <2>1, <2>2, <2>3 DEF LogInv, RecordsOK
  <2>5. WritersOK'
    BY <2>1 DEF LogInv, WritersOK
  <2>6. ViewersOK'
    BY <2>1, <2>2, <2>3 DEF LogInv, ViewersOK
  <2>7. MessagesOK' /\ SeenOK'
    BY <2>1 DEF LogInv, MessagesOK, SeenOK, MayKnow
  <2> QED
    BY <2>1, <2>4, <2>5, <2>6, <2>7 DEF LogInv
<1>6. CASE Send(w)
  <2> DEFINE e == writer[w].id
  <2>1. /\ \A v \in Viewers : seen'[v] = seen[v] \/ (v \in said[e].to /\ seen'[v] = seen[v] \cup {e})
        /\ seen' = [v \in Viewers |-> seen'[v]]
        /\ writer[w].pc = "send" /\ writer' = [writer EXCEPT ![w] = Resting] /\ UNCHANGED <<said, log, viewer, chars>>
    <3>1. PICK dropped : seen' = [v \in Viewers |-> IF v \in {u \in said[e].to \cap Viewers : viewer[u].on} \ dropped
                                                     THEN seen[v] \cup {e} ELSE seen[v]]
      BY <1>6 DEF Send
    <3>2. ASSUME NEW v \in Viewers PROVE seen'[v] = seen[v] \/ (v \in said[e].to /\ seen'[v] = seen[v] \cup {e})
      BY <3>1
    <3>3. seen' = [v \in Viewers |-> seen'[v]]
      BY <3>1, Zenon
    <3>4. /\ writer[w].pc = "send" /\ writer' = [writer EXCEPT ![w] = Resting]
          /\ UNCHANGED <<said, log, viewer, chars>>
      BY <1>6, Zenon DEF Send
    <3> QED
      BY <3>2, <3>3, <3>4
  <2>2. e \in 1..Len(said) /\ e \in Nat
    BY <2>1 DEF LogInv, WritersOK
  <2> HIDE DEF e
  <2>3. MessageOK(said[e])
    BY <2>2 DEF LogInv, MessagesOK
  <2>4. \A v \in said[e].to : MayKnow(v, e)
    BY <2>2, <2>3 DEF MayKnow, MessageOK
  <2>5. SeenOK'
    <3>1. \A v \in Viewers : seen'[v] \in SUBSET Nat
      BY <2>1, <2>2 DEF LogInv, SeenOK
    <3>2. \A v \in Viewers : \A n \in seen'[v] : MayKnow(v, n)
      BY <2>1, <2>4 DEF LogInv, SeenOK
    <3> QED
      BY <2>1, <3>1, <3>2 DEF SeenOK, MayKnow
  <2>6. WritersOK'
    BY <2>1 DEF LogInv, WritersOK, Resting
  <2> QED
    BY <2>1, <2>5, <2>6 DEF LogInv, MessagesOK, RecordsOK, ViewersOK
<1> QED
  BY <1>1, <1>2, <1>3, <1>4, <1>5, <1>6 DEF WriterStep

\* A page shows only what its reader may see.
LEMMA ShowStep ==
  ASSUME LogInv, NEW v \in Viewers, NEW from \in Nat \ {0}, NEW to \in Int, to <= Len(log), Show(v, from, to),
         UNCHANGED <<said, log, chars>>
  PROVE  SeenOK'
<1> DEFINE more == {log[i] : i \in {j \in from..to : EventVisibleTo(v, log[j])}}
<1>1. seen' = [seen EXCEPT ![v] = seen[v] \cup more]
  BY DEF Show
<1>2. log \in Seq(Nat)
  BY DEF LogInv, RecordsOK
<1>3. ASSUME NEW e \in more PROVE e \in Nat /\ MayKnow(v, e)
  <2>1. PICK j \in from..to : e = log[j] /\ EventVisibleTo(v, e)
    OBVIOUS
  <2>2. j \in 1..Len(log)
    BY <1>2
  <2>3. e \in 1..Len(said) /\ e \in Nat
    BY <1>2, <2>1, <2>2 DEF LogInv, RecordsOK
  <2> QED
    BY <2>1, <2>3 DEF EventVisibleTo, MayKnow
<1> HIDE DEF more
<1>4. ASSUME NEW u \in Viewers PROVE seen'[u] \in SUBSET Nat /\ \A e \in seen'[u] : MayKnow(u, e)
  <2>1. CASE u = v
    BY <1>1, <1>3, <2>1 DEF LogInv, SeenOK
  <2>2. CASE u # v
    BY <1>1, <2>2 DEF LogInv, SeenOK
  <2> QED
    BY <2>1, <2>2
<1>5. seen' \in [Viewers -> SUBSET Nat]
  BY <1>1, <1>4 DEF LogInv, SeenOK
<1> QED
  BY <1>4, <1>5 DEF SeenOK, MayKnow

LEMMA BackwardStep ==
  ASSUME LogInv, NEW v \in Viewers, NEW before \in Nat \ {0}, before <= Len(log) + 1, NEW newest \in Nat, newest <= Len(log),
         ShowPage(v, ListBackward(before), newest), UNCHANGED <<said, log, writer, lost, chars>>
  PROVE  LogInv'
<1> DEFINE page == ListBackward(before)
<1>1. log \in Seq(Nat) /\ Len(log) \in Nat
  BY DEF LogInv, RecordsOK
<1>2. page.from \in Nat \ {0} /\ page.to \in Int /\ page.to <= Len(log)
  BY <1>1, PageAssumption DEF ListBackward
<1>3. viewer \in [Viewers -> [on : BOOLEAN, asked : BOOLEAN, oldest : Nat, newest : Nat, more : BOOLEAN]]
  BY DEF LogInv, ViewersOK
<1>4. viewer[v] \in [on : BOOLEAN, asked : BOOLEAN, oldest : Nat, newest : Nat, more : BOOLEAN]
  BY <1>3
<1>5. CASE page.from > page.to
  <2>1. UNCHANGED seen /\ viewer' = [viewer EXCEPT ![v] = [on |-> viewer[v].on, asked |-> TRUE, oldest |-> viewer[v].oldest,
                                                          newest |-> viewer[v].newest, more |-> FALSE]]
    BY <1>3, <1>4, <1>5 DEF ShowPage
  <2>2. ViewersOK'
    BY <1>3, <1>4, <2>1 DEF LogInv, ViewersOK
  <2> QED
    BY <2>1, <2>2 DEF LogInv, MessagesOK, RecordsOK, WritersOK, SeenOK, MayKnow
<1>6. CASE ~(page.from > page.to)
  <2>1. Show(v, page.from, page.to)
    BY <1>6 DEF ShowPage
  <2>2. viewer' = [viewer EXCEPT ![v] = [on |-> viewer[v].on, asked |-> TRUE, oldest |-> page.from,
                                         newest |-> newest, more |-> page.from > 1]]
    BY <1>3, <1>4, <1>6 DEF ShowPage
  <2>3. SeenOK'
    BY <1>2, <2>1, ShowStep
  <2> HIDE DEF page
  <2>4. ViewersOK'
    BY <1>1, <1>2, <1>3, <1>4, <1>6, <2>2 DEF LogInv, ViewersOK
  <2> QED
    BY <2>3, <2>4 DEF LogInv, MessagesOK, RecordsOK, WritersOK
<1> QED
  BY <1>5, <1>6

LEMMA ViewerSteps ==
  ASSUME LogInv, NEW v \in Viewers, ViewerStep(v)
  PROVE  LogInv'
<1>1. log \in Seq(Nat) /\ Len(log) \in Nat
  BY DEF LogInv, RecordsOK
<1>2. viewer \in [Viewers -> [on : BOOLEAN, asked : BOOLEAN, oldest : Nat, newest : Nat, more : BOOLEAN]]
  BY DEF LogInv, ViewersOK
<1>3. viewer[v].oldest \in Nat /\ viewer[v].newest \in Nat /\ viewer[v].oldest <= Len(log) /\ viewer[v].newest <= Len(log)
  BY <1>2 DEF LogInv, ViewersOK
<1>4. CASE Join(v) \/ Leave(v)
  <2>1. PICK n \in [on : BOOLEAN, asked : BOOLEAN, oldest : {0}, newest : {0}, more : BOOLEAN] :
          viewer' = [viewer EXCEPT ![v] = n]
    BY <1>4 DEF Join, Leave, Away
  <2>2. seen' = [seen EXCEPT ![v] = {}] /\ UNCHANGED <<said, log, writer, chars>>
    BY <1>4 DEF Join, Leave
  <2>3. ViewersOK'
    BY <1>1, <1>2, <2>1, <2>2 DEF LogInv, ViewersOK
  <2>4. SeenOK'
    BY <2>2 DEF LogInv, SeenOK, MayKnow
  <2> QED
    BY <2>2, <2>3, <2>4 DEF LogInv, MessagesOK, RecordsOK, WritersOK
<1>5. CASE RequestTail(v)
  BY <1>1, <1>5, BackwardStep DEF RequestTail
<1>6. CASE RequestEarlier(v)
  BY <1>1, <1>3, <1>6, BackwardStep DEF RequestEarlier
<1>7. CASE RequestLater(v)
  <2> DEFINE to == PageTo(viewer[v].newest)
  <2>1. Show(v, viewer[v].newest + 1, to) /\ UNCHANGED <<said, log, writer, lost, chars>>
        /\ viewer' = [viewer EXCEPT ![v] = [viewer[v] EXCEPT !.newest = to]]
    BY <1>7, Zenon DEF RequestLater
  <2>2. to \in Nat /\ to <= Len(log)
    BY <1>1, <1>3, PageAssumption DEF PageTo
  <2> HIDE DEF to
  <2>3. SeenOK'
    <3>1. viewer[v].newest + 1 \in Nat \ {0} /\ to \in Int
      BY <1>3, <2>2
    <3> QED
      BY <2>1, <2>2, <3>1, ShowStep, Zenon
  <2>4. ViewersOK'
    BY <1>1, <1>2, <1>3, <2>1, <2>2 DEF LogInv, ViewersOK
  <2> QED
    BY <2>1, <2>3, <2>4 DEF LogInv, MessagesOK, RecordsOK, WritersOK
<1> QED
  BY <1>4, <1>5, <1>6, <1>7 DEF ViewerStep

LEMMA LogInductive == LogInv /\ [LogNext]_logVars => LogInv'
<1> SUFFICES ASSUME LogInv, [LogNext]_logVars PROVE LogInv'
  OBVIOUS
<1>1. ASSUME NEW c \in Characters, DeleteCharacter(c) PROVE LogInv'
  BY <1>1 DEF DeleteCharacter, LogInv, MessagesOK, RecordsOK, WritersOK, ViewersOK, SeenOK, MayKnow
<1>2. CASE LogRestart
  <2>1. Len(log) \in Nat
    BY DEF LogInv, RecordsOK
  <2> QED
    BY <1>2, <2>1 DEF LogRestart, LogInv, MessagesOK, RecordsOK, WritersOK, ViewersOK, SeenOK, Resting, Away
<1>3. CASE UNCHANGED logVars
  BY <1>3 DEF logVars, LogInv, MessagesOK, RecordsOK, WritersOK, ViewersOK, SeenOK, MayKnow
<1> QED
  BY <1>1, <1>2, <1>3, WriterSteps, ViewerSteps DEF LogNext

\* What is private is shown to its players only, and nothing of it is recalled
\* for everybody, for any party, any log and any size of page.
THEOREM SecretsAreKept == LogSpec => []PrivateStaysPrivate
BY LogStarts, LogInductive, LogSuffices, PTL DEF LogSpec

\* Nothing is missed, viewer by viewer; he asks only while he is connected, and
\* knows no position before.
Follows(v) ==
  /\ \A i \in 1..Len(log) : EventVisibleTo(v, log[i]) =>
       /\ i \in viewer[v].oldest..viewer[v].newest => log[i] \in seen[v]
       /\ i > viewer[v].newest /\ v \in said[log[i]].to =>
            log[i] \in seen[v] \cup lost[v] \/ OnItsWay(log[i])
  /\ viewer[v].more \/ viewer[v].oldest <= 1
Asks(v) == IF viewer[v].asked THEN viewer[v].on ELSE viewer[v].oldest = 0 /\ viewer[v].newest = 0
LostOK == lost \in [Viewers -> SUBSET Nat] /\ \A v \in Viewers : lost[v] \subseteq 1..Len(said)

FollowInv == LogInv /\ LostOK /\ \A v \in Viewers : Asks(v) /\ (viewer[v].asked => Follows(v))

LEMMA FollowSuffices == FollowInv => NothingMissed
<1>1. ASSUME FollowInv PROVE DOMAIN log = 1..Len(log)
  BY <1>1 DEF FollowInv, LogInv, RecordsOK
<1> QED
  BY <1>1 DEF FollowInv, Follows, NothingMissed

LEMMA FollowStarts == LogInit => FollowInv
<1>1. ASSUME LogInit PROVE \A v \in Viewers : Asks(v) /\ ~viewer[v].asked
  BY <1>1 DEF LogInit, Away, Asks
<1>2. ASSUME LogInit PROVE LostOK
  BY <1>2 DEF LogInit, LostOK
<1> QED
  BY <1>1, <1>2, LogStarts DEF FollowInv

\* What a viewer was told stays told when he fetches nothing: the log may grow
\* by a message that is on its way, and one that was gets to him or his outbox
\* drops it.
LEMMA StillFollows ==
  ASSUME LogInv, NEW v \in Viewers, Follows(v), viewer'[v] = viewer[v],
         seen[v] \subseteq seen'[v], lost[v] \subseteq lost'[v], chars' \subseteq chars,
         \A e \in 1..Len(said) : said'[e] = said[e],
         \A e \in 1..Len(said) : OnItsWay(e) /\ v \in said[e].to => OnItsWay(e)' \/ e \in seen'[v] \cup lost'[v],
         \A i \in 1..Len(log') : \/ i \in 1..Len(log) /\ log'[i] = log[i]
                                 \/ i > viewer[v].newest /\ \E e : e = log'[i] /\ OnItsWay(e)'
  PROVE  Follows(v)'
<1>1. \A i \in 1..Len(log) : log[i] \in 1..Len(said)
  BY DEF LogInv, RecordsOK
<1>2. ASSUME NEW i \in 1..Len(log'), EventVisibleTo(v, log[i])', i \in 1..Len(log), log'[i] = log[i]
      PROVE  /\ i \in viewer'[v].oldest..viewer'[v].newest => log'[i] \in seen'[v]
             /\ i > viewer'[v].newest /\ v \in said'[log'[i]].to =>
                  log'[i] \in seen'[v] \cup lost'[v] \/ OnItsWay(log[i])'
  <2>1. log[i] \in 1..Len(said) /\ said'[log[i]] = said[log[i]]
    BY <1>1, <1>2
  <2>2. EventVisibleTo(v, log[i])
    BY <1>2, <2>1 DEF EventVisibleTo
  <2>3. /\ i \in viewer[v].oldest..viewer[v].newest => log[i] \in seen[v]
        /\ i > viewer[v].newest /\ v \in said[log[i]].to =>
             log[i] \in seen[v] \cup lost[v] \/ OnItsWay(log[i])
    BY <1>2, <2>2 DEF Follows
  <2>4. ASSUME OnItsWay(log[i]), v \in said[log[i]].to
        PROVE  OnItsWay(log[i])' \/ log[i] \in seen'[v] \cup lost'[v]
    <3>1. PICK e \in 1..Len(said) : e = log[i]
      BY <2>1
    <3>2. OnItsWay(e)' \/ e \in seen'[v] \cup lost'[v]
      BY <2>4, <3>1
    <3>3. OnItsWay(e)' => OnItsWay(log[i])'
      BY <1>2, <3>1 DEF OnItsWay
    <3> QED
      BY <3>1, <3>2, <3>3
  <2> QED
    BY <1>2, <2>1, <2>3, <2>4
<1>3. ASSUME NEW i \in 1..Len(log'), i > viewer[v].newest, NEW e, e = log'[i], OnItsWay(e)'
      PROVE  ~(i \in viewer'[v].oldest..viewer'[v].newest) /\ OnItsWay(log[i])'
  BY <1>3 DEF LogInv, ViewersOK, OnItsWay
<1>4. (viewer[v].more \/ viewer[v].oldest <= 1)'
  BY DEF Follows
<1>5. ASSUME NEW i \in 1..Len(log'), EventVisibleTo(v, log[i])'
      PROVE  /\ i \in viewer'[v].oldest..viewer'[v].newest => log'[i] \in seen'[v]
             /\ i > viewer'[v].newest /\ v \in said'[log'[i]].to =>
                  log'[i] \in seen'[v] \cup lost'[v] \/ OnItsWay(log[i])'
  BY <1>2, <1>3, <1>5
<1> QED
  BY <1>4, <1>5 DEF Follows

LEMMA SayFollows ==
  ASSUME FollowInv, LogInv', NEW w \in Writers, NEW talk, NEW scope, NEW to, Say(w, talk, scope, to)
  PROVE  FollowInv'
<1> DEFINE m == [talk |-> talk, scope |-> scope, to |-> to]
<1>1. /\ writer[w].pc = "idle" /\ said' = Append(said, m) /\ UNCHANGED <<log, viewer, seen, lost, chars>>
      /\ writer' = [writer EXCEPT ![w] = [pc |-> "record", id |-> Len(said')]]
  BY DEF Say
<1> HIDE DEF m
<1>2. said \in Seq(Message) /\ said' \in Seq(Message)
  BY DEF FollowInv, LogInv, MessagesOK
<1>3. Len(said') = Len(said) + 1 /\ Len(said) \in Nat /\ \A e \in 1..Len(said) : said'[e] = said[e]
  BY <1>1, <1>2
<1>4. \A e : OnItsWay(e) => OnItsWay(e)'
  BY <1>1 DEF FollowInv, LogInv, WritersOK, OnItsWay
<1>5. ASSUME NEW v \in Viewers, Follows(v) PROVE Follows(v)'
  BY <1>1, <1>3, <1>4, <1>5, StillFollows DEF FollowInv
<1>6. LostOK'
  BY <1>1, <1>3 DEF FollowInv, LostOK
<1> QED
  BY <1>1, <1>5, <1>6 DEF FollowInv, Asks

LEMMA RecordFollows ==
  ASSUME FollowInv, LogInv', NEW w \in Writers, RecordEvent(w)
  PROVE  FollowInv'
<1>1. /\ log' = Append(log, writer[w].id) \/ log' = log
      /\ writer[w].pc = "record" /\ writer' = [writer EXCEPT ![w] = [writer[w] EXCEPT !.pc = "send"]]
      /\ UNCHANGED <<said, viewer, seen, lost, chars>>
  BY Zenon DEF RecordEvent
<1>2. /\ log \in Seq(Nat) /\ writer[w].id \in Nat
      /\ writer \in [Writers -> [pc : {"idle", "record", "send"}, id : Nat]]
  BY DEF FollowInv, LogInv, RecordsOK, WritersOK
<1>3. \A e : OnItsWay(e) => OnItsWay(e)'
  BY <1>1, <1>2 DEF OnItsWay
<1>4. \A e : e = writer[w].id => OnItsWay(e)'
  BY <1>1, <1>2 DEF OnItsWay
<1>5. \A i \in 1..Len(log') : (i \in 1..Len(log) /\ log'[i] = log[i])
                              \/ (i = Len(log) + 1 /\ log'[i] = writer[w].id)
  <2>1. CASE log' = Append(log, writer[w].id)
    BY <1>2, <2>1
  <2>2. CASE log' = log
    BY <1>2, <2>2
  <2> QED
    BY <1>1, <2>1, <2>2
<1>6. ASSUME NEW v \in Viewers, Follows(v) PROVE Follows(v)'
  <2>1. Len(log) + 1 > viewer[v].newest
    BY <1>2 DEF FollowInv, LogInv, ViewersOK
  <2>2. \A i \in 1..Len(log') : \/ i \in 1..Len(log) /\ log'[i] = log[i]
                                \/ i > viewer[v].newest /\ \E e : e = log'[i] /\ OnItsWay(e)'
    BY <1>4, <1>5, <2>1
  <2> QED
    BY <1>1, <1>3, <1>6, <2>2, StillFollows DEF FollowInv
<1> QED
  BY <1>1, <1>6 DEF FollowInv, Asks, LostOK

LEMMA SendFollows ==
  ASSUME FollowInv, LogInv', NEW w \in Writers, Send(w)
  PROVE  FollowInv'
<1> DEFINE e == writer[w].id
           here == {v \in said[e].to \cap Viewers : viewer[v].on}
<1>1. PICK dropped \in SUBSET here :
        /\ seen' = [v \in Viewers |-> IF v \in here \ dropped THEN seen[v] \cup {e} ELSE seen[v]]
        /\ lost' = [v \in Viewers |-> IF v \in dropped THEN lost[v] \cup {e} ELSE lost[v]]
  BY DEF Send
<1>2. /\ writer[w].pc = "send" /\ writer' = [writer EXCEPT ![w] = Resting]
      /\ UNCHANGED <<said, log, viewer, chars>>
  BY Zenon DEF Send
<1>3. /\ e \in 1..Len(said) /\ e \in Nat
      /\ writer \in [Writers -> [pc : {"idle", "record", "send"}, id : Nat]]
  BY <1>2 DEF FollowInv, LogInv, WritersOK
<1>4. \A v \in Viewers : /\ seen[v] \subseteq seen'[v] /\ lost[v] \subseteq lost'[v]
                         /\ lost'[v] \subseteq lost[v] \cup {e}
                         /\ v \in here => e \in seen'[v] \cup lost'[v]
  BY <1>1
<1>5. \A n : OnItsWay(n) => OnItsWay(n)' \/ n = e
  BY <1>2, <1>3 DEF OnItsWay
<1>6. ASSUME NEW v \in Viewers, viewer[v].asked, Follows(v) PROVE Follows(v)'
  <2>1. v \in said[e].to => e \in seen'[v] \cup lost'[v]
    BY <1>4, <1>6 DEF FollowInv, Asks
  <2>2. \A n \in 1..Len(said) : OnItsWay(n) /\ v \in said[n].to => OnItsWay(n)' \/ n \in seen'[v] \cup lost'[v]
    BY <1>5, <2>1
  <2>3. \A i \in 1..Len(log') : i \in 1..Len(log) /\ log'[i] = log[i]
    BY <1>2
  <2> HIDE DEF e, here
  <2> QED
    BY <1>2, <1>4, <1>6, <2>2, <2>3, StillFollows DEF FollowInv
<1>7. LostOK'
  <2>1. lost' \in [Viewers -> SUBSET Nat]
    BY <1>1, <1>3 DEF FollowInv, LostOK
  <2> QED
    BY <1>2, <1>3, <1>4, <2>1 DEF FollowInv, LostOK
<1> HIDE DEF e, here
<1> QED
  BY <1>2, <1>6, <1>7 DEF FollowInv, Asks

\* A request or a coming and going of one viewer: the others stay told.
LEMMA OthersFollows ==
  ASSUME FollowInv, LogInv', NEW v \in Viewers, UNCHANGED <<said, log, writer, chars>>,
         \A u \in Viewers \ {v} : viewer'[u] = viewer[u] /\ seen'[u] = seen[u] /\ lost'[u] = lost[u],
         LostOK', Asks(v)', viewer'[v].asked => Follows(v)'
  PROVE  FollowInv'
<1>1. \A e : OnItsWay(e) => OnItsWay(e)'
  BY DEF OnItsWay
<1>2. ASSUME NEW u \in Viewers \ {v}, Follows(u) PROVE Follows(u)'
  <2>1. \A i \in 1..Len(log') : i \in 1..Len(log) /\ log'[i] = log[i]
    OBVIOUS
  <2> QED
    BY <1>1, <1>2, <2>1, StillFollows DEF FollowInv
<1>3. \A u \in Viewers \ {v} : Asks(u)' /\ (viewer'[u].asked => Follows(u)')
  BY <1>2 DEF FollowInv, Asks
<1> QED
  BY <1>3 DEF FollowInv

\* The positions a page shows are seen.
LEMMA PageSeen ==
  ASSUME LogInv, NEW v \in Viewers, NEW from, NEW to, Show(v, from, to), UNCHANGED <<said, log, chars>>
  PROVE  /\ seen[v] \subseteq seen'[v]
         /\ \A u \in Viewers \ {v} : seen'[u] = seen[u]
         /\ \A i \in from..to : EventVisibleTo(v, log[i]) => log[i] \in seen'[v]
<1> DEFINE more == {log[i] : i \in {j \in from..to : EventVisibleTo(v, log[j])}}
<1>1. seen' = [seen EXCEPT ![v] = seen[v] \cup more]
  BY DEF Show
<1>2. \A i \in from..to : EventVisibleTo(v, log[i]) => log[i] \in more
  OBVIOUS
<1> HIDE DEF more
<1> QED
  BY <1>1, <1>2 DEF LogInv, SeenOK

\* A page backwards: what it shows and what was seen after it make one stretch.
LEMMA BackwardFollows ==
  ASSUME FollowInv, LogInv', NEW v \in Viewers, viewer[v].on, NEW before \in Nat \ {0}, NEW newest \in Nat,
         \/ before = Len(log) + 1 /\ newest = Len(log)
         \/ viewer[v].asked /\ before = viewer[v].oldest /\ newest = viewer[v].newest,
         ShowPage(v, ListBackward(before), newest), UNCHANGED <<said, log, writer, lost, chars>>
  PROVE  FollowInv'
<1> DEFINE page == ListBackward(before)
<1>1. /\ Len(log) \in Nat /\ PageLimit \in Nat \ {0}
      /\ viewer \in [Viewers -> [on : BOOLEAN, asked : BOOLEAN, oldest : Nat, newest : Nat, more : BOOLEAN]]
      /\ viewer[v].oldest <= Len(log) /\ viewer[v].newest <= Len(log)
  BY PageAssumption DEF FollowInv, LogInv, RecordsOK, ViewersOK
<1>2. viewer[v] \in [on : BOOLEAN, asked : BOOLEAN, oldest : Nat, newest : Nat, more : BOOLEAN]
  BY <1>1
<1>3. /\ page.from \in Nat \ {0} /\ page.to = before - 1 /\ page.from <= before
      /\ page.from = 1 \/ page.from <= page.to
  BY <1>1 DEF ListBackward
<1>4. CASE page.from > page.to
  <2>1. before = 1 /\ seen' = seen
        /\ viewer' = [viewer EXCEPT ![v] = [on |-> viewer[v].on, asked |-> TRUE, oldest |-> viewer[v].oldest,
                                            newest |-> viewer[v].newest, more |-> FALSE]]
    BY <1>1, <1>2, <1>3, <1>4 DEF ShowPage
  <2>2. viewer[v].oldest <= 1
    BY <1>1, <1>2, <2>1
  <2>3. CASE viewer[v].asked
    <3>1. Follows(v)'
      <4>1. Follows(v)
        BY <2>3 DEF FollowInv
      <4> QED
        BY <1>1, <1>2, <2>1, <2>2, <4>1 DEF Follows, EventVisibleTo, OnItsWay
    <3> QED
      BY <1>1, <1>2, <2>1, <3>1, OthersFollows DEF FollowInv, Asks, LostOK
  <2>4. CASE ~viewer[v].asked
    <3>1. Len(log) = 0
      BY <1>1, <2>1, <2>4
    <3>2. Follows(v)'
      BY <1>1, <1>2, <2>1, <2>2, <3>1 DEF Follows
    <3> QED
      BY <1>1, <1>2, <2>1, <3>2, OthersFollows DEF FollowInv, Asks, LostOK
  <2> QED
    BY <2>3, <2>4
<1>5. CASE ~(page.from > page.to)
  <2>1. Show(v, page.from, page.to)
    BY <1>5 DEF ShowPage
  <2> DEFINE more == page.from > 1
  <2>2. viewer' = [viewer EXCEPT ![v] = [viewer[v] EXCEPT !.asked = TRUE, !.oldest = page.from,
                                                          !.newest = newest, !.more = more]]
    BY <1>5, Zenon DEF ShowPage
  <2>m. more \/ page.from <= 1
    BY <1>3
  <2>3. /\ seen[v] \subseteq seen'[v] /\ \A u \in Viewers \ {v} : seen'[u] = seen[u]
        /\ \A i \in page.from..page.to : EventVisibleTo(v, log[i]) => log[i] \in seen'[v]
    BY <2>1, PageSeen DEF FollowInv
  <2> HIDE DEF more
  <2> HIDE DEF page
  <2>4. viewer'[v] = [on |-> viewer[v].on, asked |-> TRUE, oldest |-> page.from,
                      newest |-> newest, more |-> more]
    BY <1>1, <1>2, <2>2
  <2>5. ASSUME NEW i \in 1..Len(log), EventVisibleTo(v, log[i]), i \in page.from..newest
        PROVE  log[i] \in seen'[v]
    <3>1. CASE i <= page.to
      BY <1>3, <2>3, <2>5, <3>1
    <3>2. CASE i > page.to
      <4>1. before # Len(log) + 1
        BY <1>1, <1>3, <3>2
      <4>2. viewer[v].asked /\ i \in viewer[v].oldest..viewer[v].newest
        BY <1>2, <1>3, <2>5, <3>2, <4>1
      <4> QED
        BY <2>3, <2>5, <4>2 DEF FollowInv, Follows
    <3> QED
      BY <1>3, <3>1, <3>2
  <2>6. ASSUME NEW i \in 1..Len(log), EventVisibleTo(v, log[i]), i > newest, v \in said[log[i]].to
        PROVE  log[i] \in seen'[v] \cup lost[v] \/ OnItsWay(log[i])
    <3>1. viewer[v].asked /\ newest = viewer[v].newest
      BY <1>1, <2>6
    <3> QED
      BY <2>3, <2>6, <3>1 DEF FollowInv, Follows
  <2>7. (viewer[v].more \/ viewer[v].oldest <= 1)'
    BY <2>m, <2>4
  <2>8. Follows(v)'
    BY <2>4, <2>5, <2>6, <2>7 DEF Follows, EventVisibleTo, OnItsWay
  <2> QED
    BY <2>2, <2>3, <2>4, <2>8, OthersFollows DEF FollowInv, Asks, LostOK
<1> QED
  BY <1>4, <1>5

LEMMA LaterFollows ==
  ASSUME FollowInv, LogInv', NEW v \in Viewers, RequestLater(v)
  PROVE  FollowInv'
<1> DEFINE to == PageTo(viewer[v].newest)
<1>1. /\ Len(log) \in Nat /\ PageLimit \in Nat \ {0}
      /\ viewer \in [Viewers -> [on : BOOLEAN, asked : BOOLEAN, oldest : Nat, newest : Nat, more : BOOLEAN]]
      /\ viewer[v].newest <= Len(log)
  BY PageAssumption DEF FollowInv, LogInv, RecordsOK, ViewersOK
<1>2. viewer[v] \in [on : BOOLEAN, asked : BOOLEAN, oldest : Nat, newest : Nat, more : BOOLEAN]
  BY <1>1
<1>3. /\ Show(v, viewer[v].newest + 1, to) /\ UNCHANGED <<said, log, writer, lost, chars>>
      /\ viewer' = [viewer EXCEPT ![v] = [viewer[v] EXCEPT !.newest = to]] /\ viewer[v].newest > 0
  BY Zenon DEF RequestLater
<1>4. to \in Nat /\ viewer[v].newest <= to
  BY <1>1, <1>2 DEF PageTo
<1> HIDE DEF to
<1>5. /\ viewer'[v].oldest = viewer[v].oldest /\ viewer'[v].newest = to /\ viewer'[v].on = viewer[v].on
      /\ viewer'[v].asked = viewer[v].asked /\ viewer'[v].more = viewer[v].more
      /\ \A u \in Viewers \ {v} : viewer'[u] = viewer[u]
  BY <1>1, <1>2, <1>3
<1>6. viewer[v].asked /\ viewer[v].on /\ Follows(v)
  BY <1>2, <1>3 DEF FollowInv, Asks
<1>7. /\ seen[v] \subseteq seen'[v] /\ \A u \in Viewers \ {v} : seen'[u] = seen[u]
      /\ \A i \in viewer[v].newest + 1..to : EventVisibleTo(v, log[i]) => log[i] \in seen'[v]
  BY <1>3, PageSeen DEF FollowInv
<1>8. ASSUME NEW i \in 1..Len(log), EventVisibleTo(v, log[i])
      PROVE  /\ i \in viewer[v].oldest..to => log[i] \in seen'[v]
             /\ i > to /\ v \in said[log[i]].to => log[i] \in seen'[v] \cup lost[v] \/ OnItsWay(log[i])
  <2>1. CASE i <= viewer[v].newest
    <3>1. ~(i > to)
      BY <1>2, <1>4, <2>1
    <3>2. i \in viewer[v].oldest..to => i \in viewer[v].oldest..viewer[v].newest
      BY <1>2, <2>1
    <3> QED
      BY <1>6, <1>7, <1>8, <3>1, <3>2 DEF Follows
  <2>2. CASE i > viewer[v].newest
    <3>1. i \in viewer[v].oldest..to => i \in viewer[v].newest + 1..to
      BY <1>2, <2>2
    <3> QED
      BY <1>6, <1>7, <1>8, <2>2, <3>1 DEF Follows
  <2> QED
    BY <1>2, <2>1, <2>2
<1>9. Follows(v)'
  <2>1. (viewer[v].more \/ viewer[v].oldest <= 1)'
    BY <1>5, <1>6 DEF Follows
  <2> QED
    BY <1>3, <1>5, <1>8, <2>1 DEF Follows, EventVisibleTo, OnItsWay
<1> QED
  BY <1>3, <1>5, <1>6, <1>7, <1>9, OthersFollows DEF FollowInv, Asks, LostOK

LEMMA FollowInductive == FollowInv /\ [LogNext]_logVars => FollowInv'
<1> SUFFICES ASSUME FollowInv, [LogNext]_logVars PROVE FollowInv'
  OBVIOUS
<1>i. LogInv' /\ LogInv
  BY LogInductive DEF FollowInv
<1>1. ASSUME NEW w \in Writers, WriterStep(w) PROVE FollowInv'
  BY <1>1, <1>i, SayFollows, RecordFollows, SendFollows
     DEF WriterStep, SendClientDisplay, SendFailureNotice, DmNarratePrivately, SendCharacterIntro
<1>2. ASSUME NEW v \in Viewers, ViewerStep(v) PROVE FollowInv'
  <2>t. /\ Len(log) \in Nat
        /\ viewer \in [Viewers -> [on : BOOLEAN, asked : BOOLEAN, oldest : Nat, newest : Nat, more : BOOLEAN]]
    BY DEF FollowInv, LogInv, RecordsOK, ViewersOK
  <2>1. CASE Join(v) \/ Leave(v)
    <3>1. /\ viewer' = [viewer EXCEPT ![v] = [Away EXCEPT !.on = viewer'[v].on]]
          /\ seen' = [seen EXCEPT ![v] = {}] /\ lost' = [lost EXCEPT ![v] = {}]
          /\ UNCHANGED <<said, log, writer, chars>>
      BY <2>1, <2>t DEF Join, Leave, Away
    <3>2. Asks(v)' /\ ~viewer'[v].asked
      BY <2>t, <3>1 DEF Asks, Away
    <3>3. LostOK'
      BY <3>1 DEF FollowInv, LostOK
    <3>4. \A u \in Viewers \ {v} : viewer'[u] = viewer[u] /\ seen'[u] = seen[u] /\ lost'[u] = lost[u]
      BY <3>1, <2>t DEF FollowInv, LogInv, SeenOK, LostOK
    <3> QED
      BY <1>i, <3>1, <3>2, <3>3, <3>4, OthersFollows
  <2>2. CASE RequestTail(v)
    BY <2>2, <2>t, <1>i, BackwardFollows DEF RequestTail
  <2>3. CASE RequestEarlier(v)
    <3>1. viewer[v].asked /\ viewer[v].oldest \in Nat \ {0} /\ viewer[v].newest \in Nat /\ viewer[v].on
      BY <2>3, <2>t DEF RequestEarlier, FollowInv, Asks
    <3> QED
      BY <2>3, <3>1, <1>i, BackwardFollows DEF RequestEarlier
  <2>4. CASE RequestLater(v)
    BY <2>4, <1>i, LaterFollows
  <2> QED
    BY <1>2, <2>1, <2>2, <2>3, <2>4 DEF ViewerStep
<1>3. ASSUME \/ \E c \in Characters : DeleteCharacter(c)
             \/ UNCHANGED logVars
      PROVE  FollowInv'
  <2>1. chars' \subseteq chars /\ UNCHANGED <<said, log, writer, viewer, seen, lost>>
    BY <1>3 DEF DeleteCharacter, logVars
  <2>2. \A e : OnItsWay(e) => OnItsWay(e)'
    BY <2>1 DEF OnItsWay
  <2>3. ASSUME NEW v \in Viewers, Follows(v) PROVE Follows(v)'
    <3>1. \A i \in 1..Len(log') : i \in 1..Len(log) /\ log'[i] = log[i]
      BY <2>1
    <3> QED
      BY <1>i, <2>1, <2>2, <2>3, <3>1, StillFollows
  <2> QED
    BY <1>i, <2>1, <2>3 DEF FollowInv, Asks, LostOK
<1>4. CASE LogRestart
  <2>1. \A v \in Viewers : Asks(v)' /\ ~viewer'[v].asked
    BY <1>4 DEF LogRestart, Asks, Away
  <2>2. LostOK'
    BY <1>4 DEF LogRestart, LostOK
  <2> QED
    BY <1>i, <2>1, <2>2 DEF FollowInv
<1> QED
  BY <1>1, <1>2, <1>3, <1>4 DEF LogNext

\* A player who came while messages were being made misses none that was
\* recorded and is for him, in whatever order they were recorded, sent and
\* fetched, for any party, any size of page and any log.
THEOREM PagesAndLiveMeet == LogSpec => []NothingMissed
BY FollowStarts, FollowInductive, FollowSuffices, PTL DEF LogSpec

--------------------------------------------------------------------------------
(* Login.  A link is in the table of links, with one callback, or spent;   *)
(* a session that was stored has its row until it expires or is deleted.   *)

Exchanging(c) == callback[c].pc = "exchange"
Minted == [token : Callbacks, expires : Nat, link : Links, age : Nat]

LinksOK ==
  /\ clock \in 0..MaxClock /\ link \in [Links -> Nat] /\ issued \subseteq Links
  /\ \A l \in Links : link[l] = Unmade \/ (link[l] <= clock /\ l \in issued)

Spent(l) == l \in issued /\ link[l] = Unmade

CallbacksOK ==
  /\ callback \in [Callbacks -> [pc : {"idle", "refused", "done"}] \cup [pc : {"exchange"}, link : Links, age : Nat]]
  /\ \A c \in Callbacks : Exchanging(c) => Spent(callback[c].link) /\ callback[c].age <= StateTtl
  /\ \A c, d \in Callbacks : Exchanging(c) /\ Exchanging(d) /\ callback[c].link = callback[d].link => c = d

MintedOK ==
  /\ minted \subseteq Minted
  /\ \A m \in minted : Spent(m.link) /\ m.age <= StateTtl /\ callback[m.token].pc = "done"
  /\ \A m, n \in minted : m.link = n.link \/ m.token = n.token => m = n
  /\ \A m \in minted : \A c \in Callbacks : Exchanging(c) => callback[c].link # m.link

RowOf(m) == [token |-> m.token, expires |-> m.expires]

RowsOK ==
  /\ loggedOut \subseteq Callbacks /\ \A c \in loggedOut : callback[c].pc = "done"
  /\ \A r \in rows : r.token \notin loggedOut /\ \E m \in minted : r = RowOf(m)
  /\ \A m \in minted : m.token \in loggedOut \/ ~Current(m) \/ RowOf(m) \in rows

LoginInv == LinksOK /\ CallbacksOK /\ MintedOK /\ RowsOK

OnePerFreshLink == \A m, n \in minted : m.age <= StateTtl /\ (m.link = n.link => m = n)
SessionsLast == \A m \in minted : m.token \in loggedOut \/ ~Current(m) \/ \E r \in rows : r.token = m.token
OnlyLiveSessionsAdmit ==
  \A c \in admitted' \ admitted : c \notin loggedOut /\ \E m \in minted : m.token = c /\ Current(m)

LEMMA LoginStarts == LoginInit => LoginInv
BY MaxClockAssumption DEF LoginInit, LoginInv, LinksOK, CallbacksOK, MintedOK, RowsOK, Unmade, Waiting, Exchanging

LEMMA LoginSuffices == LoginInv => OnePerFreshLink /\ SessionsLast
<1> SUFFICES ASSUME LoginInv PROVE OnePerFreshLink /\ SessionsLast
  OBVIOUS
<1>1. OnePerFreshLink
  BY DEF LoginInv, MintedOK, OnePerFreshLink
<1>2. SessionsLast
  BY DEF LoginInv, RowsOK, RowOf, SessionsLast
<1> QED
  BY <1>1, <1>2

\* What clearing the old links does, whatever is then done with one of them.
LEMMA LinkStep ==
  ASSUME LoginInv, NEW l \in Links, NEW n \in Nat, link' = [Pruned EXCEPT ![l] = n], clock' = clock,
         n = Unmade \/ (n <= clock /\ l \in issued'),
         issued \subseteq issued', issued' \subseteq Links, l \notin issued \/ n = Unmade
  PROVE  LinksOK' /\ \A k \in Links : Spent(k) => Spent(k)'
<1> USE MaxClockAssumption DEF LoginInv, LinksOK
<1>1. Unmade \in Nat
  BY DEF Unmade
<1>2. Pruned \in [Links -> Nat] /\ \A k \in Links : Pruned[k] \in {link[k], Unmade}
  BY <1>1 DEF Pruned
<1>3. /\ link' \in [Links -> Nat] /\ link'[l] = n
      /\ \A k \in Links \ {l} : link'[k] \in {link[k], Unmade}
  BY <1>2
<1>4. LinksOK'
  BY <1>3 DEF Unmade
<1>5. ASSUME NEW k \in Links, Spent(k) PROVE Spent(k)'
  BY <1>3, <1>5 DEF Spent, Unmade
<1> QED
  BY <1>4, <1>5

LEMMA LoginLink ==
  ASSUME LoginInv, NEW l \in Links, HandleLogin(l)
  PROVE  LoginInv'
<1>1. /\ l \notin issued /\ link' = [Pruned EXCEPT ![l] = clock] /\ issued' = issued \cup {l}
      /\ UNCHANGED <<clock, callback, rows, minted, loggedOut, admitted>>
  BY DEF HandleLogin
<1>2. clock \in Nat
  BY MaxClockAssumption DEF LoginInv, LinksOK
<1>3. LinksOK' /\ \A k \in Links : Spent(k) => Spent(k)'
  <2>1. issued \subseteq issued' /\ issued' \subseteq Links /\ l \in issued' /\ clock <= clock
    BY <1>1, <1>2 DEF LoginInv, LinksOK
  <2> QED
    BY <1>1, <1>2, <2>1, LinkStep
<1>4. CallbacksOK'
  BY <1>1, <1>3 DEF LoginInv, CallbacksOK, Exchanging
<1>5. MintedOK'
  BY <1>1, <1>3 DEF LoginInv, MintedOK, Exchanging, Minted
<1>6. RowsOK'
  BY <1>1 DEF LoginInv, RowsOK, Current, RowOf
<1> QED
  BY <1>3, <1>4, <1>5, <1>6 DEF LoginInv

LEMMA LoginTake ==
  ASSUME LoginInv, NEW l \in Links, NEW c \in Callbacks, TakeLink(c, l)
  PROVE  LoginInv'
<1> USE MaxClockAssumption, TtlAssumption
<1>1. /\ callback[c].pc = "idle" /\ link' = [Pruned EXCEPT ![l] = Unmade]
      /\ UNCHANGED <<clock, rows, issued, minted, loggedOut, admitted>>
  BY DEF TakeLink, Take
<1>2. LinksOK' /\ \A k \in Links : Spent(k) => Spent(k)'
  <2>1. Unmade \in Nat
    BY DEF Unmade
  <2>2. issued \subseteq issued' /\ issued' \subseteq Links
    BY <1>1 DEF LoginInv, LinksOK
  <2> QED
    BY <1>1, <2>1, <2>2, LinkStep
<1>3. \A m \in minted : m.link \in Links /\ m.token \in Callbacks /\ callback[m.token].pc = "done"
  BY DEF LoginInv, MintedOK, Minted
<1>4. \A d \in loggedOut : d \in Callbacks /\ callback[d].pc = "done"
  BY DEF LoginInv, RowsOK
<1>5. ASSUME NEW n, callback' = [callback EXCEPT ![c] = n],
             n \in [pc : {"refused"}] \/ /\ n \in [pc : {"exchange"}, link : {l}, age : Nat]
                                         /\ n.age <= StateTtl /\ link[l] # Unmade /\ l \in issued
      PROVE  LoginInv'
  <2>0. callback \in [Callbacks -> [pc : {"idle", "refused", "done"}] \cup [pc : {"exchange"}, link : Links, age : Nat]]
    BY DEF LoginInv, CallbacksOK
  <2>1. callback'[c] = n /\ \A d \in Callbacks \ {c} : callback'[d] = callback[d]
    BY <1>5, <2>0
  <2>2. Exchanging(c)' => callback'[c].link = l /\ callback'[c].age <= StateTtl /\ link[l] # Unmade /\ l \in issued
    BY <1>5, <2>1 DEF Exchanging
  <2>3. link'[l] = Unmade
    BY <1>1 DEF LoginInv, LinksOK, Pruned
  <2>4. \A d \in Callbacks \ {c} : Exchanging(d)' <=> Exchanging(d)
    BY <2>1 DEF Exchanging
  <2>5. \A d \in Callbacks : Exchanging(d) => Spent(callback[d].link) /\ callback[d].link \in Links
    BY <2>0 DEF LoginInv, CallbacksOK, Exchanging
  <2>6. callback' \in [Callbacks -> [pc : {"idle", "refused", "done"}] \cup [pc : {"exchange"}, link : Links, age : Nat]]
    BY <1>5, <2>0
  <2>7. \A d \in Callbacks : Exchanging(d)' => Spent(callback[d].link)' /\ callback'[d].age <= StateTtl
    BY <1>1, <1>2, <2>1, <2>2, <2>3, <2>4, <2>5 DEF Spent, LoginInv, CallbacksOK
  <2>8. CallbacksOK'
    BY <2>1, <2>2, <2>4, <2>5, <2>6, <2>7 DEF Spent, LoginInv, CallbacksOK
  <2>9. MintedOK'
    BY <1>1, <1>2, <1>3, <2>1, <2>2, <2>4 DEF Spent, LoginInv, MintedOK
  <2>10. RowsOK'
    BY <1>1, <1>4, <2>1 DEF LoginInv, RowsOK, Current, RowOf
  <2> QED
    BY <1>2, <2>8, <2>9, <2>10 DEF LoginInv
<1>6. CASE Pruned[l] = Unmade
  <2>1. callback' = [callback EXCEPT ![c] = [pc |-> "refused"]]
    BY <1>6 DEF TakeLink
  <2>2. [pc |-> "refused"] \in [pc : {"refused"}]
    OBVIOUS
  <2> QED
    BY <1>5, <2>1, <2>2
<1>7. CASE Pruned[l] # Unmade
  <2>1. callback' = [callback EXCEPT ![c] = [pc |-> "exchange", link |-> l, age |-> clock - link[l]]]
    BY <1>7 DEF TakeLink
  <2>2. link[l] \in Nat /\ clock \in Nat /\ ~(link[l] + StateTtl < clock) /\ link[l] # Unmade
    BY <1>7 DEF Pruned, LoginInv, LinksOK
  <2>3. link[l] <= clock /\ l \in issued
    BY <2>2 DEF LoginInv, LinksOK
  <2>4. clock - link[l] \in Nat /\ clock - link[l] <= StateTtl
    BY <2>2, <2>3
  <2> QED
    BY <1>5, <2>1, <2>2, <2>3, <2>4
<1> QED
  BY <1>6, <1>7

LEMMA LoginMint ==
  ASSUME LoginInv, NEW c \in Callbacks, CreateSession(c)
  PROVE  LoginInv'
<1> USE MaxClockAssumption, TtlAssumption
<1> DEFINE m == [token |-> c, expires |-> Expiry, link |-> callback[c].link, age |-> callback[c].age]
<1>1. Exchanging(c) /\ UNCHANGED <<clock, link, issued, loggedOut, admitted>>
  BY DEF CreateSession, Exchanging
<1>2. callback \in [Callbacks -> [pc : {"idle", "refused", "done"}] \cup [pc : {"exchange"}, link : Links, age : Nat]]
  BY DEF LoginInv, CallbacksOK
<1>3. LinksOK' /\ \A k : Spent(k)' <=> Spent(k)
  BY <1>1 DEF LoginInv, LinksOK, Spent
<1>4. PICK pc \in {"done", "refused"} : callback' = [callback EXCEPT ![c] = [pc |-> pc]]
                                         /\ (pc = "refused" => UNCHANGED <<rows, minted>>)
                                         /\ (pc = "done" => rows' = rows \cup {RowOf(m)} /\ minted' = minted \cup {m})
  BY DEF CreateSession, RowOf
<1>5. /\ callback'[c].pc = pc /\ ~Exchanging(c)'
      /\ \A d \in Callbacks \ {c} : callback'[d] = callback[d] /\ (Exchanging(d)' <=> Exchanging(d))
  BY <1>2, <1>4 DEF Exchanging
<1>6. CallbacksOK'
  <2>1. callback' \in [Callbacks -> [pc : {"idle", "refused", "done"}] \cup [pc : {"exchange"}, link : Links, age : Nat]]
    BY <1>2, <1>4
  <2> QED
    BY <1>3, <1>5, <2>1 DEF LoginInv, CallbacksOK
<1>7. /\ \A n \in minted : n.token # c /\ n.link # callback[c].link /\ n.token \in Callbacks /\ n \in Minted
      /\ \A d \in loggedOut : d # c /\ d \in Callbacks
  BY <1>1 DEF LoginInv, MintedOK, RowsOK, Minted, Exchanging
<1>8. m \in Minted /\ m.link = callback[c].link /\ m.token = c /\ Spent(m.link) /\ m.age <= StateTtl
      /\ \A d \in Callbacks \ {c} : Exchanging(d) => callback[d].link # m.link
  BY <1>1, <1>2 DEF Minted, Expiry, Exchanging, LoginInv, CallbacksOK, LinksOK
<1> HIDE DEF m
<1>9. MintedOK'
  BY <1>3, <1>4, <1>5, <1>7, <1>8 DEF LoginInv, MintedOK
<1>10. RowOf(m).token = c /\ \A r \in rows : r.token \notin loggedOut
  BY <1>8 DEF RowOf, LoginInv, RowsOK
<1>11. RowsOK'
  <2>1. loggedOut' \subseteq Callbacks /\ \A d \in loggedOut' : callback'[d].pc = "done"
    BY <1>1, <1>5, <1>7 DEF LoginInv, RowsOK
  <2>2. \A r \in rows' : r.token \notin loggedOut' /\ \E n \in minted' : r = RowOf(n)
    BY <1>1, <1>4, <1>7, <1>10 DEF LoginInv, RowsOK
  <2>3. \A n \in minted' : n.token \in loggedOut' \/ ~Current(n)' \/ RowOf(n) \in rows'
    BY <1>1, <1>4 DEF LoginInv, RowsOK, Current
  <2> QED
    BY <2>1, <2>2, <2>3 DEF RowsOK, RowOf
<1> QED
  BY <1>3, <1>6, <1>9, <1>11 DEF LoginInv

LEMMA LoginRow ==
  ASSUME LoginInv, NEW r \in rows, Authorize(r) \/ HandleLogout(r)
  PROVE  LoginInv' /\ OnlyLiveSessionsAdmit
<1>1. UNCHANGED <<clock, link, callback, issued, minted>>
  BY DEF Authorize, HandleLogout
<1>2. LinksOK' /\ CallbacksOK' /\ MintedOK'
  BY <1>1 DEF LoginInv, LinksOK, CallbacksOK, MintedOK, Spent, Exchanging
<1>3. PICK m \in minted : r = RowOf(m) /\ r.token = m.token /\ r.expires = m.expires /\ m.token \notin loggedOut
  BY DEF LoginInv, RowsOK, RowOf
<1>4. \A n \in minted : n.token = r.token => n = m
  BY <1>3 DEF LoginInv, MintedOK
<1>5. m.token \in Callbacks /\ callback[m.token].pc = "done"
  BY <1>3 DEF LoginInv, MintedOK, Minted
<1>6. CASE Authorize(r)
  <2>1. loggedOut' = loggedOut /\ (UNCHANGED rows \/ (rows' = rows \ {r} /\ ~Current(r)))
    BY <1>6 DEF Authorize, Accepted
  <2>2. \A n \in minted : RowOf(n) = r => n.token = r.token
    BY DEF RowOf
  <2>3. \A n \in minted : n.token \in loggedOut' \/ ~Current(n) \/ RowOf(n) \in rows'
    BY <1>3, <1>4, <2>1, <2>2 DEF LoginInv, RowsOK, Current
  <2>4. RowsOK'
    BY <1>1, <2>1, <2>3 DEF LoginInv, RowsOK, RowOf, Current
  <2>5. OnlyLiveSessionsAdmit
    BY <1>3, <1>6 DEF OnlyLiveSessionsAdmit, Authorize, Accepted, Current
  <2> QED
    BY <1>2, <2>4, <2>5 DEF LoginInv
<1>7. CASE HandleLogout(r)
  <2>1. rows' = rows \ {r} /\ loggedOut' = loggedOut \cup {r.token} /\ admitted' = admitted
    BY <1>7 DEF HandleLogout
  <2>2. \A s \in rows : s.token = r.token => s = r
    BY <1>3, <1>4 DEF LoginInv, RowsOK, RowOf
  <2>3. \A s \in rows' : s.token \notin loggedOut'
    BY <2>1, <2>2 DEF LoginInv, RowsOK
  <2>4. \A n \in minted : RowOf(n) = r => n.token = r.token
    BY DEF RowOf
  <2>5. \A n \in minted : n.token \in loggedOut' \/ ~Current(n) \/ RowOf(n) \in rows'
    BY <2>1, <2>4 DEF LoginInv, RowsOK
  <2>6. RowsOK'
    BY <1>1, <1>3, <1>5, <2>1, <2>3, <2>5 DEF LoginInv, RowsOK, RowOf, Current
  <2> QED
    BY <1>2, <2>1, <2>6 DEF LoginInv, OnlyLiveSessionsAdmit
<1> QED
  BY <1>6, <1>7

LEMMA LoginQuiet ==
  ASSUME LoginInv, (\E c \in Callbacks : HangUp(c)) \/ TimePasses \/ UNCHANGED loginVars
  PROVE  LoginInv'
<1>1. /\ UNCHANGED <<link, callback, rows, issued, minted, loggedOut>>
      /\ clock' = clock \/ (clock < MaxClock /\ clock' = clock + 1)
  BY DEF HangUp, TimePasses, loginVars
<1>2. LinksOK'
  BY <1>1, MaxClockAssumption DEF LoginInv, LinksOK
<1>3. \A m \in minted : m.expires \in Nat
  BY DEF LoginInv, MintedOK, Minted
<1>4. \A m \in minted : Current(m)' => Current(m)
  BY <1>1, <1>3, MaxClockAssumption DEF Current, LoginInv, LinksOK
<1>5. CallbacksOK' /\ MintedOK'
  BY <1>1 DEF LoginInv, CallbacksOK, MintedOK, Spent, Exchanging
<1>6. RowsOK'
  BY <1>1, <1>4 DEF LoginInv, RowsOK, RowOf
<1> QED
  BY <1>2, <1>5, <1>6 DEF LoginInv

LEMMA LoginLosesLinks ==
  ASSUME LoginInv, LoginRestart
  PROVE  LoginInv'
<1>1. /\ link' = [l \in Links |-> Unmade] /\ rows' = {r \in rows : Current(r)} /\ UNCHANGED <<clock, issued, minted, loggedOut>>
      /\ callback' = [c \in Callbacks |-> IF callback[c].pc = "exchange" THEN [pc |-> "refused"] ELSE callback[c]]
  BY DEF LoginRestart
<1>2. LinksOK' /\ \A l \in Links : Spent(l) => Spent(l)'
  BY <1>1, MaxClockAssumption DEF LoginInv, LinksOK, Spent, Unmade
<1>3. callback \in [Callbacks -> [pc : {"idle", "refused", "done"}] \cup [pc : {"exchange"}, link : Links, age : Nat]]
  BY DEF LoginInv, CallbacksOK
<1>4. \A c \in Callbacks : ~Exchanging(c)' /\ (callback[c].pc = "done" => callback'[c].pc = "done")
  BY <1>1 DEF Exchanging
<1>5. callback' \in [Callbacks -> [pc : {"idle", "refused", "done"}] \cup [pc : {"exchange"}, link : Links, age : Nat]]
  BY <1>1, <1>3
<1>6. CallbacksOK'
  BY <1>4, <1>5 DEF CallbacksOK
<1>7. \A m \in minted : m.token \in Callbacks /\ m.link \in Links
  BY DEF LoginInv, MintedOK, Minted
<1>8. MintedOK'
  BY <1>1, <1>2, <1>4, <1>7 DEF LoginInv, MintedOK
<1>9. \A m \in minted : Current(m) => Current(RowOf(m))
  BY DEF Current, RowOf
<1>10. RowsOK'
  BY <1>1, <1>4, <1>9 DEF LoginInv, RowsOK, Current, RowOf
<1> QED
  BY <1>2, <1>6, <1>8, <1>10 DEF LoginInv

LEMMA LoginInductive == LoginInv /\ [LoginNext]_loginVars => LoginInv' /\ [OnlyLiveSessionsAdmit]_loginVars
<1> SUFFICES ASSUME LoginInv, [LoginNext]_loginVars PROVE LoginInv' /\ [OnlyLiveSessionsAdmit]_loginVars
  OBVIOUS
<1>1. ASSUME admitted' \subseteq admitted PROVE OnlyLiveSessionsAdmit
  BY <1>1 DEF OnlyLiveSessionsAdmit
<1>2. ASSUME NEW l \in Links, HandleLogin(l) \/ \E c \in Callbacks : TakeLink(c, l) PROVE LoginInv' /\ OnlyLiveSessionsAdmit
  BY <1>1, <1>2, LoginLink, LoginTake DEF HandleLogin, TakeLink
<1>3. ASSUME NEW c \in Callbacks, CreateSession(c) \/ HangUp(c) PROVE LoginInv' /\ OnlyLiveSessionsAdmit
  BY <1>1, <1>3, LoginMint, LoginQuiet DEF CreateSession, HangUp
<1>4. CASE TimePasses \/ UNCHANGED loginVars
  BY <1>1, <1>4, LoginQuiet DEF TimePasses, loginVars
<1>5. CASE LoginRestart
  BY <1>1, <1>5, LoginLosesLinks DEF LoginRestart
<1> QED
  BY <1>2, <1>3, <1>4, <1>5, LoginRow DEF LoginNext

\* A link makes one session at most, a session lasts until it expires or is
\* logged out, over restarts, and only such a one admits anybody, for any
\* number of links and callbacks and any times to live.
THEOREM LoginsAreSafe == LoginSpec => LoginsAreSpentOnce
<1>1. LoginInv /\ [LoginNext]_loginVars => LoginInv' /\ [OnlyLiveSessionsAdmit]_loginVars
  BY LoginInductive
<1> QED
  BY <1>1, LoginStarts, LoginSuffices, PTL
     DEF LoginSpec, LoginsAreSpentOnce, OnePerFreshLink, SessionsLast, OnlyLiveSessionsAdmit

--------------------------------------------------------------------------------
(* Creation.  A session is free, or in the hand of one connection, or      *)
(* waiting for the answer to one prompt: never two of them at once.        *)

Hands(s) == {t \in Tabs : Holds(t, s)}
Mine(s) == {w \in prompts : w.session = s}
Made(s) == {m \in made : m.session = s}
Live(s) == sessions[s] # NoSession /\ sessions[s].user = starter[s]
Bearer(t) == IF tab[t].pc = "putBack" THEN tab[t].prompt.user ELSE UserOf[t]

Free(s) ==
  /\ Hands(s) = {} /\ Mine(s) = {} /\ (sessions[s] = NoSession \/ s \in stranded)
  /\ starter[s] = "nobody" => sessions[s] = NoSession /\ Made(s) = {}
  /\ \A m, n \in Made(s) : m = n /\ m.owner = starter[s]

Held(s, t) ==
  /\ Hands(s) = {t} /\ Mine(s) = {} /\ Made(s) = {} /\ starter[s] \in Users /\ Bearer(t) = starter[s]
  /\ IF tab[t].pc = "save" THEN sessions[s] = NoSession ELSE Live(s)

Pending(s, w) ==
  /\ Hands(s) = {} /\ Mine(s) = {w} /\ Made(s) = {} /\ starter[s] \in Users /\ w.user = starter[s] /\ Live(s)

SessionOK(s) == Free(s) \/ (\E t \in Tabs : Held(s, t)) \/ (\E w \in prompts : Pending(s, w))

CreationInv == CreationTypeOK /\ \A s \in Sessions : SessionOK(s)

LEMMA CreationStarts == CreationInit => CreationInv
<1> SUFFICES ASSUME CreationInit PROVE CreationInv
  OBVIOUS
<1>1. CreationTypeOK
  <2>1. sent \in 0..MaxPrompts
    BY MaxPromptsAssumption DEF CreationInit
  <2>2. tab \in [Tabs -> Handling]
    BY DEF CreationInit, Handling
  <2> QED
    BY <2>1, <2>2 DEF CreationInit, CreationTypeOK
<1>2. ASSUME NEW s \in Sessions PROVE Free(s)
  BY DEF CreationInit, Free, Hands, Holds, Mine, Made, Idle
<1> QED
  BY <1>1, <1>2 DEF CreationInv, SessionOK

\* What a connection is doing, by its step.
LEMMA TabForms ==
  ASSUME CreationTypeOK, NEW t \in Tabs
  PROVE  /\ tab[t].pc \in {"ask", "register", "engine", "save"} => tab[t].session \in Sessions
         /\ tab[t].pc \in {"ask", "register"} => tab[t].kind \in Kinds
         /\ tab[t].pc = "register" => tab[t].id \in 1..MaxPrompts
         /\ tab[t].pc \in {"route", "putBack"} => tab[t].prompt \in Prompt /\ tab[t].prompt.session \in Sessions
         /\ tab[t].pc = "save" => tab[t].status \in {"pending", "approved"}
<1>1. tab[t] \in Handling
  BY DEF CreationTypeOK
<1> QED
  BY <1>1 DEF Handling, Idle, Prompt

LEMMA WhoHolds ==
  ASSUME CreationInv, NEW t \in Tabs, NEW s \in Sessions, Holds(t, s)
  PROVE  Held(s, t)
<1>1. t \in Hands(s) /\ SessionOK(s)
  BY DEF Hands, CreationInv
<1> QED
  BY <1>1 DEF SessionOK, Free, Held, Pending

LEMMA CreationSuffices == CreationInv => OneCharacterPerSession /\ SessionsStayAnswerable
<1> SUFFICES ASSUME CreationInv PROVE OneCharacterPerSession /\ SessionsStayAnswerable
  OBVIOUS
<1>1. ASSUME NEW m \in made PROVE m.owner = starter[m.session] /\ \A n \in made : n.session = m.session => n = m
  <2>1. m.session \in Sessions /\ m \in Made(m.session)
    BY DEF CreationInv, CreationTypeOK, Made
  <2>2. Free(m.session)
    BY <2>1 DEF CreationInv, SessionOK, Held, Pending
  <2>3. \A n \in made : n.session = m.session => n \in Made(m.session)
    BY DEF Made
  <2> QED
    BY <2>1, <2>2, <2>3 DEF Free
<1>2. ASSUME NEW t \in Tabs, TabAt(t, "route") PROVE Owns(t, tab[t].prompt.session)
  <2>1. tab[t].prompt.session \in Sessions /\ Holds(t, tab[t].prompt.session)
    BY <1>2, TabForms DEF CreationInv, TabAt, Holds
  <2> QED
    BY <1>2, <2>1, WhoHolds DEF TabAt, Held, Bearer, Live, Owns
<1>3. ASSUME NEW s \in Sessions, sessions[s] # NoSession, s \notin stranded PROVE Holders(s) # {}
  <2>1. Holders(s) = Hands(s) \cup Mine(s)
    BY DEF Holders, Hands, Mine
  <2> QED
    BY <1>3, <2>1 DEF CreationInv, SessionOK, Free, Held, Pending
<1> QED
  BY <1>1, <1>2, <1>3 DEF OneCharacterPerSession, SessionsStayAnswerable

\* A session nothing happens to.
LEMMA SessionUntouched ==
  ASSUME NEW r \in Sessions, SessionOK(r), sessions'[r] = sessions[r], starter'[r] = starter[r], stranded \subseteq stranded',
         Made(r)' = Made(r), Mine(r)' = Mine(r), Hands(r)' = Hands(r), \A t \in Hands(r) : tab'[t] = tab[t]
  PROVE  SessionOK(r)'
<1>1. CASE Free(r)
  <2>1. Free(r)'
    BY <1>1 DEF Free
  <2> QED
    BY <2>1 DEF SessionOK
<1>2. ASSUME NEW t \in Tabs, Held(r, t) PROVE SessionOK(r)'
  <2>1. tab'[t] = tab[t]
    BY <1>2 DEF Held
  <2>2. Held(r, t)'
    BY <1>2, <2>1 DEF Held, Bearer, Live
  <2> QED
    BY <2>2 DEF SessionOK
<1>3. ASSUME NEW w \in prompts, Pending(r, w) PROVE SessionOK(r)'
  <2>1. w \in prompts'
    BY <1>3 DEF Pending, Mine
  <2>2. Pending(r, w)'
    BY <1>3 DEF Pending, Live
  <2> QED
    BY <2>1, <2>2 DEF SessionOK
<1> QED
  BY <1>1, <1>2, <1>3 DEF SessionOK

\* A step of a connection that has at most s in hand, before and after.
LEMMA HandStep ==
  ASSUME CreationInv, NEW t \in Tabs, NEW s \in Sessions, NEW n, tab' = [tab EXCEPT ![t] = n],
         \A r \in Sessions \ {s} : ~Holds(t, r) /\ ~Holds(t, r)' /\ sessions'[r] = sessions[r] /\ starter'[r] = starter[r]
                                   /\ Mine(r)' = Mine(r) /\ Made(r)' = Made(r),
         stranded \subseteq stranded', SessionOK(s)', CreationTypeOK'
  PROVE  CreationInv'
<1>1. \A u \in Tabs \ {t} : tab'[u] = tab[u]
  BY DEF CreationInv, CreationTypeOK
<1>2. ASSUME NEW r \in Sessions \ {s} PROVE SessionOK(r)'
  <2>1. \A u \in Tabs : Holds(u, r)' <=> Holds(u, r)
    BY <1>1 DEF Holds
  <2>2. Hands(r)' = Hands(r)
    BY <2>1 DEF Hands
  <2>3. \A u \in Hands(r) : tab'[u] = tab[u]
    BY <1>1 DEF Hands
  <2>4. SessionOK(r)
    BY DEF CreationInv
  <2> QED
    BY <2>2, <2>3, <2>4, SessionUntouched
<1> QED
  BY <1>2 DEF CreationInv

\* The hands s is in after such a step.
LEMMA HandsAfter ==
  ASSUME CreationTypeOK, NEW t \in Tabs, NEW s \in Sessions, NEW n, tab' = [tab EXCEPT ![t] = n], Hands(s) \subseteq {t}
  PROVE  /\ tab'[t] = n
         /\ n.pc \in {"ask", "register", "engine", "save"} =>
              (n.session = s => Hands(s)' = {t}) /\ \A r \in Sessions : Holds(t, r)' => r = n.session
         /\ n.pc \in {"route", "putBack"} =>
              (n.prompt.session = s => Hands(s)' = {t}) /\ \A r \in Sessions : Holds(t, r)' => r = n.prompt.session
         /\ n.pc = "idle" => Hands(s)' = {} /\ \A r \in Sessions : ~Holds(t, r)'
<1>1. tab'[t] = n /\ \A u \in Tabs \ {t} : tab'[u] = tab[u]
  BY DEF CreationTypeOK
<1>2. \A u \in Tabs \ {t} : ~Holds(u, s) /\ ~Holds(u, s)'
  BY <1>1 DEF Hands, Holds
<1>3. Hands(s)' = IF Holds(t, s)' THEN {t} ELSE {}
  BY <1>2 DEF Hands
<1> QED
  BY <1>1, <1>3 DEF Holds

\* A connection goes on with its session.
LEMMA GoesOn ==
  ASSUME CreationInv, NEW t \in Tabs, NEW s \in Sessions, Holds(t, s), NEW n \in Handling, tab' = [tab EXCEPT ![t] = n],
         tab[t].pc # "putBack", n.pc \in {"ask", "register", "engine", "save"}, n.session = s,
         sent' \in 0..MaxPrompts, UNCHANGED <<prompts, pregens, starter, made, stranded>>,
         \/ UNCHANGED sessions /\ n.pc # "save" /\ tab[t].pc # "save"
         \/ n.pc # "save" /\ \E stage \in Stages : SetSession(t, s, stage)
         \/ n.pc = "save" /\ DeleteSession(s)
  PROVE  CreationInv'
<1>1. Held(s, t) /\ CreationTypeOK
  BY WhoHolds DEF CreationInv
<1>2. UserOf[t] = starter[s] /\ UserOf[t] \in Users
  BY <1>1, TabsAssumption DEF Held, Bearer
<1>3. /\ sessions \in [Sessions -> {NoSession} \cup [user : Users, stage : Stages]]
      /\ tab \in [Tabs -> Handling]
  BY <1>1 DEF CreationTypeOK
<1>4. /\ sessions' \in [Sessions -> {NoSession} \cup [user : Users, stage : Stages]]
      /\ \A r \in Sessions \ {s} : sessions'[r] = sessions[r]
      /\ IF n.pc = "save" THEN sessions'[s] = NoSession ELSE sessions'[s] # NoSession /\ sessions'[s].user = starter[s]
  <2>1. CASE UNCHANGED sessions /\ n.pc # "save" /\ tab[t].pc # "save"
    BY <1>1, <1>3, <2>1 DEF Held, Live
  <2>2. ASSUME n.pc # "save", NEW stage \in Stages, SetSession(t, s, stage) PROVE <1>4
    <3>1. [user |-> UserOf[t], stage |-> stage] \in [user : Users, stage : Stages]
      BY <1>2
    <3>2. [user |-> UserOf[t], stage |-> stage] # NoSession
      BY DEF NoSession
    <3> QED
      BY <1>2, <1>3, <2>2, <3>1, <3>2 DEF SetSession
  <2>3. CASE n.pc = "save" /\ DeleteSession(s)
    BY <1>3, <2>3 DEF DeleteSession
  <2> QED
    BY <2>1, <2>2, <2>3
<1>5. CreationTypeOK'
  BY <1>1, <1>3, <1>4 DEF CreationTypeOK
<1>6. tab'[t] = n /\ Hands(s)' = {t} /\ \A r \in Sessions \ {s} : ~Holds(t, r)'
  BY <1>1, HandsAfter DEF Held
<1>7. \A r \in Sessions \ {s} : ~Holds(t, r)
  BY DEF Holds
<1>8. Held(s, t)'
  BY <1>1, <1>2, <1>4, <1>6 DEF Held, Bearer, Live, Mine, Made
<1>9. \A r \in Sessions : Mine(r)' = Mine(r) /\ Made(r)' = Made(r)
  BY DEF Mine, Made
<1> QED
  BY <1>4, <1>5, <1>6, <1>7, <1>8, <1>9, HandStep DEF SessionOK

\* A connection is done with its session.
LEMMA LetsGo ==
  ASSUME CreationInv, NEW t \in Tabs, NEW s \in Sessions, Holds(t, s), tab' = [tab EXCEPT ![t] = Idle],
         UNCHANGED <<sent, prompts, pregens, starter>>,
         \/ tab[t].pc # "putBack" /\ DeleteSession(s) /\ UNCHANGED <<made, stranded>>
         \/ UNCHANGED <<sessions, made>> /\ stranded' = stranded \cup {s}
         \/ /\ tab[t].pc = "save" /\ UNCHANGED <<sessions, stranded>>
            /\ \/ UNCHANGED made
               \/ made' = made \cup {[session |-> s, owner |-> UserOf[t], status |-> tab[t].status, by |-> t]}
  PROVE  CreationInv'
<1>1. Held(s, t) /\ CreationTypeOK
  BY WhoHolds DEF CreationInv
<1>2. starter[s] \in Users /\ starter[s] # "nobody"
  BY <1>1, TabsAssumption DEF Held
<1>3. /\ sessions \in [Sessions -> {NoSession} \cup [user : Users, stage : Stages]]
      /\ tab \in [Tabs -> Handling]
      /\ made \subseteq [session : Sessions, owner : Users, status : {"pending", "approved"}, by : Tabs]
      /\ stranded \subseteq Sessions
  BY <1>1 DEF CreationTypeOK
<1>4. /\ sessions' \in [Sessions -> {NoSession} \cup [user : Users, stage : Stages]]
      /\ \A r \in Sessions \ {s} : sessions'[r] = sessions[r]
      /\ sessions'[s] = NoSession \/ s \in stranded'
      /\ stranded \subseteq stranded' /\ stranded' \subseteq Sessions
  BY <1>1, <1>3 DEF DeleteSession, Held
<1>5. /\ made' \subseteq [session : Sessions, owner : Users, status : {"pending", "approved"}, by : Tabs]
      /\ \A r \in Sessions \ {s} : Made(r)' = Made(r)
      /\ \A m, o \in Made(s)' : m = o /\ m.owner = starter[s]
  <2>1. CASE UNCHANGED made
    BY <1>1, <1>3, <2>1 DEF Made, Held
  <2>2. CASE /\ tab[t].pc = "save"
             /\ made' = made \cup {[session |-> s, owner |-> UserOf[t], status |-> tab[t].status, by |-> t]}
    <3> DEFINE m == [session |-> s, owner |-> UserOf[t], status |-> tab[t].status, by |-> t]
    <3>1. m \in [session : Sessions, owner : Users, status : {"pending", "approved"}, by : Tabs]
      BY <1>1, <2>2, TabForms, TabsAssumption
    <3>2. m.session = s /\ m.owner = starter[s]
      BY <1>1, <2>2 DEF Held, Bearer
    <3> HIDE DEF m
    <3>3. Made(s)' = {m} /\ \A r \in Sessions \ {s} : Made(r)' = Made(r)
      BY <1>1, <2>2, <3>2 DEF Made, Held, m
    <3> QED
      BY <1>3, <2>2, <3>1, <3>2, <3>3 DEF m
  <2> QED
    BY <2>1, <2>2
<1>6. Idle \in Handling /\ Idle.pc = "idle"
  BY DEF Handling, Idle
<1>7. CreationTypeOK'
  BY <1>1, <1>3, <1>4, <1>5, <1>6 DEF CreationTypeOK
<1>8. Hands(s)' = {} /\ \A r \in Sessions : ~Holds(t, r)'
  <2>1. Hands(s) \subseteq {t}
    BY <1>1 DEF Held
  <2> QED
    BY <1>1, <1>6, <2>1, HandsAfter
<1>9. Free(s)'
  BY <1>1, <1>2, <1>4, <1>5, <1>8 DEF Free, Held, Mine
<1>10. \A r \in Sessions : Mine(r)' = Mine(r)
  BY DEF Mine
<1>11. \A r \in Sessions \ {s} : ~Holds(t, r)
  BY DEF Holds
<1>12. /\ \A r \in Sessions \ {s} : ~Holds(t, r) /\ ~Holds(t, r)' /\ sessions'[r] = sessions[r] /\ starter'[r] = starter[r]
                                     /\ Mine(r)' = Mine(r) /\ Made(r)' = Made(r)
       /\ SessionOK(s)'
  BY <1>4, <1>5, <1>8, <1>9, <1>10, <1>11 DEF SessionOK
<1> QED
  BY <1>4, <1>7, <1>12, HandStep

\* A prompt of its session is pending, again or for the first time.
LEMMA Registers ==
  ASSUME CreationInv, NEW t \in Tabs, NEW w \in Prompt, Holds(t, w.session), tab' = [tab EXCEPT ![t] = Idle],
         tab[t].pc # "save", w.user = Bearer(t), prompts' = prompts \cup {w},
         UNCHANGED <<sessions, sent, pregens, starter, made, stranded>>
  PROVE  CreationInv'
<1> DEFINE s == w.session
<1>0. s \in Sessions
  BY DEF Prompt
<1> HIDE DEF s
<1>1. Held(s, t) /\ CreationTypeOK
  BY <1>0, WhoHolds DEF CreationInv, s
<1>2. Idle \in Handling /\ Idle.pc = "idle"
  BY DEF Handling, Idle
<1>3. CreationTypeOK'
  BY <1>1, <1>2 DEF CreationTypeOK
<1>4. Hands(s)' = {} /\ \A r \in Sessions : ~Holds(t, r)'
  BY <1>0, <1>1, <1>2, HandsAfter DEF Held
<1>5. Mine(s)' = {w} /\ \A r \in Sessions \ {s} : Mine(r)' = Mine(r)
  BY <1>1 DEF Mine, Held, s
<1>6. \A r \in Sessions : Made(r)' = Made(r)
  BY DEF Made
<1>7. Pending(s, w)' /\ w \in prompts'
  BY <1>0, <1>1, <1>4, <1>5, <1>6 DEF Held, Pending, Live
<1>8. \A r \in Sessions \ {s} : ~Holds(t, r)
  BY DEF Holds, s
<1> QED
  BY <1>0, <1>3, <1>4, <1>5, <1>6, <1>7, <1>8, HandStep DEF SessionOK

LEMMA DeliverStep ==
  ASSUME CreationInv, NEW t \in Tabs, NEW w \in prompts, NEW k \in Kinds, DeliverPromptAnswer(t, w, k)
  PROVE  CreationInv'
<1> DEFINE s == w.session
           n == [pc |-> IF Addressed(t, w, k) THEN "route" ELSE "putBack", prompt |-> w]
<1>0. CreationTypeOK /\ w \in Prompt /\ s \in Sessions
  BY DEF CreationInv, CreationTypeOK, Prompt
<1>1. /\ tab[t].pc = "idle" /\ prompts' = prompts \ {w} /\ tab' = [tab EXCEPT ![t] = n]
      /\ UNCHANGED <<sessions, sent, pregens, starter, made, stranded>>
  BY DEF DeliverPromptAnswer, TabAt, TabGoto, ResolvePrompt
<1>2. n \in Handling /\ n.pc \in {"route", "putBack"} /\ n.prompt = w /\ (n.pc = "route" => w.user = UserOf[t])
  BY <1>0 DEF Handling, Addressed
<1>3. Pending(s, w)
  <2>1. w \in Mine(s) /\ SessionOK(s)
    BY <1>0 DEF CreationInv, Mine
  <2> QED
    BY <2>1 DEF SessionOK, Free, Held, Pending
<1> HIDE DEF n, s
<1>4. CreationTypeOK'
  BY <1>0, <1>1, <1>2 DEF CreationTypeOK
<1>5. tab'[t] = n /\ Hands(s)' = {t} /\ \A r \in Sessions : Holds(t, r)' => r = s
  <2>1. Hands(s) \subseteq {t}
    BY <1>3 DEF Pending
  <2> QED
    BY <1>0, <1>1, <1>2, <2>1, HandsAfter DEF s
<1>6. Mine(s)' = {} /\ \A r \in Sessions \ {s} : Mine(r)' = Mine(r)
  BY <1>1, <1>3 DEF Mine, Pending, s
<1>7. \A r \in Sessions : Made(r)' = Made(r)
  BY <1>1 DEF Made
<1>8. Held(s, t)'
  BY <1>0, <1>1, <1>2, <1>3, <1>5, <1>6, <1>7 DEF Held, Pending, Bearer, Live
<1>9. \A r \in Sessions : ~Holds(t, r)
  BY <1>1 DEF Holds
<1> QED
  BY <1>0, <1>1, <1>4, <1>5, <1>6, <1>7, <1>8, <1>9, HandStep, ZenonT(30) DEF SessionOK

LEMMA StartStep ==
  ASSUME CreationInv, NEW t \in Tabs, NEW s \in Sessions, HandleCreationStart(t, s)
  PROVE  CreationInv'
<1> DEFINE n == [pc |-> "ask", session |-> s, kind |-> "choice"]
<1>0. CreationTypeOK
  BY DEF CreationInv
<1>1. /\ tab[t].pc = "idle" /\ starter[s] = "nobody" /\ starter' = [starter EXCEPT ![s] = UserOf[t]]
      /\ UNCHANGED <<prompts, sent, pregens, made, stranded>>
      /\ \/ sessions' = [sessions EXCEPT ![s] = [user |-> UserOf[t], stage |-> "top_level"]] /\ tab' = [tab EXCEPT ![t] = n]
         \/ UNCHANGED <<sessions, tab>>
  BY DEF HandleCreationStart, TabAt, TabGoto, Ask, SetSession
<1>2. UserOf[t] \in Users /\ UserOf[t] # "nobody"
  BY TabsAssumption
<1>3. Free(s)
  <2>1. SessionOK(s) /\ starter[s] \notin Users
    BY <1>1, TabsAssumption DEF CreationInv
  <2> QED
    BY <2>1 DEF SessionOK, Held, Pending
<1>4. /\ sessions \in [Sessions -> {NoSession} \cup [user : Users, stage : Stages]]
      /\ starter \in [Sessions -> Users \cup {"nobody"}] /\ tab \in [Tabs -> Handling]
  BY <1>0 DEF CreationTypeOK
<1>5. /\ starter'[s] = UserOf[t] /\ starter' \in [Sessions -> Users \cup {"nobody"}]
      /\ \A r \in Sessions \ {s} : starter'[r] = starter[r]
  BY <1>1, <1>2, <1>4
<1>6. \A r \in Sessions : Mine(r)' = Mine(r) /\ Made(r)' = Made(r)
  BY <1>1 DEF Mine, Made
<1>7. \A r \in Sessions : ~Holds(t, r)
  BY <1>1 DEF Holds
<1>8. CASE UNCHANGED <<sessions, tab>>
  <2>1. CreationTypeOK'
    BY <1>0, <1>1, <1>5, <1>8 DEF CreationTypeOK
  <2>2. \A r \in Sessions : Hands(r)' = Hands(r) /\ (Holds(t, r)' <=> Holds(t, r))
    BY <1>8 DEF Hands, Holds
  <2>3. Free(s)'
    BY <1>1, <1>2, <1>3, <1>5, <1>6, <1>8, <2>2 DEF Free
  <2>4. tab' = [tab EXCEPT ![t] = tab[t]]
    BY <1>4, <1>8
  <2> QED
    BY <1>1, <1>5, <1>6, <1>7, <1>8, <2>1, <2>2, <2>3, <2>4, HandStep, ZenonT(30) DEF SessionOK
<1>9. CASE sessions' = [sessions EXCEPT ![s] = [user |-> UserOf[t], stage |-> "top_level"]] /\ tab' = [tab EXCEPT ![t] = n]
  <2>1. n \in Handling /\ n.pc = "ask" /\ n.session = s
    BY DEF Handling, Kinds
  <2>2. /\ [user |-> UserOf[t], stage |-> "top_level"] \in [user : Users, stage : Stages]
        /\ [user |-> UserOf[t], stage |-> "top_level"] # NoSession
    BY <1>2 DEF Stages, NoSession
  <2> HIDE DEF n
  <2>3. /\ sessions' \in [Sessions -> {NoSession} \cup [user : Users, stage : Stages]]
        /\ sessions'[s].user = UserOf[t] /\ sessions'[s] # NoSession
        /\ \A r \in Sessions \ {s} : sessions'[r] = sessions[r]
    BY <1>4, <1>9, <2>2
  <2>4. CreationTypeOK'
    BY <1>0, <1>1, <1>4, <1>5, <1>9, <2>1, <2>3 DEF CreationTypeOK
  <2>5. tab'[t] = n /\ Hands(s)' = {t} /\ \A r \in Sessions : Holds(t, r)' => r = s
    BY <1>0, <1>3, <1>9, <2>1, HandsAfter, ZenonT(30) DEF Free
  <2>6. Held(s, t)'
    BY <1>1, <1>2, <1>3, <1>5, <1>6, <2>1, <2>3, <2>5 DEF Held, Free, Bearer, Live
  <2> QED
    BY <1>1, <1>5, <1>6, <1>7, <1>9, <2>3, <2>4, <2>5, <2>6, HandStep, ZenonT(30) DEF SessionOK
<1> QED
  BY <1>1, <1>8, <1>9

\* The steps of a connection that has a session in hand.
LEMMA InHandStep ==
  ASSUME CreationInv, NEW t \in Tabs, TabStep(t)
  PROVE  CreationInv'
<1> DEFINE s == tab[t].session
           q == tab[t].prompt.session
<1>0. CreationTypeOK
  BY DEF CreationInv
<1>1. tab[t].pc \in {"ask", "register", "engine", "save"} => s \in Sessions /\ Holds(t, s)
  BY <1>0, TabForms DEF Holds
<1>2. tab[t].pc \in {"route", "putBack"} => q \in Sessions /\ Holds(t, q) /\ tab[t].prompt \in Prompt
  BY <1>0, TabForms DEF Holds
<1>3. CASE WritePrompt(t)
  <2>1. tab[t].pc = "ask" /\ sent < MaxPrompts /\ UNCHANGED <<sessions, prompts, pregens, starter, made>>
    BY <1>3 DEF WritePrompt, TabAt
  <2>2. s \in Sessions /\ Holds(t, s) /\ tab[t].kind \in Kinds /\ sent \in 0..MaxPrompts
    BY <1>0, <1>1, <2>1, TabForms DEF CreationTypeOK
  <2>3. CASE /\ sent' = sent + 1 /\ UNCHANGED stranded
             /\ tab' = [tab EXCEPT ![t] = [pc |-> "register", id |-> sent', session |-> s, kind |-> tab[t].kind]]
    <3>1. sent' \in 1..MaxPrompts /\ sent' \in 0..MaxPrompts
      BY <2>1, <2>2, <2>3, MaxPromptsAssumption
    <3>2. [pc |-> "register", id |-> sent', session |-> s, kind |-> tab[t].kind] \in Handling
      BY <2>2, <3>1 DEF Handling
    <3> QED
      BY <2>1, <2>2, <2>3, <3>1, <3>2, GoesOn
  <2>4. CASE tab' = [tab EXCEPT ![t] = Idle] /\ stranded' = stranded \cup {s} /\ UNCHANGED sent
    BY <2>1, <2>2, <2>4, LetsGo
  <2> QED
    BY <1>3, <2>3, <2>4 DEF WritePrompt, TabGoto
<1>4. CASE RegisterPrompt(t)
  <2> DEFINE w == [id |-> tab[t].id, session |-> s, user |-> UserOf[t], kind |-> tab[t].kind]
  <2>1. /\ tab[t].pc = "register" /\ prompts' = prompts \cup {w} /\ tab' = [tab EXCEPT ![t] = Idle]
        /\ UNCHANGED <<sessions, sent, pregens, starter, made, stranded>>
    BY <1>4 DEF RegisterPrompt, TabAt, TabGoto
  <2>2. w \in Prompt /\ w.session = s /\ w.user = Bearer(t) /\ Holds(t, s)
    BY <1>0, <1>1, <2>1, TabForms, TabsAssumption DEF Prompt, Bearer
  <2> HIDE DEF w
  <2> QED
    BY <2>1, <2>2, Registers
<1>5. CASE PutBack(t)
  <2>1. /\ tab[t].pc = "putBack" /\ prompts' = prompts \cup {tab[t].prompt} /\ tab' = [tab EXCEPT ![t] = Idle]
        /\ UNCHANGED <<sessions, sent, pregens, starter, made, stranded>>
    BY <1>5 DEF PutBack, TabAt, TabGoto
  <2> QED
    BY <1>2, <2>1, Registers DEF Bearer
<1>6. ASSUME NEW r \in Sessions, Holds(t, r), GiveUp(t, r), tab[t].pc # "putBack",
             UNCHANGED <<prompts, sent, pregens, starter, made, stranded>>
      PROVE  CreationInv'
  BY <1>6, LetsGo DEF GiveUp, TabGoto
<1>7. ASSUME NEW r \in Sessions, Holds(t, r), NEW kind \in Kinds, NEW stage \in Stages, SetSession(t, r, stage), Ask(t, r, kind),
             tab[t].pc # "putBack", UNCHANGED <<prompts, sent, pregens, starter, made, stranded>>
      PROVE  CreationInv'
  <2>1. [pc |-> "ask", session |-> r, kind |-> kind] \in Handling /\ sent \in 0..MaxPrompts
    BY <1>0 DEF Handling, CreationTypeOK
  <2> QED
    BY <1>7, <2>1, GoesOn DEF Ask, TabGoto
<1>8. ASSUME NEW r \in Sessions, Holds(t, r), NEW status \in {"pending", "approved"}, DeleteSession(r), Save(t, r, status),
             tab[t].pc # "putBack", UNCHANGED <<prompts, sent, pregens, starter, made, stranded>>
      PROVE  CreationInv'
  <2>1. [pc |-> "save", session |-> r, status |-> status] \in Handling /\ sent \in 0..MaxPrompts
    BY <1>0 DEF Handling, CreationTypeOK
  <2> QED
    BY <1>8, <2>1, GoesOn DEF Save, TabGoto
<1>9. ASSUME NEW r \in Sessions, Holds(t, r), UNCHANGED sessions, TabGoto(t, [pc |-> "engine", session |-> r]),
             tab[t].pc = "route", UNCHANGED <<prompts, sent, pregens, starter, made, stranded>>
      PROVE  CreationInv'
  <2>1. [pc |-> "engine", session |-> r] \in Handling /\ sent \in 0..MaxPrompts
    BY <1>0 DEF Handling, CreationTypeOK
  <2> QED
    BY <1>9, <2>1, GoesOn DEF TabGoto
<1>10. ASSUME tab[t].pc = "route" PROVE q \in Sessions /\ Holds(t, q)
  BY <1>2, <1>10
<1>11. Kinds = {"query", "choice", "ack"} /\ Stages = {"top_level", "import", "pregen", "engine"}
  BY DEF Kinds, Stages
<1>12. CASE HandleCreationTopLevelAnswer(t)
  BY <1>6, <1>7, <1>9, <1>10, <1>11, <1>12 DEF HandleCreationTopLevelAnswer, Routed, TabAt, StartCreationRoll
<1>13. CASE StartCreationPregenChoice(t)
  BY <1>6, <1>7, <1>10, <1>11, <1>13 DEF StartCreationPregenChoice, Routed, TabAt
<1>14. CASE HandleImportAnswer(t)
  BY <1>6, <1>8, <1>10, <1>14 DEF HandleImportAnswer, Routed, TabAt, GiveUp
<1>15. CASE HandleCreationPregenAnswer(t)
  BY <1>6, <1>8, <1>10, <1>15 DEF HandleCreationPregenAnswer, Routed, TabAt, GiveUp
<1>16. CASE HandleCreationEngineAnswer(t)
  BY <1>9, <1>10, <1>16 DEF HandleCreationEngineAnswer, Routed, TabAt
<1>17. CASE HandleCreationEngineResponse(t)
  BY <1>1, <1>6, <1>7, <1>8, <1>11, <1>17 DEF HandleCreationEngineResponse, TabAt, SendCreationAbilityScoreRolls
<1>18. CASE SaveNewCharacter(t)
  <2>1. tab[t].pc = "save" /\ tab' = [tab EXCEPT ![t] = Idle] /\ UNCHANGED <<sessions, prompts, sent, pregens, starter, stranded>>
        /\ (UNCHANGED made \/ made' = made \cup {[session |-> s, owner |-> UserOf[t], status |-> tab[t].status, by |-> t]})
    BY <1>18 DEF SaveNewCharacter, TabAt, TabGoto
  <2> QED
    BY <1>1, <2>1, LetsGo
<1> QED
  BY <1>3, <1>4, <1>5, <1>12, <1>13, <1>14, <1>15, <1>16, <1>17, <1>18 DEF TabStep

LEMMA CreationInductive == CreationInv /\ [CreationNext]_creationVars => CreationInv'
<1> SUFFICES ASSUME CreationInv, [CreationNext]_creationVars PROVE CreationInv'
  OBVIOUS
<1>0. CreationTypeOK
  BY DEF CreationInv
<1>1. CASE ChangePregens \/ UNCHANGED creationVars
  <2>1. UNCHANGED <<sessions, prompts, sent, tab, starter, made, stranded>> /\ pregens' \in BOOLEAN
    BY <1>0, <1>1 DEF ChangePregens, creationVars, CreationTypeOK
  <2>2. CreationTypeOK'
    BY <1>0, <2>1 DEF CreationTypeOK
  <2>3. ASSUME NEW s \in Sessions PROVE SessionOK(s)'
    <3>1. Hands(s)' = Hands(s) /\ Mine(s)' = Mine(s) /\ Made(s)' = Made(s) /\ SessionOK(s)
      BY <2>1 DEF Hands, Holds, Mine, Made, CreationInv
    <3> QED
      BY <2>1, <3>1, SessionUntouched
  <2> QED
    BY <2>2, <2>3 DEF CreationInv
<1>2. CASE CreationRestart
  <2>1. /\ sessions' = [s \in Sessions |-> NoSession] /\ prompts' = {} /\ tab' = [t \in Tabs |-> Idle]
        /\ UNCHANGED <<sent, pregens, starter, made, stranded>>
    BY <1>2 DEF CreationRestart
  <2>2. CreationTypeOK'
    BY <1>0, <2>1 DEF CreationTypeOK, Handling
  <2>3. ASSUME NEW s \in Sessions PROVE Free(s)'
    <3>1. Hands(s)' = {} /\ Mine(s)' = {} /\ Made(s)' = Made(s) /\ sessions'[s] = NoSession
      BY <2>1 DEF Hands, Holds, Mine, Made, Idle
    <3>2. (starter[s] = "nobody" => Made(s) = {}) /\ \A m, n \in Made(s) : m = n /\ m.owner = starter[s]
      BY TabsAssumption DEF CreationInv, SessionOK, Free, Held, Pending
    <3> QED
      BY <2>1, <3>1, <3>2 DEF Free
  <2> QED
    BY <2>2, <2>3 DEF CreationInv, SessionOK
<1> QED
  BY <1>1, <1>2, InHandStep, StartStep, DeliverStep DEF CreationNext

LEMMA CreationSafe == CreationSpec => []CreationInv
BY CreationStarts, CreationInductive, PTL DEF CreationSpec

\* A creation makes one character at most, its starter's, for any number of
\* players, connections and sessions.
THEOREM OneCharacterEach == CreationSpec => []OneCharacterPerSession
<1>1. CreationInv => OneCharacterPerSession
  BY CreationSuffices
<1> QED
  BY <1>1, CreationSafe, PTL

\* No session is left waiting for an answer that nothing can take.
THEOREM NoSessionIsForgotten == CreationSpec => []SessionsStayAnswerable
<1>1. CreationInv => SessionsStayAnswerable
  BY CreationSuffices
<1> QED
  BY <1>1, CreationSafe, PTL

--------------------------------------------------------------------------------
(* Packs.  What is installed was unpacked and read beside; what is in a      *)
(* directory that the Host did not save to was put there by a rename, or is  *)
(* what a removal has left.                                                  *)

Upload == [path : Files, text : Contents]
Memory == [path : Files, text : Contents \cup {NoFile}]

\* A saver, given the slugs the Host saved to.
SaveOK(saver, slugs) ==
  \/ \E pc \in {"idle", "done", "failed", "cut"} : saver = [pc |-> pc]
  \/ saver \in [pc : {"write"}, slug : slugs, adding : BOOLEAN, files : Seq(Upload), undo : Seq(Memory)]

Installable(pack) == \E files \in Uploads : Parses(Unpacked(files)) /\ pack = Unpacked(files)

\* An installation, given the slugs whose pack is replaced.
InstallOK(job, slugs) ==
  \/ \E pc \in {"idle", "done", "failed", "skipped", "cut"} : job = [pc |-> pc]
  \/ /\ job \in [pc : {"place", "remove", "rename"}, slug : Slugs, pack : Pack, overwrite : BOOLEAN]
     /\ Installable(job.pack)
     /\ job.pc = "remove" => job.slug \in slugs

\* A pack that the Host did not save to; what a removal leaves is a part.
PackOK(pack, removing) ==
  \/ pack = Empty
  \/ \E files \in Uploads :
       /\ Parses(Unpacked(files))
       /\ pack = Unpacked(files) \/ (removing /\ PartOf(pack, Unpacked(files)))

PacksInv ==
  /\ disk \in [Slugs -> Pack] /\ handmade \subseteq Slugs /\ replaced \subseteq Slugs
  /\ DOMAIN save = Savers /\ \A v \in Savers : SaveOK(save[v], handmade)
  /\ DOMAIN install = Installs /\ \A i \in Installs : InstallOK(install[i], replaced)
  /\ \A s \in Slugs \ handmade : PackOK(disk[s], s \in replaced)

\* A pack stays one, whatever is written to it.
LEMMA WrittenType ==
  ASSUME NEW pack \in Pack, NEW files, \A i \in DOMAIN files : files[i] \in Memory
  PROVE  Written(pack, files) \in Pack
<1>1. ASSUME NEW f \in Files,
             NEW last, last = {i \in DOMAIN files : files[i].path = f /\ \A j \in DOMAIN files : files[j].path = f => j <= i}
      PROVE  (IF last = {} THEN pack[f] ELSE files[CHOOSE i \in last : TRUE].text) \in Contents \cup {NoFile}
  <2>1. CASE last = {}
    BY <2>1 DEF Pack
  <2>2. CASE last # {}
    <3>1. (CHOOSE i \in last : TRUE) \in DOMAIN files
      BY <1>1, <2>2
    <3> QED
      BY <2>2, <3>1 DEF Memory
  <2> QED
    BY <2>1, <2>2
<1> QED
  BY <1>1 DEF Written, Pack

LEMMA UnpackedType ==
  ASSUME NEW files \in Uploads
  PROVE  files \in Seq(Upload) /\ Unpacked(files) \in Pack
<1>1. files \in Seq(Upload)
  BY UploadsAssumption DEF Upload
<1>2. \A i \in DOMAIN files : files[i] \in Memory
  <2>1. \A i \in DOMAIN files : files[i] \in Upload
    BY <1>1
  <2>2. Upload \subseteq Memory
    BY DEF Upload, Memory
  <2> QED
    BY <2>1, <2>2
<1>3. Empty \in Pack
  BY DEF Empty, Pack
<1> QED
  BY <1>1, <1>2, <1>3, WrittenType DEF Unpacked

\* More slugs of the Host's or to be replaced do no harm.
LEMMA PacksMonotone ==
  /\ \A saver, S, T : SaveOK(saver, S) /\ S \subseteq T => SaveOK(saver, T)
  /\ \A job, S, T : InstallOK(job, S) /\ S \subseteq T => InstallOK(job, T)
  /\ \A pack, before, now \in BOOLEAN : PackOK(pack, before) /\ (before => now) => PackOK(pack, now)
<1>1. \A saver, S, T : SaveOK(saver, S) /\ S \subseteq T => SaveOK(saver, T)
  BY DEF SaveOK
<1>2. \A job, S, T : InstallOK(job, S) /\ S \subseteq T => InstallOK(job, T)
  BY DEF InstallOK
<1>3. \A pack, before, now \in BOOLEAN : PackOK(pack, before) /\ (before => now) => PackOK(pack, now)
  BY DEF PackOK
<1> QED
  BY <1>1, <1>2, <1>3

LEMMA PacksStart == PacksInit => PacksInv
BY DEF PacksInit, PacksInv, Empty, Pack, SaveOK, InstallOK, PackOK

\* A save writes to a directory of the Host's.
LEMMA SaverWrites ==
  ASSUME PacksInv, NEW v \in Savers, NEW next, save' = [save EXCEPT ![v] = next], SaveOK(next, handmade),
         NEW s \in handmade, NEW pack \in Pack, disk' = [disk EXCEPT ![s] = pack] \/ disk' = disk,
         UNCHANGED <<install, handmade, replaced>>
  PROVE  PacksInv'
<1>1. DOMAIN save' = Savers /\ \A u \in Savers : SaveOK(save'[u], handmade)
  BY DEF PacksInv
<1>2. disk' \in [Slugs -> Pack] /\ \A t \in Slugs \ handmade : disk'[t] = disk[t]
  BY DEF PacksInv
<1> QED
  BY <1>1, <1>2 DEF PacksInv

LEMMA SavesStep ==
  ASSUME PacksInv, NEW v \in Savers,
         \/ \E s \in Slugs, adding \in BOOLEAN, files \in Uploads : StartSave(v, s, adding, files)
         \/ WriteFile(v) \/ ValidateSave(v)
  PROVE  PacksInv'
<1>1. ASSUME NEW s \in Slugs, NEW adding \in BOOLEAN, NEW files \in Uploads, StartSave(v, s, adding, files)
      PROVE  PacksInv'
  <2> DEFINE next == [pc |-> "write", slug |-> s, adding |-> adding, files |-> files, undo |-> <<>>]
  <2>1. /\ save' = [save EXCEPT ![v] = next]
        /\ handmade' = handmade \cup {s} /\ UNCHANGED <<disk, install, replaced>>
    BY <1>1 DEF StartSave
  <2>2. files \in Seq(Upload) /\ <<>> \in Seq(Memory)
    BY UnpackedType
  <2>3. SaveOK(next, handmade')
    BY <2>1, <2>2 DEF SaveOK
  <2> HIDE DEF next
  <2>4. DOMAIN save' = Savers /\ \A u \in Savers : SaveOK(save'[u], handmade')
    BY <2>1, <2>3, PacksMonotone DEF PacksInv
  <2> QED
    BY <2>1, <2>4 DEF PacksInv
<1>w. ASSUME save[v].pc = "write"
      PROVE  /\ save[v] \in [pc : {"write"}, slug : handmade, adding : BOOLEAN, files : Seq(Upload), undo : Seq(Memory)]
             /\ save[v].slug \in Slugs /\ disk[save[v].slug] \in Pack
  BY <1>w DEF PacksInv, SaveOK
<1>e. \A pc \in {"idle", "done", "failed", "cut"} : SaveOK([pc |-> pc], handmade)
  BY DEF SaveOK
<1>f. ASSUME NEW pack \in Pack, save[v].pc = "write", FailSave(v, pack), UNCHANGED <<install, handmade, replaced>>
      PROVE  PacksInv'
  <2>1. \A i \in DOMAIN save[v].undo : save[v].undo[i] \in Memory
    BY <1>w, <1>f
  <2>2. Undone(v, pack) \in Pack
    BY <1>f, <2>1, WrittenType DEF Undone, Empty, Pack
  <2>3. /\ disk' = [disk EXCEPT ![save[v].slug] = Undone(v, pack)]
        /\ save' = [save EXCEPT ![v] = [pc |-> "failed"]]
    BY <1>f DEF FailSave, SaveEnds
  <2>4. save[v].slug \in handmade
    BY <1>w, <1>f
  <2> QED
    BY <1>e, <1>f, <2>2, <2>3, <2>4, SaverWrites
<1>2. CASE WriteFile(v)
  <2> DEFINE s == save[v].slug
             file == Head(save[v].files)
             old == disk[s][file.path]
             left == Tail(save[v].files)
             undone == Append(save[v].undo, [path |-> file.path, text |-> old])
  <2>1. save[v].pc = "write" /\ save[v].files # <<>> /\ UNCHANGED <<install, handmade, replaced>>
    BY <1>2 DEF WriteFile
  <2>2. file \in Upload /\ left \in Seq(Upload) /\ s \in handmade /\ disk[s] \in Pack
    BY <1>w, <2>1
  <2>3. old \in Contents \cup {NoFile}
    BY <2>2 DEF Pack, Upload
  <2>4. undone \in Seq(Memory)
    <3>1. [path |-> file.path, text |-> old] \in Memory
      BY <2>2, <2>3 DEF Memory, Upload
    <3> HIDE DEF s, file, old
    <3> QED
      BY <3>1, <1>w, <2>1
  <2>5. \/ /\ disk' = [disk EXCEPT ![s] = Put(disk[s], file)]
           /\ save' = [save EXCEPT ![v] = [[save[v] EXCEPT !.files = left] EXCEPT !.undo = undone]]
        \/ \E torn \in {old, Bad} : FailSave(v, [disk[s] EXCEPT ![file.path] = torn])
    <3>1. DOMAIN save = Savers
      BY DEF PacksInv
    <3> QED
      BY <1>2, <1>w, <2>1, <3>1 DEF WriteFile
  <2> HIDE DEF s, file, old, left, undone
  <2>6. ASSUME NEW text \in Contents \cup {NoFile} PROVE [disk[s] EXCEPT ![file.path] = text] \in Pack
    BY <2>2, <2>6 DEF Pack
  <2>7. CASE disk' = [disk EXCEPT ![s] = Put(disk[s], file)]
             /\ save' = [save EXCEPT ![v] = [[save[v] EXCEPT !.files = left] EXCEPT !.undo = undone]]
    <3>1. Put(disk[s], file) \in Pack
      BY <2>2, <2>6 DEF Put, Upload
    <3>2. SaveOK([[save[v] EXCEPT !.files = left] EXCEPT !.undo = undone], handmade)
      BY <1>w, <2>1, <2>2, <2>4 DEF SaveOK
    <3> QED
      BY <2>1, <2>2, <2>7, <3>1, <3>2, SaverWrites
  <2>8. ASSUME NEW torn \in {old, Bad}, FailSave(v, [disk[s] EXCEPT ![file.path] = torn])
        PROVE  PacksInv'
    <3>1. torn \in Contents \cup {NoFile}
      BY <2>3, <2>8 DEF Contents
    <3> QED
      BY <1>f, <2>1, <2>6, <2>8, <3>1
  <2> QED
    BY <2>5, <2>7, <2>8
<1>3. CASE ValidateSave(v)
  <2>1. save[v].pc = "write" /\ UNCHANGED <<install, handmade, replaced>>
    BY <1>3 DEF ValidateSave
  <2>2. CASE SaveEnds(v, "done") /\ UNCHANGED disk
    BY <1>e, <1>w, <2>1, <2>2, SaverWrites DEF SaveEnds
  <2>3. CASE FailSave(v, disk[save[v].slug])
    BY <1>w, <1>f, <2>1, <2>3
  <2> QED
    BY <1>3, <2>2, <2>3 DEF ValidateSave
<1> QED
  BY <1>1, <1>2, <1>3

\* An installation goes on, and the directory it works on is still in order.
LEMMA InstallGoesOn ==
  ASSUME PacksInv, NEW i \in Installs, NEW next, install' = [install EXCEPT ![i] = next], InstallOK(next, replaced'),
         replaced \subseteq replaced', replaced' \subseteq Slugs, UNCHANGED <<save, handmade>>,
         disk' \in [Slugs -> Pack],
         \A s \in Slugs \ handmade : disk'[s] = disk[s] \/ PackOK(disk'[s], s \in replaced')
  PROVE  PacksInv'
<1>1. DOMAIN install' = Installs /\ \A j \in Installs : InstallOK(install'[j], replaced')
  BY PacksMonotone DEF PacksInv
<1>2. \A s \in Slugs \ handmade : PackOK(disk'[s], s \in replaced')
  BY DEF PacksInv, PackOK
<1> QED
  BY <1>1, <1>2 DEF PacksInv

LEMMA InstallsStep ==
  ASSUME PacksInv, NEW i \in Installs,
         \/ \E s \in Slugs, files \in Uploads, overwrite \in BOOLEAN : StagePack(i, s, files, overwrite)
         \/ MakeRoom(i) \/ RemoveOld(i) \/ RenamePack(i)
  PROVE  PacksInv'
<1>e. \A pc \in {"idle", "done", "failed", "skipped", "cut"} : InstallOK([pc |-> pc], replaced)
  BY DEF InstallOK
<1>t. disk \in [Slugs -> Pack] /\ replaced \subseteq Slugs
  BY DEF PacksInv
<1>w. ASSUME install[i].pc \in {"place", "remove", "rename"}
      PROVE  /\ install[i] \in [pc : {"place", "remove", "rename"}, slug : Slugs, pack : Pack, overwrite : BOOLEAN]
             /\ Installable(install[i].pack)
             /\ install[i].pc = "remove" => install[i].slug \in replaced
  BY <1>w DEF PacksInv, InstallOK
<1>g. ASSUME install[i].pc \in {"place", "remove", "rename"}, NEW pc \in {"place", "remove", "rename"},
             NEW slugs, pc = "remove" => install[i].slug \in slugs
      PROVE  InstallOK([install[i] EXCEPT !.pc = pc], slugs)
  BY <1>w, <1>g DEF InstallOK
<1>1. ASSUME NEW s \in Slugs, NEW files \in Uploads, NEW overwrite \in BOOLEAN, StagePack(i, s, files, overwrite)
      PROVE  PacksInv'
  <2> DEFINE next == IF Parses(Unpacked(files))
                     THEN [pc |-> "place", slug |-> s, pack |-> Unpacked(files), overwrite |-> overwrite] ELSE [pc |-> "failed"]
  <2>1. install' = [install EXCEPT ![i] = next] /\ UNCHANGED <<disk, save, handmade, replaced>>
    BY <1>1 DEF StagePack, InstallGoto
  <2>2. InstallOK(next, replaced)
    BY <1>e, UnpackedType DEF InstallOK, Installable
  <2> HIDE DEF next
  <2> QED
    BY <1>t, <2>1, <2>2, InstallGoesOn
<1>2. CASE MakeRoom(i)
  <2>1. install[i].pc = "place" /\ UNCHANGED <<disk, save, handmade>>
    BY <1>2 DEF MakeRoom
  <2>2. install[i].slug \in Slugs
    BY <1>w, <2>1
  <2>3. CASE install' = [install EXCEPT ![i] = [install[i] EXCEPT !.pc = "rename"]] /\ UNCHANGED replaced
    BY <1>g, <1>t, <2>1, <2>3, InstallGoesOn
  <2>4. CASE install' = [install EXCEPT ![i] = [pc |-> "skipped"]] /\ UNCHANGED replaced
    BY <1>e, <1>t, <2>1, <2>4, InstallGoesOn
  <2>5. CASE install' = [install EXCEPT ![i] = [install[i] EXCEPT !.pc = "remove"]]
             /\ replaced' = replaced \cup {install[i].slug}
    BY <1>g, <1>t, <2>1, <2>2, <2>5, InstallGoesOn
  <2> QED
    BY <1>2, <2>3, <2>4, <2>5 DEF MakeRoom, InstallGoto
<1>3. CASE RemoveOld(i)
  <2> DEFINE s == install[i].slug
  <2>1. install[i].pc = "remove" /\ UNCHANGED <<save, handmade, replaced>>
    BY <1>3 DEF RemoveOld
  <2>2. s \in replaced /\ s \in Slugs
    BY <1>w, <1>t, <2>1
  <2>3. CASE install' = [install EXCEPT ![i] = [install[i] EXCEPT !.pc = "rename"]] /\ UNCHANGED disk
    BY <1>g, <1>t, <2>1, <2>3, InstallGoesOn
  <2>4. CASE install' = [install EXCEPT ![i] = [pc |-> "failed"]] /\ UNCHANGED disk
    BY <1>e, <1>t, <2>1, <2>4, InstallGoesOn
  <2>5. ASSUME NEW f \in Files, disk[s][f] # NoFile, disk' = [disk EXCEPT ![s] = [disk[s] EXCEPT ![f] = NoFile]], UNCHANGED install
        PROVE  PacksInv'
    <3> DEFINE pack == [disk[s] EXCEPT ![f] = NoFile]
    <3>1. disk[s] \in Pack /\ disk[s] # Empty
      BY <1>t, <2>2, <2>5 DEF Empty, Pack
    <3>2. pack \in Pack /\ \A g \in Files : pack[g] \in {NoFile, disk[s][g]}
      BY <3>1 DEF Pack
    <3> HIDE DEF pack
    <3>3. s \notin handmade => PackOK(pack, TRUE)
      <4> SUFFICES ASSUME s \notin handmade PROVE PackOK(pack, TRUE)
        OBVIOUS
      <4>1. PICK files \in Uploads :
              /\ Parses(Unpacked(files))
              /\ disk[s] = Unpacked(files) \/ PartOf(disk[s], Unpacked(files))
        BY <2>2, <3>1 DEF PacksInv, PackOK
      <4>2. PartOf(pack, Unpacked(files))
        BY <3>2, <4>1 DEF PartOf
      <4> QED
        BY <4>1, <4>2 DEF PackOK
    <3>4. disk' \in [Slugs -> Pack] /\ \A t \in Slugs \ {s} : disk'[t] = disk[t]
      BY <1>t, <2>2, <2>5, <3>2 DEF pack
    <3>5. disk'[s] = pack
      BY <1>t, <2>2, <2>5 DEF pack
    <3>6. \A t \in Slugs \ handmade : PackOK(disk'[t], t \in replaced)
      <4> SUFFICES ASSUME NEW t \in Slugs \ handmade PROVE PackOK(disk'[t], t \in replaced)
        OBVIOUS
      <4>1. CASE t = s
        <5>1. PackOK(pack, TRUE) /\ t \in replaced
          BY <2>2, <3>3, <4>1
        <5> QED
          BY <3>5, <4>1, <5>1, PacksMonotone
      <4>2. CASE t # s
        BY <3>4, <4>2 DEF PacksInv
      <4> QED
        BY <4>1, <4>2
    <3> QED
      BY <2>1, <2>5, <3>4, <3>6 DEF PacksInv
  <2> HIDE DEF s
  <2>6. \/ \E f \in Files : disk[s][f] # NoFile /\ disk' = [disk EXCEPT ![s] = [disk[s] EXCEPT ![f] = NoFile]] /\ UNCHANGED install
        \/ install' = [install EXCEPT ![i] = [install[i] EXCEPT !.pc = "rename"]] /\ UNCHANGED disk
        \/ install' = [install EXCEPT ![i] = [pc |-> "failed"]] /\ UNCHANGED disk
    BY <1>3, Zenon DEF RemoveOld, InstallGoto, s
  <2> QED
    BY <2>3, <2>4, <2>5, <2>6
<1>4. CASE RenamePack(i)
  <2> DEFINE s == install[i].slug
             pack == install[i].pack
  <2>1. install[i].pc = "rename" /\ UNCHANGED <<save, handmade, replaced>>
    BY <1>4 DEF RenamePack
  <2>2. s \in Slugs /\ pack \in Pack /\ Installable(pack)
    BY <1>w, <2>1
  <2>3. CASE disk' = [disk EXCEPT ![s] = pack] /\ install' = [install EXCEPT ![i] = [pc |-> "done"]]
    <3>1. \A b \in BOOLEAN : PackOK(pack, b)
      BY <2>2 DEF PackOK, Installable
    <3>2. disk' \in [Slugs -> Pack] /\ \A t \in Slugs : disk'[t] = disk[t] \/ disk'[t] = pack
      BY <1>t, <2>2, <2>3
    <3> HIDE DEF pack
    <3>3. \A t \in Slugs \ handmade : disk'[t] = disk[t] \/ PackOK(disk'[t], t \in replaced)
      <4> SUFFICES ASSUME NEW t \in Slugs, disk'[t] = pack PROVE PackOK(disk'[t], t \in replaced)
        BY <3>2
      <4>1. (t \in replaced) \in BOOLEAN
        OBVIOUS
      <4> QED
        BY <3>1, <4>1, Zenon
    <3> QED
      BY <1>e, <1>t, <2>1, <2>3, <3>2, <3>3, InstallGoesOn
  <2>4. CASE UNCHANGED disk /\ install' = [install EXCEPT ![i] = [pc |-> "failed"]]
    BY <1>e, <1>t, <2>1, <2>4, InstallGoesOn
  <2> QED
    BY <1>4, <2>3, <2>4 DEF RenamePack, InstallGoto
<1> QED
  BY <1>1, <1>2, <1>3, <1>4

LEMMA PacksInductive == PacksInv /\ [PacksNext]_packVars => PacksInv'
<1> SUFFICES ASSUME PacksInv, [PacksNext]_packVars PROVE PacksInv'
  OBVIOUS
<1>1. CASE PacksRestart
  <2>1. \A v \in Savers : SaveOK(save'[v], handmade')
    BY <1>1 DEF PacksRestart, PacksInv, SaveOK
  <2>2. \A i \in Installs : InstallOK(install'[i], replaced')
    BY <1>1 DEF PacksRestart, PacksInv, InstallOK
  <2> QED
    BY <1>1, <2>1, <2>2 DEF PacksRestart, PacksInv
<1>2. CASE UNCHANGED packVars
  BY <1>2 DEF packVars, PacksInv
<1> QED
  BY <1>1, <1>2, SavesStep, InstallsStep DEF PacksNext

\* A library's pack is installed whole or not at all, for any archives, any
\* number of installations and saves at a time, and wherever the process ends.
THEOREM WholePacks == PacksSpec => []InstallsAreWhole
<1>1. PacksInv => InstallsAreWhole
  BY DEF PacksInv, PackOK, InstallsAreWhole
<1> QED
  BY <1>1, PacksStart, PacksInductive, PTL DEF PacksSpec

--------------------------------------------------------------------------------
(* Dungeon.  A set of dug cells is joined when what can be reached from    *)
(* the arrival, one cell at a time, is all of it; every carve adds cells   *)
(* that are reached from cells that were dug before.                       *)

Cells == Int \X Int
Box == Block(0, Width - 1, 0, Height - 1)
LevelSet == UNION {[D -> Tiles] : D \in SUBSET Box}

\* No cell of D is one step from S and not in it.
Closed(S, D) == \A c \in S : \A d \in Dirs : Ahead(c, d, 1) \in D => Ahead(c, d, 1) \in S

Joined(D) == \A S \in SUBSET D : Arrival \in S /\ Closed(S, D) => S = D

\* E adds to D what is reached from D.
Leads(D, E) == D \subseteq E /\ \A S \in SUBSET E : D \subseteq S /\ Closed(S, E) => S = E

LEMMA LeastOf ==
  ASSUME NEW N \in SUBSET Nat, N # {}
  PROVE  \E n \in N : \A m \in Nat : m < n => m \notin N
<1>1. PICK n \in N : \A m \in N : ~ <<m, n>> \in OpToRel(<, Nat)
  BY NatLessThanWellFounded, WFMin
<1>2. ASSUME NEW m \in Nat, m < n  PROVE m \notin N
  <2>1. <<m, n>> \in OpToRel(<, Nat)
    BY <1>2 DEF OpToRel
  <2>. QED
    BY <1>1, <2>1
<1>. QED
  BY <1>2

LEMMA SameCell ==
  ASSUME NEW c \in Cells, NEW e \in Cells, c[1] = e[1], c[2] = e[2]
  PROVE  c = e
BY DEF Cells

LEMMA AheadIs ==
  ASSUME NEW c \in Cells, NEW d \in Dirs, NEW n \in Int
  PROVE  /\ Ahead(c, d, n) \in Cells
         /\ c[1] \in Int /\ c[2] \in Int
         /\ d = "north" => Ahead(c, d, n)[1] = c[1] /\ Ahead(c, d, n)[2] = c[2] - n
         /\ d = "south" => Ahead(c, d, n)[1] = c[1] /\ Ahead(c, d, n)[2] = c[2] + n
         /\ d = "east" => Ahead(c, d, n)[1] = c[1] + n /\ Ahead(c, d, n)[2] = c[2]
         /\ d = "west" => Ahead(c, d, n)[1] = c[1] - n /\ Ahead(c, d, n)[2] = c[2]
<1>1. c[1] \in Int /\ c[2] \in Int
  BY DEF Cells
<1>2. /\ d = "north" => Delta(d) = <<0, -1>>
      /\ d = "south" => Delta(d) = <<0, 1>>
      /\ d = "east" => Delta(d) = <<1, 0>>
      /\ d = "west" => Delta(d) = <<-1, 0>>
  BY DEF Delta
<1>. QED
  BY <1>1, <1>2 DEF Ahead, Cells, Dirs

LEMMA AheadNext ==
  ASSUME NEW c \in Cells, NEW d \in Dirs, NEW n \in Int
  PROVE  Ahead(Ahead(c, d, n), d, 1) = Ahead(c, d, n + 1)
<1> DEFINE e == Ahead(c, d, n)
           one == 1
           m == n + 1
           f == Ahead(e, d, one)
           g == Ahead(c, d, m)
<1>0. one \in Int /\ m \in Int /\ one = 1 /\ m = n + 1
  OBVIOUS
<1>1. e \in Cells
  BY AheadIs
<1> HIDE DEF one, m
<1>2. f \in Cells /\ g \in Cells
  BY <1>0, <1>1, AheadIs
<1>3. f[1] = g[1] /\ f[2] = g[2]
  <2>1. /\ c[1] \in Int /\ c[2] \in Int
        /\ d = "north" => e[1] = c[1] /\ e[2] = c[2] - n
        /\ d = "south" => e[1] = c[1] /\ e[2] = c[2] + n
        /\ d = "east" => e[1] = c[1] + n /\ e[2] = c[2]
        /\ d = "west" => e[1] = c[1] - n /\ e[2] = c[2]
    BY AheadIs
  <2>2. /\ e[1] \in Int /\ e[2] \in Int
        /\ d = "north" => f[1] = e[1] /\ f[2] = e[2] - one
        /\ d = "south" => f[1] = e[1] /\ f[2] = e[2] + one
        /\ d = "east" => f[1] = e[1] + one /\ f[2] = e[2]
        /\ d = "west" => f[1] = e[1] - one /\ f[2] = e[2]
    <3> HIDE DEF e
    <3>. QED
      BY <1>0, <1>1, AheadIs
  <2>3. /\ d = "north" => g[1] = c[1] /\ g[2] = c[2] - m
        /\ d = "south" => g[1] = c[1] /\ g[2] = c[2] + m
        /\ d = "east" => g[1] = c[1] + m /\ g[2] = c[2]
        /\ d = "west" => g[1] = c[1] - m /\ g[2] = c[2]
    BY <1>0, AheadIs
  <2> HIDE DEF e, f, g
  <2>. QED
    BY <1>0, <2>1, <2>2, <2>3 DEF Dirs
<1>4. f = g
  <2> HIDE DEF f, g
  <2>. QED
    BY <1>2, <1>3, SameCell
<1>. QED
  BY <1>4 DEF one, m

LEMMA LineIn ==
  ASSUME NEW D \in SUBSET Cells, NEW S \in SUBSET D, Closed(S, D), NEW c \in S, NEW d \in Dirs, NEW n \in Nat,
         \A i \in 1..n : Ahead(c, d, i) \in D
  PROVE  \A i \in 1..n : Ahead(c, d, i) \in S
<1> DEFINE Out == {i \in 1..n : Ahead(c, d, i) \notin S}
<1>1. SUFFICES ASSUME Out # {}  PROVE FALSE
  OBVIOUS
<1>2. PICK m \in Out : \A k \in Nat : k < m => k \notin Out
  <2>1. Out \in SUBSET Nat
    OBVIOUS
  <2> HIDE DEF Out
  <2>. QED
    BY <1>1, <2>1, LeastOf
<1>3. m \in 1..n /\ Ahead(c, d, m) \in D /\ Ahead(c, d, m) \notin S
  BY <1>2
<1>4. CASE m = 1
  BY <1>3, <1>4 DEF Closed
<1>5. CASE m # 1
  <2>1. m - 1 \in 1..n /\ m - 1 < m /\ m - 1 \in Nat
    BY <1>3, <1>5
  <2>2. Ahead(c, d, m - 1) \in S
    BY <1>2, <2>1
  <2>3. Ahead(Ahead(c, d, m - 1), d, 1) = Ahead(c, d, m)
    <3>1. Ahead(Ahead(c, d, m - 1), d, 1) = Ahead(c, d, (m - 1) + 1)
      <4> DEFINE k == m - 1
      <4>1. k \in Int /\ c \in Cells
        BY <2>1
      <4> HIDE DEF k
      <4>2. Ahead(Ahead(c, d, k), d, 1) = Ahead(c, d, k + 1)
        BY <4>1, AheadNext
      <4>. QED
        BY <4>2 DEF k
    <3>2. (m - 1) + 1 = m
      BY <1>3
    <3>. QED
      BY <3>1, <3>2
  <2>. QED
    BY <1>3, <2>2, <2>3 DEF Closed
<1>. QED
  BY <1>4, <1>5

LEMMA InBlock ==
  ASSUME NEW x1 \in Int, NEW x2 \in Int, NEW y1 \in Int, NEW y2 \in Int, NEW c
  PROVE  c \in Block(x1, x2, y1, y2) <=> c \in Cells /\ c[1] \in x1..x2 /\ c[2] \in y1..y2
<1>1. ASSUME c \in Block(x1, x2, y1, y2)  PROVE c \in Cells /\ c[1] \in x1..x2 /\ c[2] \in y1..y2
  BY <1>1 DEF Block, Cells
<1>2. ASSUME c \in Cells, c[1] \in x1..x2, c[2] \in y1..y2  PROVE c \in Block(x1, x2, y1, y2)
  <2>1. c = <<c[1], c[2]>>
    BY <1>2 DEF Cells
  <2>. QED
    BY <1>2, <2>1 DEF Block
<1>. QED
  BY <1>1, <1>2

LEMMA StraightIn ==
  ASSUME NEW D \in SUBSET Cells, NEW S \in SUBSET D, Closed(S, D),
         NEW x1 \in Int, NEW x2 \in Int, NEW y1 \in Int, NEW y2 \in Int, Block(x1, x2, y1, y2) \subseteq D,
         NEW b \in Block(x1, x2, y1, y2), b \in S, NEW d \in Dirs, NEW n \in Nat,
         Ahead(b, d, n) \in Block(x1, x2, y1, y2)
  PROVE  Ahead(b, d, n) \in S
<1>1. ASSUME NEW i \in 1..n  PROVE Ahead(b, d, i) \in D
  <2> DEFINE e == Ahead(b, d, i)
             f == Ahead(b, d, n)
  <2>1. b \in Cells /\ b[1] \in x1..x2 /\ b[2] \in y1..y2 /\ f[1] \in x1..x2 /\ f[2] \in y1..y2
    BY InBlock
  <2>2. /\ e \in Cells /\ b[1] \in Int /\ b[2] \in Int
        /\ d = "north" => e[1] = b[1] /\ e[2] = b[2] - i
        /\ d = "south" => e[1] = b[1] /\ e[2] = b[2] + i
        /\ d = "east" => e[1] = b[1] + i /\ e[2] = b[2]
        /\ d = "west" => e[1] = b[1] - i /\ e[2] = b[2]
    <3>1. i \in Int
      OBVIOUS
    <3>. QED
      BY <2>1, <3>1, AheadIs, ZenonT(30)
  <2>3. /\ d = "north" => f[1] = b[1] /\ f[2] = b[2] - n
        /\ d = "south" => f[1] = b[1] /\ f[2] = b[2] + n
        /\ d = "east" => f[1] = b[1] + n /\ f[2] = b[2]
        /\ d = "west" => f[1] = b[1] - n /\ f[2] = b[2]
    BY <2>1, AheadIs
  <2> HIDE DEF e, f
  <2>4. e[1] \in x1..x2 /\ e[2] \in y1..y2
    BY <2>1, <2>2, <2>3 DEF Dirs
  <2>5. e \in Block(x1, x2, y1, y2)
    BY <2>2, <2>4, InBlock
  <2>. QED
    BY <2>5 DEF e
<1>2. CASE n = 0
  <2> DEFINE f == Ahead(b, d, n)
  <2>1. b \in Cells
    BY InBlock
  <2>2. f \in Cells /\ f[1] = b[1] /\ f[2] = b[2]
    <3> HIDE <1>2
    <3>1. /\ f \in Cells /\ b[1] \in Int /\ b[2] \in Int
          /\ d = "north" => f[1] = b[1] /\ f[2] = b[2] - n
          /\ d = "south" => f[1] = b[1] /\ f[2] = b[2] + n
          /\ d = "east" => f[1] = b[1] + n /\ f[2] = b[2]
          /\ d = "west" => f[1] = b[1] - n /\ f[2] = b[2]
      BY <2>1, AheadIs
    <3> HIDE DEF f
    <3>. QED
      BY <1>2, <3>1 DEF Dirs
  <2>3. f = b
    <3> HIDE DEF f
    <3>. QED
      BY <2>1, <2>2, SameCell
  <2>. QED
    BY <2>3
<1>3. CASE n # 0
  <2>1. \A i \in 1..n : Ahead(b, d, i) \in S
    BY <1>1, LineIn
  <2>. QED
    BY <1>3, <2>1
<1>. QED
  BY <1>2, <1>3

\* Two cells of a row or of a column.
LEMMA Straight ==
  ASSUME NEW b \in Cells, NEW c \in Cells, b[1] = c[1] \/ b[2] = c[2]
  PROVE  \E d \in Dirs, n \in Nat : c = Ahead(b, d, n)
<1> DEFINE d == IF b[1] = c[1] THEN IF c[2] < b[2] THEN "north" ELSE "south" ELSE IF c[1] < b[1] THEN "west" ELSE "east"
           n == IF b[1] = c[1] THEN IF c[2] < b[2] THEN b[2] - c[2] ELSE c[2] - b[2]
                ELSE IF c[1] < b[1] THEN b[1] - c[1] ELSE c[1] - b[1]
           f == Ahead(b, d, n)
<1>1. b[1] \in Int /\ b[2] \in Int /\ c[1] \in Int /\ c[2] \in Int
  BY DEF Cells
<1>2. d \in Dirs
  BY DEF Dirs
<1>3. n \in Nat
  BY <1>1
<1>4. f \in Cells /\ f[1] = c[1] /\ f[2] = c[2]
  <2>1. /\ f \in Cells
        /\ d = "north" => f[1] = b[1] /\ f[2] = b[2] - n
        /\ d = "south" => f[1] = b[1] /\ f[2] = b[2] + n
        /\ d = "east" => f[1] = b[1] + n /\ f[2] = b[2]
        /\ d = "west" => f[1] = b[1] - n /\ f[2] = b[2]
    <3> HIDE DEF d, n
    <3>. QED
      BY <1>2, <1>3, AheadIs, SMTT(30)
  <2> HIDE DEF f
  <2>. QED
    BY <1>1, <2>1
<1>5. c = f
  <2> HIDE DEF f
  <2>. QED
    BY <1>4, SameCell
<1>. QED
  BY <1>2, <1>3, <1>5

LEMMA BlockIn ==
  ASSUME NEW D \in SUBSET Cells, NEW S \in SUBSET D, Closed(S, D),
         NEW x1 \in Int, NEW x2 \in Int, NEW y1 \in Int, NEW y2 \in Int,
         Block(x1, x2, y1, y2) \subseteq D, NEW b \in Block(x1, x2, y1, y2), b \in S
  PROVE  Block(x1, x2, y1, y2) \subseteq S
<1>1. SUFFICES ASSUME NEW c \in Block(x1, x2, y1, y2)  PROVE c \in S
  OBVIOUS
<1> DEFINE e == <<c[1], b[2]>>
<1>2. b \in Cells /\ c \in Cells /\ b[1] \in x1..x2 /\ b[2] \in y1..y2 /\ c[1] \in x1..x2 /\ c[2] \in y1..y2
  BY InBlock
<1>3. e \in Cells /\ e[1] = c[1] /\ e[2] = b[2]
  BY <1>2 DEF Cells
<1> HIDE DEF e
<1>4. e \in Block(x1, x2, y1, y2)
  BY <1>2, <1>3, InBlock
<1>5. e \in S
  <2>1. PICK d \in Dirs, n \in Nat : e = Ahead(b, d, n)
    BY <1>2, <1>3, Straight
  <2>. QED
    BY <1>4, <2>1, StraightIn
<1>6. PICK d \in Dirs, n \in Nat : c = Ahead(e, d, n)
  BY <1>2, <1>3, Straight
<1>. QED
  BY <1>4, <1>5, <1>6, StraightIn

LEMMA JoinedMore ==
  ASSUME NEW D, NEW E, Joined(D), Leads(D, E), Arrival \in D
  PROVE  Joined(E)
<1>1. SUFFICES ASSUME NEW S \in SUBSET E, Arrival \in S, Closed(S, E)  PROVE S = E
  BY DEF Joined
<1>2. Closed(S \cap D, D)
  BY <1>1 DEF Closed, Leads
<1>3. S \cap D = D
  BY <1>1, <1>2 DEF Joined
<1>. QED
  BY <1>1, <1>3 DEF Leads

\* What a cell leads to.
LEMMA LineLeads ==
  ASSUME NEW D \in SUBSET Cells, NEW c \in D, NEW d \in Dirs, NEW n \in Nat
  PROVE  Leads(D, D \cup {Ahead(c, d, i) : i \in 1..n})
<1> DEFINE E == D \cup {Ahead(c, d, i) : i \in 1..n}
<1>1. E \in SUBSET Cells
  <2>1. \A i \in 1..n : Ahead(c, d, i) \in Cells
    <3>1. ASSUME NEW i \in 1..n  PROVE Ahead(c, d, i) \in Cells
      <4>1. c \in Cells /\ i \in Int
        OBVIOUS
      <4>. QED
        BY <4>1, AheadIs
    <3>. QED
      BY <3>1
  <2>. QED
    BY <2>1
<1>2. SUFFICES ASSUME NEW S \in SUBSET E, D \subseteq S, Closed(S, E)  PROVE E \subseteq S
  BY DEF Leads
<1>3. \A i \in 1..n : Ahead(c, d, i) \in E
  OBVIOUS
<1>4. c \in S
  BY <1>2
<1> HIDE DEF E
<1>5. \A i \in 1..n : Ahead(c, d, i) \in S
  BY <1>1, <1>2, <1>3, <1>4, LineIn
<1>. QED
  BY <1>2, <1>5 DEF E

\* A room behind a door.
LEMMA RoomLeads ==
  ASSUME NEW D \in SUBSET Cells, NEW c \in D, NEW d \in Dirs,
         NEW x1 \in Int, NEW x2 \in Int, NEW y1 \in Int, NEW y2 \in Int,
         Ahead(Ahead(c, d, 1), d, 1) \in Block(x1, x2, y1, y2)
  PROVE  Leads(D, D \cup Block(x1, x2, y1, y2) \cup {Ahead(c, d, 1)})
<1> DEFINE door == Ahead(c, d, 1)
           B == Block(x1, x2, y1, y2)
           E == D \cup B \cup {door}
<1>1. door \in Cells
  <2> DEFINE one == 1
  <2>1. one \in Int /\ c \in Cells
    OBVIOUS
  <2> HIDE DEF one
  <2>2. Ahead(c, d, one) \in Cells
    BY <2>1, AheadIs
  <2>. QED
    BY <2>2 DEF one
<1>2. B \in SUBSET Cells
  BY DEF Block, Cells
<1>3. SUFFICES ASSUME NEW S \in SUBSET E, D \subseteq S, Closed(S, E)  PROVE E \subseteq S
  BY DEF Leads
<1>4. door \in S
  BY <1>3 DEF Closed
<1>5. Ahead(door, d, 1) \in S /\ Ahead(door, d, 1) \in B
  BY <1>3, <1>4 DEF Closed
<1>6. B \subseteq S
  <2>1. E \in SUBSET Cells /\ B \subseteq E
    BY <1>1, <1>2
  <2> HIDE DEF E, door
  <2>. QED
    BY <1>3, <1>5, <2>1, BlockIn
<1>. QED
  BY <1>3, <1>4, <1>6

\* Cells each of which is beside one of D.
LEMMA SidesLead ==
  ASSUME NEW D \in SUBSET Cells, NEW A, \A a \in A : \E c \in D, d \in Dirs : a = Ahead(c, d, 1)
  PROVE  Leads(D, A \cup D)
BY DEF Leads, Closed

LEMMA LeadsOn ==
  ASSUME NEW D, NEW E, NEW F, Leads(D, E), Leads(E, F)
  PROVE  Leads(D, F)
<1>1. SUFFICES ASSUME NEW S \in SUBSET F, D \subseteq S, Closed(S, F)  PROVE S = F
  BY DEF Leads
<1>2. Closed(S \cap E, E)
  BY <1>1 DEF Closed, Leads
<1>3. S \cap E = E
  BY <1>1, <1>2 DEF Leads
<1>. QED
  BY <1>1, <1>3 DEF Leads

\* All that is reached from a set.
Hull(D, near) == {c \in D : \A S \in SUBSET D : near \subseteq S /\ Closed(S, D) => c \in S}

LEMMA WiderIs ==
  ASSUME NEW D, NEW near \in SUBSET D
  PROVE  /\ Wider(D, near) \in SUBSET D /\ near \subseteq Wider(D, near)
         /\ Wider(D, near) = near => Closed(near, D)
         /\ \A S \in SUBSET D : near \subseteq S /\ Closed(S, D) => Wider(D, near) \subseteq S
<1>0. \A e : e \in Wider(D, near) <=> e \in near \/ (e \in D /\ \E c \in near : e \in Beside(c))
  <2>1. \A e : e \in Nearby(near) <=> \E c \in near : e \in Beside(c)
    BY DEF Nearby
  <2>. QED
    BY <2>1 DEF Wider
<1>1. \A e : \A c : e \in Beside(c) <=> \E d \in Dirs : e = Ahead(c, d, 1)
  BY DEF Beside
<1> HIDE DEF Wider
<1>2. ASSUME Wider(D, near) = near  PROVE Closed(near, D)
  <2>1. SUFFICES ASSUME NEW c \in near, NEW d \in Dirs, Ahead(c, d, 1) \in D  PROVE Ahead(c, d, 1) \in near
    BY DEF Closed
  <2>2. Ahead(c, d, 1) \in Beside(c)
    BY <1>1
  <2>. QED
    BY <1>0, <1>2, <2>1, <2>2
<1>3. ASSUME NEW S \in SUBSET D, near \subseteq S, Closed(S, D)  PROVE Wider(D, near) \subseteq S
  <2>1. ASSUME NEW e \in Wider(D, near)  PROVE e \in S
    <3>1. CASE e \in near
      BY <1>3, <3>1
    <3>2. CASE e \in D /\ \E c \in near : e \in Beside(c)
      <4>1. PICK c \in near, d \in Dirs : e = Ahead(c, d, 1)
        BY <1>1, <3>2
      <4>. QED
        BY <1>3, <3>2, <4>1 DEF Closed
    <3>. QED
      BY <1>0, <3>1, <3>2
  <2>. QED
    BY <2>1
<1>4. Wider(D, near) \in SUBSET D /\ near \subseteq Wider(D, near)
  BY <1>0
<1>. QED
  BY <1>2, <1>3, <1>4

LEMMA HullIs ==
  ASSUME NEW D, NEW near \in SUBSET D
  PROVE  Hull(D, near) = IF Wider(D, near) = near THEN near ELSE Hull(D, Wider(D, near))
<1> DEFINE wider == Wider(D, near)
<1>0. /\ wider \in SUBSET D /\ near \subseteq wider
      /\ wider = near => Closed(near, D)
      /\ \A S \in SUBSET D : near \subseteq S /\ Closed(S, D) => wider \subseteq S
  BY WiderIs
<1> HIDE DEF wider
<1>1. CASE wider = near
  BY <1>0, <1>1 DEF Hull, wider
<1>2. CASE wider # near
  <2>1. Hull(D, near) = Hull(D, wider)
    BY <1>0 DEF Hull
  <2>. QED
    BY <1>2, <2>1 DEF wider
<1>. QED
  BY <1>1, <1>2

LEMMA ReachedAll ==
  ASSUME NEW L, IsFiniteSet(DOMAIN L), Arrival \in DOMAIN L, Joined(DOMAIN L)
  PROVE  Reached(L) = DOMAIN L
<1> DEFINE D == DOMAIN L
           Spreads(f) == f = [near \in SUBSET D |-> IF Wider(D, near) = near THEN near ELSE f[Wider(D, near)]]
           Spread == CHOOSE f : Spreads(f)
           hull == [near \in SUBSET D |-> Hull(D, near)]
<1>1. Spreads(hull)
  <2>1. \A near \in SUBSET D : Hull(D, near) = IF Wider(D, near) = near THEN near ELSE hull[Wider(D, near)]
    BY HullIs, WiderIs
  <2>. QED
    BY <2>1
<1>2. Spreads(Spread)
  BY <1>1
<1>3. \A near \in SUBSET D : Spread[near] = IF Wider(D, near) = near THEN near ELSE Spread[Wider(D, near)]
  BY <1>2
<1>4. Reached(L) = Spread[{Arrival} \cap D]
  BY DEF Reached
<1> HIDE DEF Spread
<1>5. \A near \in SUBSET D : IsFiniteSet(near) /\ Cardinality(near) \in Nat /\ Cardinality(near) <= Cardinality(D)
  BY FS_Subset, FS_CardinalityType
<1>6. Cardinality(D) \in Nat
  BY FS_CardinalityType
<1>7. ASSUME NEW near \in SUBSET D  PROVE Spread[near] = Hull(D, near)
  <2> DEFINE Wrong == {n \in Nat : \E s \in SUBSET D : n = Cardinality(D) - Cardinality(s) /\ Spread[s] # Hull(D, s)}
  <2>1. SUFFICES ASSUME Spread[near] # Hull(D, near)  PROVE FALSE
    OBVIOUS
  <2>2. Wrong \in SUBSET Nat /\ Cardinality(D) - Cardinality(near) \in Wrong
    BY <1>5, <1>6, <2>1
  <2>3. PICK n \in Wrong : \A m \in Nat : m < n => m \notin Wrong
    <3> HIDE DEF Wrong
    <3>. QED
      BY <2>2, LeastOf
  <2>4. PICK s \in SUBSET D : n = Cardinality(D) - Cardinality(s) /\ Spread[s] # Hull(D, s)
    BY <2>3
  <2> DEFINE w == Wider(D, s)
  <2>5. w \in SUBSET D /\ s \subseteq w
    BY WiderIs
  <2>6. /\ Spread[s] = IF w = s THEN s ELSE Spread[w]
        /\ Hull(D, s) = IF w = s THEN s ELSE Hull(D, w)
    BY <1>3, HullIs
  <2> HIDE DEF w
  <2>7. w # s /\ Spread[w] # Hull(D, w)
    BY <2>4, <2>6
  <2>8. Cardinality(s) < Cardinality(w)
    BY <1>5, <2>5, <2>7, FS_Subset
  <2> DEFINE m == Cardinality(D) - Cardinality(w)
  <2>9. m \in Wrong
    BY <1>5, <1>6, <2>5, <2>7
  <2>10. m \in Nat /\ m < n
    BY <1>5, <1>6, <2>4, <2>5, <2>8
  <2> HIDE DEF Wrong, m
  <2>. QED
    BY <2>3, <2>9, <2>10
<1>8. Hull(D, {Arrival}) = D
  <2>1. Closed(Hull(D, {Arrival}), D)
    BY DEF Hull, Closed
  <2>2. Arrival \in Hull(D, {Arrival})
    BY DEF Hull
  <2>3. Hull(D, {Arrival}) \in SUBSET D
    BY DEF Hull
  <2> HIDE DEF D
  <2>. QED
    BY <2>1, <2>2, <2>3 DEF Joined, D
<1>9. {Arrival} \cap D = {Arrival} /\ {Arrival} \in SUBSET D
  OBVIOUS
<1>. QED
  BY <1>4, <1>7, <1>8, <1>9

LEMMA BoxIs ==
  /\ Box \in SUBSET Cells /\ IsFiniteSet(Box)
  /\ \A c \in Cells : c \in Box <=> InBounds(c)
  /\ \A c \in Cells : Carvable(c) => c \in Box
<1>1. Width \in Nat /\ Height \in Nat
  BY SizeAssumption
<1>2. \A c : c \in Box <=> c \in Cells /\ c[1] \in 0..(Width - 1) /\ c[2] \in 0..(Height - 1)
  <2> DEFINE w == Width - 1
             h == Height - 1
             o == 0
  <2>1. w \in Int /\ h \in Int /\ o \in Int
    BY <1>1
  <2> HIDE DEF w, h, o
  <2>2. \A c : c \in Block(o, w, o, h) <=> c \in Cells /\ c[1] \in o..w /\ c[2] \in o..h
    BY <2>1, InBlock
  <2>. QED
    BY <2>2 DEF Box, w, h, o
<1>3. IsFiniteSet(Box)
  <2>1. IsFiniteSet(0..(Width - 1)) /\ IsFiniteSet(0..(Height - 1))
    BY <1>1, FS_Interval
  <2>2. IsFiniteSet((0..(Width - 1)) \X (0..(Height - 1)))
    BY <2>1, FS_Product
  <2>3. Box \in SUBSET ((0..(Width - 1)) \X (0..(Height - 1)))
    BY DEF Box, Block
  <2>. QED
    BY <2>2, <2>3, FS_Subset
<1>4. \A c \in Cells : Carvable(c) => InBounds(c)
  BY <1>1 DEF Carvable, InBounds
<1>. QED
  BY <1>2, <1>3, <1>4 DEF InBounds

LEMMA LevelIs ==
  ASSUME NEW L
  PROVE  L \in LevelSet <=> DOMAIN L \in SUBSET Box /\ L = [c \in DOMAIN L |-> L[c]] /\ \A c \in DOMAIN L : L[c] \in Tiles
BY DEF LevelSet

LEMMA LevelFinite ==
  ASSUME NEW L \in LevelSet
  PROVE  IsFiniteSet(DOMAIN L) /\ DOMAIN L \in SUBSET Cells
BY LevelIs, BoxIs, FS_Subset

\* M is L with the cells carved.
Carved(M, L, cells, tile) ==
  /\ M \in LevelSet /\ DOMAIN M = cells \cup DOMAIN L
  /\ \A c \in cells : M[c] = tile
  /\ \A c \in DOMAIN L \ cells : M[c] = L[c]

LEMMA CarveIs ==
  ASSUME NEW L \in LevelSet, NEW cells \in SUBSET Box, NEW tile \in Tiles
  PROVE  Carved(Carve(L, cells, tile), L, cells, tile)
<1> DEFINE M == [c \in cells \cup DOMAIN L |-> IF c \in cells THEN tile ELSE L[c]]
<1>1. {c \in cells : InBounds(c)} = cells
  BY BoxIs
<1>2. Carve(L, cells, tile) = M
  BY <1>1 DEF Carve
<1>3. /\ DOMAIN M = cells \cup DOMAIN L /\ M = [c \in DOMAIN M |-> M[c]]
      /\ \A c \in cells : M[c] = tile
      /\ \A c \in DOMAIN L \ cells : M[c] = L[c]
  OBVIOUS
<1> HIDE DEF M
<1>4. M \in LevelSet
  <2>1. DOMAIN L \in SUBSET Box /\ \A c \in DOMAIN L : L[c] \in Tiles
    BY LevelIs
  <2>2. DOMAIN M \in SUBSET Box /\ \A c \in DOMAIN M : M[c] \in Tiles
    BY <1>3, <2>1
  <2>. QED
    BY <1>3, <2>2, LevelIs
<1>. QED
  BY <1>2, <1>3, <1>4 DEF Carved

LEMMA TurnIs ==
  ASSUME NEW d \in Dirs
  PROVE  Left(d) \in Dirs /\ Right(d) \in Dirs /\ Around(d) \in Dirs
<1> DEFINE i == CHOOSE j \in 1..4 : Clockwise[j] = d
<1>1. \A j \in 1..4 : Clockwise[j] \in Dirs
  BY DEF Clockwise, Dirs
<1>2. \E j \in 1..4 : Clockwise[j] = d
  BY DEF Clockwise, Dirs
<1>3. i \in 1..4
  BY <1>2
<1>4. \A q \in Nat : Turn(d, q) = Clockwise[1 + ((i + q - 1) % 4)]
  BY DEF Turn
<1> HIDE DEF i
<1>5. \A q \in Nat : 1 + ((i + q - 1) % 4) \in 1..4
  BY <1>3
<1>6. \A q \in Nat : Turn(d, q) \in Dirs
  BY <1>1, <1>4, <1>5
<1>. QED
  BY <1>6 DEF Left, Right, Around

--------------------------------------------------------------------------------

Point == [level : Nat, at : Cells, dir : Dirs]
Stair == [from : Nat, to : Nat, down : Cells, up : Cells]

\* A point starts from a cell that was dug.
Fits(p, lv) == p.level \in 1..Len(lv) /\ p.at \in DOMAIN lv[p.level]
FrontierOK(q, lv) == q \in Seq(Point) /\ \A i \in 1..Len(q) : Fits(q[i], lv)

StairOK(s, lv) ==
  /\ s.from \in 1..Len(lv) /\ s.down \in DOMAIN lv[s.from] /\ lv[s.from][s.down] = "down"
  /\ s.to \in 1..Len(lv) /\ s.up = Arrival /\ lv[s.to][s.up] = "up"

LevelsOK(lv) ==
  /\ lv \in Seq(LevelSet) /\ Len(lv) >= 1
  /\ \A l \in 1..Len(lv) : Arrival \in DOMAIN lv[l] /\ Joined(DOMAIN lv[l])

StairsOK(st, lv) ==
  /\ st \in Seq(Stair)
  /\ \A k \in 1..Len(st) : StairOK(st[k], lv)
  /\ \A l \in 1..Len(lv) : \A c \in DOMAIN lv[l] :
       lv[l][c] = "down" => \E k \in 1..Len(st) : st[k].from = l /\ st[k].down = c
  /\ \A l \in 2..Len(lv) : \E k \in 1..Len(st) : st[k].to = l

DungeonInv ==
  /\ budget \in 0..GrowthBudget
  /\ LevelsOK(levels) /\ StairsOK(stairs, levels) /\ FrontierOK(frontier, levels)

\* M has the cells of L and more that lead on from them, with their tiles.
Digs(L, M) ==
  /\ M \in LevelSet /\ DOMAIN L \subseteq DOMAIN M
  /\ \A c \in DOMAIN L : M[c] = L[c]
  /\ Leads(DOMAIN L, DOMAIN M)

NoDown(L, M) == \A c \in DOMAIN M \ DOMAIN L : M[c] # "down"

LEMMA InvImplies ==
  ASSUME DungeonInv
  PROVE  DungeonTypeOK /\ DungeonConnected
<1>1. /\ levels \in Seq(LevelSet) /\ DOMAIN levels = 1..Len(levels)
      /\ stairs \in Seq(Stair) /\ DOMAIN stairs = 1..Len(stairs)
      /\ frontier \in Seq(Point) /\ DOMAIN frontier = 1..Len(frontier)
      /\ \A i \in 1..Len(levels) : levels[i] \in LevelSet
      /\ \A i \in 1..Len(frontier) : frontier[i] \in Point
  BY DEF DungeonInv, LevelsOK, StairsOK, FrontierOK
<1>2. \A i \in 1..Len(levels) : \A c \in DOMAIN levels[i] : InBounds(c) /\ levels[i][c] \in Tiles
  BY <1>1, LevelIs, BoxIs
<1>3. \A i \in 1..Len(frontier) : frontier[i].level \in 1..Len(levels) /\ frontier[i].dir \in Dirs
  BY <1>1 DEF DungeonInv, FrontierOK, Fits, Point
<1>4. DungeonTypeOK
  BY <1>1, <1>2, <1>3 DEF DungeonTypeOK, DungeonInv
<1>5. \A i \in 1..Len(levels) : Reached(levels[i]) = DOMAIN levels[i]
  BY <1>1, LevelFinite, ReachedAll DEF DungeonInv, LevelsOK
<1>6. \A i \in 1..Len(stairs) :
        levels[stairs[i].from][stairs[i].down] = "down" /\ levels[stairs[i].to][stairs[i].up] = "up"
  BY DEF DungeonInv, StairsOK, StairOK
<1>7. \A i \in 1..Len(levels) : \A c \in DOMAIN levels[i] :
        /\ levels[i][c] = "down" => \E k \in 1..Len(stairs) : stairs[k].from = i /\ stairs[k].down = c
        /\ i > 1 => \E k \in 1..Len(stairs) : stairs[k].to = i
  BY <1>1 DEF DungeonInv, StairsOK
<1>8. DungeonConnected
  <2>1. DOMAIN levels = 1..Len(levels) /\ DOMAIN stairs = 1..Len(stairs)
    BY <1>1
  <2>2. \A i \in DOMAIN levels : Reached(levels[i]) = DOMAIN levels[i]
    BY <1>5, <2>1
  <2>3. \A i \in DOMAIN stairs :
          levels[stairs[i].from][stairs[i].down] = "down" /\ levels[stairs[i].to][stairs[i].up] = "up"
    BY <1>6, <2>1
  <2>4. \A i \in DOMAIN levels : \A c \in DOMAIN levels[i] :
          /\ levels[i][c] = "down" => \E k \in DOMAIN stairs : stairs[k].from = i /\ stairs[k].down = c
          /\ i > 1 => \E k \in DOMAIN stairs : stairs[k].to = i
    BY <1>7, <2>1
  <2>. QED
    BY <2>2, <2>3, <2>4 DEF DungeonConnected
<1>. QED
  BY <1>4, <1>8

--------------------------------------------------------------------------------

\* Smaller grids have no room for an arrival: Clamp puts it outside.
Roomy == Width >= 3 /\ Height >= 3

LEMMA ArrivalIs ==
  ASSUME Roomy
  PROVE  Arrival \in Cells /\ InBounds(Arrival)
<1>1. \A v, w \in Nat : w >= 3 /\ 2 * v <= w => Clamp(v, 2, w - 3) \in Int /\ Clamp(v, 2, w - 3) \in 1..(w - 1)
  BY DEF Clamp
<1>2. /\ Width \in Nat /\ Height \in Nat /\ Width \div 2 \in Nat /\ Height \div 2 \in Nat
      /\ 2 * (Width \div 2) <= Width /\ 2 * (Height \div 2) <= Height
  BY SizeAssumption
<1> DEFINE x == Clamp(Width \div 2, 2, Width - 3)
           y == Clamp(Height \div 2, 2, Height - 3)
<1>3. /\ x \in Int /\ x \in 1..(Width - 1)
      /\ y \in Int /\ y \in 1..(Height - 1)
  BY <1>1, <1>2 DEF Roomy
<1>4. Arrival = <<x, y>>
  BY DEF Arrival
<1> HIDE DEF x, y
<1>5. Arrival[1] = x /\ Arrival[2] = y
  BY <1>4
<1>6. Arrival \in Cells
  BY <1>3, <1>4 DEF Cells
<1>7. Arrival[1] \in 0..(Width - 1) /\ Arrival[2] \in 0..(Height - 1)
  BY <1>2, <1>3, <1>5
<1>. QED
  BY <1>6, <1>7 DEF InBounds

LEMMA LandingIs ==
  ASSUME Roomy
  PROVE  /\ Landing \in LevelSet /\ Arrival \in DOMAIN Landing /\ Joined(DOMAIN Landing)
         /\ \A c \in DOMAIN Landing : Landing[c] = "floor"
         /\ \A d \in Dirs : Carvable(Ahead(Arrival, d, 2)) => Ahead(Arrival, d, 1) \in DOMAIN Landing
<1> DEFINE a1 == Arrival[1]
           a2 == Arrival[2]
           D == {c \in Around3x3 : InBounds(c)}
           x1 == IF a1 - 1 < 0 THEN 0 ELSE a1 - 1
           x2 == IF a1 + 1 > Width - 1 THEN Width - 1 ELSE a1 + 1
           y1 == IF a2 - 1 < 0 THEN 0 ELSE a2 - 1
           y2 == IF a2 + 1 > Height - 1 THEN Height - 1 ELSE a2 + 1
<1>1. /\ Arrival \in Cells /\ InBounds(Arrival) /\ Width \in Nat /\ Height \in Nat
      /\ a1 \in Int /\ a2 \in Int /\ a1 \in 0..(Width - 1) /\ a2 \in 0..(Height - 1)
  BY ArrivalIs, SizeAssumption DEF Cells, InBounds
<1>2. x1 \in Int /\ x2 \in Int /\ y1 \in Int /\ y2 \in Int
  BY <1>1
<1>3. \A c \in Cells : c \in Around3x3 <=> c[1] \in (a1 - 1)..(a1 + 1) /\ c[2] \in (a2 - 1)..(a2 + 1)
  <2> DEFINE p == a1 - 1
             q == a1 + 1
             r == a2 - 1
             s == a2 + 1
  <2>1. p \in Int /\ q \in Int /\ r \in Int /\ s \in Int
    BY <1>1
  <2>2. Around3x3 = Block(p, q, r, s)
    BY DEF Around3x3
  <2> HIDE DEF p, q, r, s
  <2>3. \A c \in Cells : c \in Around3x3 <=> c[1] \in p..q /\ c[2] \in r..s
    BY <2>1, <2>2, InBlock
  <2>. QED
    BY <2>3 DEF p, q, r, s
<1>4. Around3x3 \in SUBSET Cells
  BY <1>1 DEF Around3x3, Block, Cells
<1>5. D = Block(x1, x2, y1, y2)
  <2>1. ASSUME NEW c \in Cells  PROVE c \in D <=> c[1] \in x1..x2 /\ c[2] \in y1..y2
    <3>1. c[1] \in Int /\ c[2] \in Int
      BY DEF Cells
    <3>2. c \in D <=> /\ c[1] \in (a1 - 1)..(a1 + 1) /\ c[2] \in (a2 - 1)..(a2 + 1)
                      /\ c[1] \in 0..(Width - 1) /\ c[2] \in 0..(Height - 1)
      BY <1>3 DEF InBounds
    <3> HIDE DEF D, a1, a2
    <3>. QED
      BY <1>1, <3>1, <3>2
  <2>2. \A c \in Cells : c \in Block(x1, x2, y1, y2) <=> c[1] \in x1..x2 /\ c[2] \in y1..y2
    <3> HIDE DEF x1, x2, y1, y2
    <3>. QED
      BY <1>2, InBlock
  <2>3. Block(x1, x2, y1, y2) \in SUBSET Cells /\ D \in SUBSET Cells
    <3>1. D \in SUBSET Cells
      BY <1>4
    <3> HIDE DEF x1, x2, y1, y2, D
    <3>. QED
      BY <1>2, <3>1, InBlock
  <2> HIDE DEF x1, x2, y1, y2, D
  <2>. QED
    BY <2>1, <2>2, <2>3
<1>6. DOMAIN Landing = D /\ Landing = [c \in D |-> "floor"]
  BY DEF Landing
<1>7. Arrival \in D
  BY <1>1, <1>3
<1>8. D \in SUBSET Box /\ D \in SUBSET Cells
  BY <1>4, BoxIs
<1>9. Landing \in LevelSet
  <2> HIDE DEF D
  <2>. QED
    BY <1>6, <1>8 DEF LevelSet, Tiles
<1>10. Joined(D)
  <2>1. SUFFICES ASSUME NEW S \in SUBSET D, Arrival \in S, Closed(S, D)  PROVE D \subseteq S
    BY DEF Joined
  <2> HIDE DEF D, x1, x2, y1, y2
  <2>. QED
    BY <1>2, <1>5, <1>7, <1>8, <2>1, BlockIn
<1>11. ASSUME NEW d \in Dirs, Carvable(Ahead(Arrival, d, 2))  PROVE Ahead(Arrival, d, 1) \in D
  <2> DEFINE one == 1
             two == 2
             e == Ahead(Arrival, d, one)
             f == Ahead(Arrival, d, two)
  <2>1. one \in Int /\ two \in Int /\ one = 1 /\ two = 2 /\ Carvable(f)
    BY <1>11
  <2> HIDE DEF one, two
  <2>2. /\ e \in Cells
        /\ d = "north" => e[1] = a1 /\ e[2] = a2 - one
        /\ d = "south" => e[1] = a1 /\ e[2] = a2 + one
        /\ d = "east" => e[1] = a1 + one /\ e[2] = a2
        /\ d = "west" => e[1] = a1 - one /\ e[2] = a2
    BY <1>1, <2>1, AheadIs
  <2>3. /\ f \in Cells
        /\ d = "north" => f[1] = a1 /\ f[2] = a2 - two
        /\ d = "south" => f[1] = a1 /\ f[2] = a2 + two
        /\ d = "east" => f[1] = a1 + two /\ f[2] = a2
        /\ d = "west" => f[1] = a1 - two /\ f[2] = a2
    BY <1>1, <2>1, AheadIs
  <2>4. f[1] \in 1..(Width - 2) /\ f[2] \in 1..(Height - 2)
    BY <2>1 DEF Carvable
  <2> HIDE DEF e, f
  <2>5. e[1] \in (a1 - 1)..(a1 + 1) /\ e[2] \in (a2 - 1)..(a2 + 1)
    <3> HIDE DEF a1, a2
    <3>. QED
      BY <1>1, <2>1, <2>2 DEF Dirs
  <2>6. e[1] \in 0..(Width - 1) /\ e[2] \in 0..(Height - 1)
    <3> HIDE DEF a1, a2
    <3>. QED
      BY <1>1, <2>1, <2>2, <2>3, <2>4 DEF Dirs
  <2>7. e \in D
    BY <1>3, <2>2, <2>5, <2>6 DEF InBounds
  <2>. QED
    BY <2>7 DEF e, one
<1> HIDE DEF D
<1>. QED
  BY <1>6, <1>7, <1>9, <1>10, <1>11

\* A level of a sequence is replaced.
Redug(lv, l, M) == [lv EXCEPT ![l] = M]

LEMMA RedugIs ==
  ASSUME NEW lv \in Seq(LevelSet), NEW l \in 1..Len(lv), NEW M \in LevelSet
  PROVE  /\ Redug(lv, l, M) \in Seq(LevelSet) /\ Len(Redug(lv, l, M)) = Len(lv)
         /\ Redug(lv, l, M)[l] = M /\ \A i \in 1..Len(lv) : i # l => Redug(lv, l, M)[i] = lv[i]
BY DEF Redug

LEMMA LevelsDug ==
  ASSUME NEW lv, LevelsOK(lv), NEW l \in 1..Len(lv), NEW M, Digs(lv[l], M)
  PROVE  LevelsOK(Redug(lv, l, M))
<1> DEFINE new == Redug(lv, l, M)
<1>1. /\ lv \in Seq(LevelSet) /\ M \in LevelSet /\ Arrival \in DOMAIN lv[l] /\ Joined(DOMAIN lv[l])
      /\ Leads(DOMAIN lv[l], DOMAIN M) /\ Len(lv) >= 1
  BY DEF LevelsOK, Digs
<1>2. /\ new \in Seq(LevelSet) /\ Len(new) = Len(lv)
      /\ new[l] = M /\ \A i \in 1..Len(lv) : i # l => new[i] = lv[i]
  BY <1>1, RedugIs
<1>3. Joined(DOMAIN M) /\ Arrival \in DOMAIN M
  BY <1>1, JoinedMore DEF Leads
<1> HIDE DEF new
<1>. QED
  BY <1>1, <1>2, <1>3 DEF LevelsOK, new

LEMMA FrontierDug ==
  ASSUME NEW lv, LevelsOK(lv), NEW l \in 1..Len(lv), NEW M, Digs(lv[l], M), NEW q, FrontierOK(q, lv)
  PROVE  FrontierOK(q, Redug(lv, l, M))
<1> DEFINE new == Redug(lv, l, M)
<1>1. /\ new \in Seq(LevelSet) /\ Len(new) = Len(lv)
      /\ new[l] = M /\ \A i \in 1..Len(lv) : i # l => new[i] = lv[i]
  BY RedugIs DEF LevelsOK, Digs
<1>2. DOMAIN lv[l] \subseteq DOMAIN M
  BY DEF Digs
<1> HIDE DEF new
<1>3. \A p : Fits(p, lv) => Fits(p, new)
  BY <1>1, <1>2 DEF Fits
<1>. QED
  BY <1>3 DEF FrontierOK, new

LEMMA StairsDug ==
  ASSUME NEW lv, LevelsOK(lv), NEW l \in 1..Len(lv), NEW M, Digs(lv[l], M), NoDown(lv[l], M),
         NEW st, StairsOK(st, lv)
  PROVE  StairsOK(st, Redug(lv, l, M))
<1> DEFINE new == Redug(lv, l, M)
<1>1. /\ new \in Seq(LevelSet) /\ Len(new) = Len(lv)
      /\ new[l] = M /\ \A i \in 1..Len(lv) : i # l => new[i] = lv[i]
  BY RedugIs DEF LevelsOK, Digs
<1>2. DOMAIN lv[l] \subseteq DOMAIN M /\ \A c \in DOMAIN lv[l] : M[c] = lv[l][c]
  BY DEF Digs
<1>3. \A i \in 1..Len(lv) : Arrival \in DOMAIN lv[i]
  BY DEF LevelsOK
<1> HIDE DEF new
<1>4. \A i \in 1..Len(lv) : \A c \in DOMAIN lv[i] : c \in DOMAIN new[i] /\ new[i][c] = lv[i][c]
  BY <1>1, <1>2
<1>5. \A s : StairOK(s, lv) => StairOK(s, new)
  BY <1>1, <1>3, <1>4 DEF StairOK
<1>6. ASSUME NEW i \in 1..Len(new), NEW c \in DOMAIN new[i], new[i][c] = "down"
      PROVE  \E k \in 1..Len(st) : st[k].from = i /\ st[k].down = c
  <2>1. c \in DOMAIN lv[i] /\ lv[i][c] = "down"
    BY <1>1, <1>4, <1>6 DEF NoDown
  <2>. QED
    BY <1>1, <2>1 DEF StairsOK
<1>. QED
  BY <1>1, <1>5, <1>6 DEF StairsOK, new

LEMMA DigsOn ==
  ASSUME NEW L, NEW M, NEW N, Digs(L, M), Digs(M, N), NoDown(L, M), NoDown(M, N)
  PROVE  Digs(L, N) /\ NoDown(L, N)
<1>1. Leads(DOMAIN L, DOMAIN N)
  BY LeadsOn DEF Digs
<1>2. /\ N \in LevelSet /\ DOMAIN L \subseteq DOMAIN M /\ DOMAIN M \subseteq DOMAIN N
      /\ \A c \in DOMAIN L : M[c] = L[c]
      /\ \A c \in DOMAIN M : N[c] = M[c]
  BY DEF Digs
<1>. QED
  BY <1>1, <1>2 DEF Digs, NoDown

LEMMA CorridorEndIs ==
  ASSUME NEW L, NEW c, NEW d, NEW length \in Nat
  PROVE  /\ CorridorEnd(L, c, d, length) \in 0..length
         /\ \A m \in 0..(CorridorEnd(L, c, d, length) - 1) : Carvable(Ahead(c, d, m + 1))
<1> DEFINE Stops(n) == n = length \/ ~Carvable(Ahead(c, d, n + 1)) \/ (n > 0 /\ Dug(L, Ahead(c, d, n)))
           N == {n \in 0..length : Stops(n)}
           First(n) == Stops(n) /\ \A m \in 0..(n - 1) : ~Stops(m)
           end == CHOOSE n \in 0..length : First(n)
<1>1. N \in SUBSET Nat /\ length \in N
  OBVIOUS
<1>2. PICK n \in N : \A m \in Nat : m < n => m \notin N
  <2> HIDE DEF N
  <2>. QED
    BY <1>1, LeastOf
<1>3. n \in 0..length /\ Stops(n)
  BY <1>2
<1>4. \A m \in 0..(n - 1) : ~Stops(m)
  <2>1. ASSUME NEW m \in 0..(n - 1)  PROVE ~Stops(m)
    <3>1. m \in 0..length /\ m \in Nat /\ m < n
      BY <1>3
    <3>2. m \notin N
      BY <1>2, <3>1
    <3>. QED
      BY <3>1, <3>2
  <2>. QED
    BY <2>1
<1>5. \E m \in 0..length : First(m)
  BY <1>3, <1>4
<1>6. end \in 0..length /\ First(end)
  <2> HIDE DEF First
  <2>. QED
    BY <1>5
<1>7. end = CorridorEnd(L, c, d, length)
  BY DEF CorridorEnd
<1> HIDE DEF end
<1>8. \A m \in 0..(end - 1) : Carvable(Ahead(c, d, m + 1))
  BY <1>6
<1>. QED
  BY <1>6, <1>7, <1>8

LEMMA CorridorDigs ==
  ASSUME NEW L \in LevelSet, NEW c \in DOMAIN L, NEW d \in Dirs, NEW n \in Nat,
         \A m \in 0..(n - 1) : Carvable(Ahead(c, d, m + 1))
  PROVE  /\ Digs(L, Corridor(L, c, d, n)) /\ NoDown(L, Corridor(L, c, d, n))
         /\ n # 0 => Ahead(c, d, n) \in DOMAIN Corridor(L, c, d, n)
<1> DEFINE D == DOMAIN L
           line == {Ahead(c, d, i) : i \in 1..n}
           M == Corridor(L, c, d, n)
<1>1. D \in SUBSET Cells
  BY LevelFinite
<1>2. line \in SUBSET Box
  <2>1. ASSUME NEW i \in 1..n  PROVE Ahead(c, d, i) \in Box
    <3>1. i - 1 \in 0..(n - 1) /\ (i - 1) + 1 = i /\ i \in Int /\ c \in Cells
      BY <1>1
    <3>2. Carvable(Ahead(c, d, (i - 1) + 1))
      BY <3>1
    <3>3. Carvable(Ahead(c, d, i))
      BY <3>1, <3>2
    <3>4. Ahead(c, d, i) \in Cells
      BY <3>1, AheadIs
    <3>. QED
      BY <3>3, <3>4, BoxIs
  <2>. QED
    BY <2>1
<1>3. Leads(D, D \cup line)
  BY <1>1, LineLeads
<1>4. n # 0 => Ahead(c, d, n) \in line
  OBVIOUS
<1> DEFINE new == line \ D
           floor == "floor"
<1>5. M = Carve(L, new, floor) /\ new \in SUBSET Box
  BY <1>2 DEF Corridor
<1>6. floor \in Tiles /\ floor # "down"
  BY DEF Tiles
<1> HIDE DEF line, M, floor
<1>7. /\ M \in LevelSet /\ DOMAIN M = new \cup D
      /\ \A e \in new : M[e] = floor
      /\ \A e \in D \ new : M[e] = L[e]
  <2> HIDE DEF new, D
  <2>1. Carved(M, L, new, floor)
    BY <1>5, <1>6, CarveIs
  <2>. QED
    BY <2>1 DEF Carved, D
<1>8. DOMAIN M = D \cup line
  BY <1>7
<1>9. Digs(L, M) /\ NoDown(L, M)
  BY <1>3, <1>6, <1>7, <1>8 DEF Digs, NoDown
<1>. QED
  BY <1>4, <1>8, <1>9 DEF M

--------------------------------------------------------------------------------

\* A room, and the way into it.
Proper(r) == r.x[1] \in Int /\ r.x[2] \in Int /\ r.y[1] \in Int /\ r.y[2] \in Int
Behind(p, r) ==
  /\ Proper(r) /\ Ahead(p.at, p.dir, 1) \in Ring(r)
  /\ Ahead(Ahead(p.at, p.dir, 1), p.dir, 1) \in Floor(r)

LEMMA RoomDigs ==
  ASSUME NEW L \in LevelSet, NEW p \in Point, p.at \in DOMAIN L, NEW r, Behind(p, r), Placeable(L, r),
         NEW tile \in {"door", "secret"}
  PROVE  /\ Digs(L, Room(L, p, r, tile)) /\ NoDown(L, Room(L, p, r, tile))
         /\ Floor(r) \subseteq DOMAIN Room(L, p, r, tile)
<1> DEFINE D == DOMAIN L
           door == Ahead(p.at, p.dir, 1)
           F == Floor(r)
           floor == "floor"
           M == Carve(L, F, floor)
           N == Room(L, p, r, tile)
<1>1. D \in SUBSET Cells /\ p.dir \in Dirs /\ p.at \in D
  BY LevelFinite DEF Point
<1>2. Ring(r) \in SUBSET Cells
  <2> DEFINE x1 == r.x[1] - 1
             x2 == r.x[2] + 1
             y1 == r.y[1] - 1
             y2 == r.y[2] + 1
  <2>1. x1 \in Int /\ x2 \in Int /\ y1 \in Int /\ y2 \in Int /\ Ring(r) = Block(x1, x2, y1, y2)
    BY DEF Behind, Proper, Ring
  <2> HIDE DEF x1, x2, y1, y2
  <2>2. \A c : c \in Block(x1, x2, y1, y2) => c \in Cells
    BY <2>1, InBlock
  <2>. QED
    BY <2>1, <2>2
<1>3. F \subseteq Ring(r)
  BY DEF Floor, Ring, Block, Behind, Proper
<1>4. \A c \in Ring(r) : c \in Box /\ c \notin D
  BY <1>2, BoxIs DEF Placeable, Dug
<1>5. door \in Ring(r)
  BY DEF Behind
<1>6. F \in SUBSET Box /\ {door} \in SUBSET Box /\ door \notin D /\ F \cap D = {}
  BY <1>3, <1>4, <1>5
<1>7. Leads(D, D \cup F \cup {door})
  BY <1>1, RoomLeads DEF Floor, Behind, Proper
<1>8. floor \in Tiles /\ tile \in Tiles /\ floor # "down" /\ tile # "down"
  BY DEF Tiles
<1>9. N = Carve(M, {door}, tile)
  BY DEF Room
<1> HIDE DEF floor, F, door, N
<1>10. /\ M \in LevelSet /\ DOMAIN M = F \cup D
       /\ \A c \in F : M[c] = floor
       /\ \A c \in D \ F : M[c] = L[c]
  <2>1. Carved(M, L, F, floor)
    BY <1>6, <1>8, CarveIs
  <2> HIDE DEF M
  <2>. QED
    BY <2>1 DEF Carved
<1> HIDE DEF M
<1>11. /\ N \in LevelSet /\ DOMAIN N = {door} \cup DOMAIN M
       /\ \A c \in {door} : N[c] = tile
       /\ \A c \in DOMAIN M \ {door} : N[c] = M[c]
  <2>1. Carved(N, M, {door}, tile)
    BY <1>6, <1>8, <1>9, <1>10, CarveIs
  <2>. QED
    BY <2>1 DEF Carved
<1>12. DOMAIN N = D \cup F \cup {door}
  BY <1>10, <1>11
<1>13. \A c \in D : N[c] = L[c]
  BY <1>6, <1>10, <1>11
<1>14. \A c \in DOMAIN N \ D : N[c] # "down"
  BY <1>8, <1>10, <1>11
<1>. QED
  BY <1>7, <1>11, <1>12, <1>13, <1>14 DEF Digs, NoDown, N, F

LEMMA DoorsDig ==
  ASSUME NEW L \in LevelSet, NEW r, Proper(r), r.x[1] <= r.x[2], r.y[1] <= r.y[2], Floor(r) \subseteq DOMAIN L,
         NEW entry, NEW doors \in Doors(L, r, entry)
  PROVE  /\ Digs(L, Opened(L, doors)) /\ NoDown(L, Opened(L, doors))
         /\ \A i \in DOMAIN doors : doors[i].at \in DOMAIN Opened(L, doors) /\ doors[i].dir \in Dirs
         /\ DOMAIN doors \subseteq 1..3
<1> DEFINE D == DOMAIN L
           Places(d) == {c \in Wall(r, d) : Carvable(c) /\ ~Dug(L, c) /\
                         InBounds(Ahead(c, d, 1)) /\ ~Dug(L, Ahead(c, d, 1))}
           Ways == UNION {{[at |-> c, dir |-> d, tile |-> k] : c \in Places(d), k \in {"door", "secret"}} :
                            d \in Dirs \ {entry}}
           at == {doors[i].at : i \in DOMAIN doors}
           M == Opened(L, doors)
<1>1. PICK n \in ExitCounts : doors \in [1..n -> Ways]
  BY DEF Doors
<1>2. DOMAIN doors = 1..n /\ n \in 0..3
  BY <1>1, CapAssumption
<1>3. \A w \in Ways : w.dir \in Dirs /\ w.at \in Wall(r, w.dir) /\ Carvable(w.at) /\ w.at \notin D /\ w.tile \in {"door", "secret"}
  BY DEF Dug
<1>4. \A i \in DOMAIN doors : doors[i] \in Ways
  BY <1>1
<1> HIDE DEF Ways
<1>5. \A d \in Dirs : \A c \in Wall(r, d) : c \in Cells /\ \E f \in Floor(r) : c = Ahead(f, d, 1)
  <2>0. r.x[1] \in Int /\ r.x[2] \in Int /\ r.y[1] \in Int /\ r.y[2] \in Int
    BY DEF Proper
  <2>1. SUFFICES ASSUME NEW d \in Dirs, NEW c \in Wall(r, d)
        PROVE  c \in Cells /\ \E f \in Floor(r) : c = Ahead(f, d, 1)
    OBVIOUS
  <2> DEFINE x1 == r.x[1]
             x2 == r.x[2]
             y1 == r.y[1]
             y2 == r.y[2]
             f == CASE d = "north" -> <<c[1], y1>> [] d = "south" -> <<c[1], y2>>
                    [] d = "west" -> <<x1, c[2]>> [] d = "east" -> <<x2, c[2]>>
             one == 1
  <2>2. /\ d = "north" => Wall(r, d) = Block(x1, x2, y1 - 1, y1 - 1)
        /\ d = "south" => Wall(r, d) = Block(x1, x2, y2 + 1, y2 + 1)
        /\ d = "west" => Wall(r, d) = Block(x1 - 1, x1 - 1, y1, y2)
        /\ d = "east" => Wall(r, d) = Block(x2 + 1, x2 + 1, y1, y2)
    BY DEF Wall
  <2>3. /\ c \in Cells
        /\ d = "north" => c[1] \in x1..x2 /\ c[2] = y1 - 1
        /\ d = "south" => c[1] \in x1..x2 /\ c[2] = y2 + 1
        /\ d = "west" => c[1] = x1 - 1 /\ c[2] \in y1..y2
        /\ d = "east" => c[1] = x2 + 1 /\ c[2] \in y1..y2
    <3>1. CASE d = "north"
      <4> DEFINE v == y1 - 1
      <4>1. v \in Int /\ c \in Block(x1, x2, v, v)
        BY <2>0, <2>2, <3>1
      <4> HIDE DEF v
      <4>2. c \in Cells /\ c[1] \in x1..x2 /\ c[2] \in v..v
        BY <2>0, <4>1, InBlock
      <4>. QED
        BY <3>1, <4>1, <4>2 DEF v
    <3>2. CASE d = "south"
      <4> DEFINE v == y2 + 1
      <4>1. v \in Int /\ c \in Block(x1, x2, v, v)
        BY <2>0, <2>2, <3>2
      <4> HIDE DEF v
      <4>2. c \in Cells /\ c[1] \in x1..x2 /\ c[2] \in v..v
        BY <2>0, <4>1, InBlock
      <4>. QED
        BY <3>2, <4>1, <4>2 DEF v
    <3>3. CASE d = "west"
      <4> DEFINE v == x1 - 1
      <4>1. v \in Int /\ c \in Block(v, v, y1, y2)
        BY <2>0, <2>2, <3>3
      <4> HIDE DEF v
      <4>2. c \in Cells /\ c[1] \in v..v /\ c[2] \in y1..y2
        BY <2>0, <4>1, InBlock
      <4>. QED
        BY <3>3, <4>1, <4>2 DEF v
    <3>4. CASE d = "east"
      <4> DEFINE v == x2 + 1
      <4>1. v \in Int /\ c \in Block(v, v, y1, y2)
        BY <2>0, <2>2, <3>4
      <4> HIDE DEF v
      <4>2. c \in Cells /\ c[1] \in v..v /\ c[2] \in y1..y2
        BY <2>0, <4>1, InBlock
      <4>. QED
        BY <3>4, <4>1, <4>2 DEF v
    <3>. QED
      BY <3>1, <3>2, <3>3, <3>4 DEF Dirs
  <2>4. /\ c[1] \in Int /\ c[2] \in Int
        /\ x1 \in Int /\ x2 \in Int /\ y1 \in Int /\ y2 \in Int /\ x1 <= x2 /\ y1 <= y2
    BY <2>0, <2>3 DEF Cells
  <2>5. /\ d = "north" => f = <<c[1], y1>>
        /\ d = "south" => f = <<c[1], y2>>
        /\ d = "west" => f = <<x1, c[2]>>
        /\ d = "east" => f = <<x2, c[2]>>
    OBVIOUS
  <2> HIDE DEF f, x1, x2, y1, y2
  <2>6. /\ f \in Cells
        /\ d = "north" => f[1] = c[1] /\ f[2] = y1
        /\ d = "south" => f[1] = c[1] /\ f[2] = y2
        /\ d = "west" => f[1] = x1 /\ f[2] = c[2]
        /\ d = "east" => f[1] = x2 /\ f[2] = c[2]
    BY <2>4, <2>5 DEF Cells, Dirs
  <2>7. f \in Floor(r)
    <3>1. f[1] \in x1..x2 /\ f[2] \in y1..y2
      BY <2>3, <2>4, <2>6 DEF Dirs
    <3>2. Floor(r) = Block(x1, x2, y1, y2)
      BY DEF Floor, x1, x2, y1, y2
    <3>. QED
      BY <2>4, <2>6, <3>1, <3>2, InBlock
  <2> DEFINE e == Ahead(f, d, one)
  <2>8. one \in Int /\ one = 1
    OBVIOUS
  <2> HIDE DEF one
  <2>9. /\ e \in Cells
        /\ d = "north" => e[1] = f[1] /\ e[2] = f[2] - one
        /\ d = "south" => e[1] = f[1] /\ e[2] = f[2] + one
        /\ d = "east" => e[1] = f[1] + one /\ e[2] = f[2]
        /\ d = "west" => e[1] = f[1] - one /\ e[2] = f[2]
    BY <2>6, <2>8, AheadIs
  <2> HIDE DEF e
  <2>10. e[1] = c[1] /\ e[2] = c[2]
    BY <2>3, <2>4, <2>6, <2>8, <2>9 DEF Dirs
  <2>11. e = c
    BY <2>3, <2>9, <2>10, SameCell
  <2>. QED
    BY <2>3, <2>7, <2>8, <2>11 DEF e
<1>6. \A a \in at : a \in Cells /\ Carvable(a) /\ a \notin D /\ \E f \in D, d \in Dirs : a = Ahead(f, d, 1)
  BY <1>3, <1>4, <1>5
<1>7. at \in SUBSET Box /\ at \cap D = {}
  BY <1>6, BoxIs
<1>8. Leads(D, at \cup D)
  BY <1>6, LevelFinite, SidesLead
<1>9. M = [c \in at \cup D |-> IF c \in at THEN doors[CHOOSE i \in DOMAIN doors : doors[i].at = c].tile ELSE L[c]]
  BY DEF Opened
<1>10. /\ DOMAIN M = at \cup D /\ M = [c \in DOMAIN M |-> M[c]]
       /\ \A c \in D : M[c] = L[c]
       /\ \A c \in at : M[c] = doors[CHOOSE i \in DOMAIN doors : doors[i].at = c].tile
  BY <1>7, <1>9
<1>11. \A c \in at : M[c] \in {"door", "secret"}
  <2>1. ASSUME NEW c \in at  PROVE M[c] \in {"door", "secret"}
    <3> DEFINE j == CHOOSE i \in DOMAIN doors : doors[i].at = c
    <3>1. \E i \in DOMAIN doors : doors[i].at = c
      OBVIOUS
    <3>2. j \in DOMAIN doors
      BY <3>1
    <3>3. M[c] = doors[j].tile
      BY <1>10
    <3> HIDE DEF j, M
    <3>. QED
      BY <1>3, <1>4, <3>2, <3>3
  <2>. QED
    BY <2>1
<1>12. \A i \in DOMAIN doors : doors[i].at \in at /\ doors[i].dir \in Dirs
  BY <1>3, <1>4
<1> HIDE DEF M, at
<1>13. M \in LevelSet
  BY <1>7, <1>10, <1>11, LevelIs DEF Tiles
<1>14. Digs(L, M) /\ NoDown(L, M)
  BY <1>8, <1>10, <1>11, <1>13 DEF Digs, NoDown
<1>. QED
  BY <1>2, <1>10, <1>12, <1>14 DEF M

\* The rooms that placeableRect tries are behind their door.
LEMMA RectIs ==
  ASSUME NEW p \in Point, NEW sides \in SUBSET (Nat \ {0}), NEW r \in Rects(p, sides)
  PROVE  Behind(p, r) /\ r.x[1] <= r.x[2] /\ r.y[1] <= r.y[2]
<1>0. PICK w \in sides, h \in sides : \E off \in 0..(Along(p, w, h) - 1) : r = Rect(p, w, h, off)
  BY DEF Rects
<1>1. PICK off \in 0..(Along(p, w, h) - 1) : r = Rect(p, w, h, off)
  BY <1>0
<1>2. w \in Nat \ {0} /\ h \in Nat \ {0} /\ off \in Nat
  BY <1>0, <1>1
<1> DEFINE d == p.dir
           one == 1
           door == Ahead(p.at, d, one)
           first == Ahead(door, d, one)
           depth == IF d \in {"east", "west"} THEN w ELSE h
           far == Ahead(door, d, depth)
<1>3. p.at \in Cells /\ d \in Dirs /\ depth \in Int /\ depth >= 1 /\ one \in Int /\ one = 1
  BY <1>2 DEF Point
<1>4. /\ d \in {"east", "west"} => off \in 0..(h - 1) /\ depth = w
      /\ d \in {"north", "south"} => off \in 0..(w - 1) /\ depth = h
  BY <1>1 DEF Along
<1>5. /\ d \in {"east", "west"} =>
           /\ r.x = IF first[1] < far[1] THEN <<first[1], far[1]>> ELSE <<far[1], first[1]>>
           /\ r.y = <<door[2] - off, door[2] - off + h - 1>>
      /\ d \in {"north", "south"} =>
           /\ r.x = <<door[1] - off, door[1] - off + w - 1>>
           /\ r.y = IF first[2] < far[2] THEN <<first[2], far[2]>> ELSE <<far[2], first[2]>>
  BY <1>1 DEF Rect
<1> HIDE DEF one, d, depth
<1>6. door \in Cells
  BY <1>3, AheadIs
<1> HIDE DEF door
<1>7. /\ first \in Cells /\ door[1] \in Int /\ door[2] \in Int
      /\ d = "north" => first[1] = door[1] /\ first[2] = door[2] - one
      /\ d = "south" => first[1] = door[1] /\ first[2] = door[2] + one
      /\ d = "east" => first[1] = door[1] + one /\ first[2] = door[2]
      /\ d = "west" => first[1] = door[1] - one /\ first[2] = door[2]
  BY <1>3, <1>6, AheadIs
<1>8. /\ far \in Cells
      /\ d = "north" => far[1] = door[1] /\ far[2] = door[2] - depth
      /\ d = "south" => far[1] = door[1] /\ far[2] = door[2] + depth
      /\ d = "east" => far[1] = door[1] + depth /\ far[2] = door[2]
      /\ d = "west" => far[1] = door[1] - depth /\ far[2] = door[2]
  <2>1. door \in Cells /\ d \in Dirs /\ depth \in Int
    BY <1>3, <1>6
  <2>. QED
    BY <2>1, AheadIs
<1> HIDE DEF first, far
<1> DEFINE x1 == r.x[1]
           x2 == r.x[2]
           y1 == r.y[1]
           y2 == r.y[2]
           n == door[2] - off
           m == door[2] - off + h - 1
           k == door[1] - off
           l == door[1] - off + w - 1
<1>9. n \in Int /\ m \in Int /\ k \in Int /\ l \in Int
  BY <1>2, <1>7
<1>10. first[1] \in Int /\ first[2] \in Int /\ far[1] \in Int /\ far[2] \in Int
  BY <1>7, <1>8 DEF Cells
<1>11. /\ d \in {"east", "west"} =>
            /\ x1 = IF first[1] < far[1] THEN first[1] ELSE far[1]
            /\ x2 = IF first[1] < far[1] THEN far[1] ELSE first[1]
            /\ y1 = n /\ y2 = m
       /\ d \in {"north", "south"} =>
            /\ x1 = k /\ x2 = l
            /\ y1 = IF first[2] < far[2] THEN first[2] ELSE far[2]
            /\ y2 = IF first[2] < far[2] THEN far[2] ELSE first[2]
  BY <1>5
<1>12. d = "north" \/ d = "south" \/ d = "east" \/ d = "west"
  BY <1>3 DEF Dirs
<1> HIDE DEF x1, x2, y1, y2
<1>13. /\ x1 \in Int /\ x2 \in Int /\ y1 \in Int /\ y2 \in Int /\ x1 <= x2 /\ y1 <= y2
       /\ door[1] \in (x1 - 1)..(x2 + 1) /\ door[2] \in (y1 - 1)..(y2 + 1)
       /\ first[1] \in x1..x2 /\ first[2] \in y1..y2
  <2>1. CASE d = "north"
    BY <1>2, <1>3, <1>4, <1>7, <1>8, <1>10, <1>11, <2>1
  <2>2. CASE d = "south"
    BY <1>2, <1>3, <1>4, <1>7, <1>8, <1>10, <1>11, <2>2
  <2>3. CASE d = "east"
    BY <1>2, <1>3, <1>4, <1>7, <1>8, <1>10, <1>11, <2>3
  <2>4. CASE d = "west"
    BY <1>2, <1>3, <1>4, <1>7, <1>8, <1>10, <1>11, <2>4
  <2>. QED
    BY <1>12, <2>1, <2>2, <2>3, <2>4
<1>14. first \in Floor(r)
  <2>1. first \in Block(x1, x2, y1, y2)
    BY <1>7, <1>13, InBlock
  <2>. QED
    BY <2>1 DEF Floor, x1, x2, y1, y2
<1>15. door \in Ring(r)
  <2> DEFINE a == x1 - 1
             b == x2 + 1
             c == y1 - 1
             e == y2 + 1
  <2>1. a \in Int /\ b \in Int /\ c \in Int /\ e \in Int /\ door[1] \in a..b /\ door[2] \in c..e
    BY <1>13
  <2> HIDE DEF a, b, c, e
  <2>2. door \in Block(a, b, c, e)
    BY <1>6, <2>1, InBlock
  <2>. QED
    BY <2>2 DEF Ring, x1, x2, y1, y2, a, b, c, e
<1>. QED
  BY <1>13, <1>14, <1>15 DEF Behind, Proper, x1, x2, y1, y2, one, d, door, first

LEMMA Enqueued ==
  ASSUME NEW lv, NEW q, FrontierOK(q, lv), NEW l \in 1..Len(lv), lv \in Seq(LevelSet), NEW c \in DOMAIN lv[l], NEW d \in Dirs
  PROVE  FrontierOK(Enqueue(q, l, c, d), lv)
<1> DEFINE p == [level |-> l, at |-> c, dir |-> d]
<1>1. c \in Cells /\ l \in Nat
  <2>1. lv[l] \in LevelSet
    OBVIOUS
  <2>. QED
    BY <2>1, LevelFinite
<1>2. p \in Point /\ Fits(p, lv)
  BY <1>1 DEF Point, Fits
<1> HIDE DEF p
<1>3. FrontierOK(Append(q, p), lv)
  BY <1>2 DEF FrontierOK
<1>. QED
  BY <1>3 DEF Enqueue, p

LEMMA Exited ==
  ASSUME Roomy, NEW lv \in Seq(LevelSet), NEW q, FrontierOK(q, lv), NEW l \in 1..Len(lv), DOMAIN Landing \subseteq DOMAIN lv[l]
  PROVE  FrontierOK(Exits(q, l), lv)
<1>1. ASSUME NEW s, FrontierOK(s, lv), NEW d \in Dirs  PROVE FrontierOK(Exit(s, l, d), lv)
  <2> DEFINE c == Ahead(Arrival, d, 1)
             p == [level |-> l, at |-> c, dir |-> d]
  <2>1. CASE Carvable(Ahead(Arrival, d, 2))
    <3>1. c \in DOMAIN lv[l]
      BY <2>1, LandingIs
    <3>2. c \in Cells /\ l \in Nat
      <4>1. lv[l] \in LevelSet
        OBVIOUS
      <4>. QED
        BY <3>1, <4>1, LevelFinite
    <3>3. Exit(s, l, d) = Append(s, p)
      BY <2>1 DEF Exit
    <3> HIDE DEF c
    <3>4. p \in Point /\ Fits(p, lv)
      BY <3>1, <3>2 DEF Point, Fits
    <3> HIDE DEF p
    <3>. QED
      BY <1>1, <3>3, <3>4 DEF FrontierOK
  <2>2. CASE ~Carvable(Ahead(Arrival, d, 2))
    BY <1>1, <2>2 DEF Exit
  <2>. QED
    BY <2>1, <2>2
<1> DEFINE q1 == Exit(q, l, "north")
           q2 == Exit(q1, l, "east")
           q3 == Exit(q2, l, "south")
           q4 == Exit(q3, l, "west")
<1>2. FrontierOK(q1, lv)
  BY <1>1 DEF Dirs
<1>3. FrontierOK(q2, lv)
  <2> HIDE DEF q1
  <2>. QED
    BY <1>1, <1>2 DEF Dirs
<1>4. FrontierOK(q3, lv)
  <2> HIDE DEF q2
  <2>. QED
    BY <1>1, <1>3 DEF Dirs
<1>5. FrontierOK(q4, lv)
  <2> HIDE DEF q3
  <2>. QED
    BY <1>1, <1>4 DEF Dirs
<1>. QED
  BY <1>5 DEF Exits

LEMMA SameStep ==
  ASSUME DungeonInv, NEW rest, FrontierOK(rest, levels), budget' \in 0..GrowthBudget, DeadEnd(rest)
  PROVE  DungeonInv'
BY DEF DeadEnd, DungeonInv

LEMMA DugStep ==
  ASSUME DungeonInv, NEW l \in 1..Len(levels), NEW M, Digs(levels[l], M), NoDown(levels[l], M),
         levels' = Redug(levels, l, M), stairs' = stairs,
         FrontierOK(frontier', Redug(levels, l, M)), budget' \in 0..GrowthBudget
  PROVE  DungeonInv'
<1>1. LevelsOK(Redug(levels, l, M)) /\ StairsOK(stairs, Redug(levels, l, M))
  BY LevelsDug, StairsDug DEF DungeonInv
<1>. QED
  BY <1>1 DEF DungeonInv

LEMMA PassageStep ==
  ASSUME DungeonInv, NEW p \in Point, Fits(p, levels), NEW rest, FrontierOK(rest, levels),
         budget' \in 0..GrowthBudget, GrowPassage(p, rest)
  PROVE  DungeonInv'
<1> DEFINE l == p.level
           d == p.dir
           L == levels[l]
<1>1. PICK length \in CorridorLengths :
        LET n == CorridorEnd(L, p.at, d, length)
            end == Ahead(p.at, d, n)
            Go(queue, e) == Enqueue(queue, l, end, e)
        IN IF n = 0 THEN frontier' = rest /\ UNCHANGED <<levels, stairs>>
           ELSE /\ levels' = [levels EXCEPT ![l] = Corridor(@, p.at, d, n)]
                /\ \/ frontier' = Go(rest, d)
                   \/ \E side \in {Left(d), Right(d)} :
                        frontier' \in {Go(rest, side), Go(Go(rest, d), side)}
                   \/ frontier' = Go(Go(rest, Left(d)), Right(d))
                /\ UNCHANGED stairs
  BY DEF GrowPassage
<1> DEFINE n == CorridorEnd(L, p.at, d, length)
           end == Ahead(p.at, d, n)
           M == Corridor(L, p.at, d, n)
           new == Redug(levels, l, M)
<1>2. /\ levels \in Seq(LevelSet) /\ l \in 1..Len(levels) /\ L \in LevelSet /\ p.at \in DOMAIN L /\ d \in Dirs
      /\ length \in Nat
  BY RollsAssumption DEF DungeonInv, LevelsOK, Fits, Point
<1>3. n \in 0..length /\ \A m \in 0..(n - 1) : Carvable(Ahead(p.at, d, m + 1))
  <2> HIDE DEF L, d
  <2>. QED
    BY <1>2, CorridorEndIs
<1>4. CASE n = 0
  BY <1>1, <1>4, SameStep DEF DeadEnd
<1>5. CASE n # 0
  <2>1. /\ levels' = new /\ stairs' = stairs
        /\ \/ frontier' = Enqueue(rest, l, end, d)
           \/ \E side \in {Left(d), Right(d)} :
                frontier' \in {Enqueue(rest, l, end, side), Enqueue(Enqueue(rest, l, end, d), l, end, side)}
           \/ frontier' = Enqueue(Enqueue(rest, l, end, Left(d)), l, end, Right(d))
    BY <1>1, <1>5 DEF Redug
  <2> HIDE DEF n, L
  <2>2. Digs(L, M) /\ NoDown(L, M) /\ end \in DOMAIN M
    <3>1. n \in Nat
      BY <1>2, <1>3
    <3> HIDE DEF d
    <3>. QED
      BY <1>2, <1>3, <1>5, <3>1, CorridorDigs
  <2> HIDE DEF M, end
  <2>3. new \in Seq(LevelSet) /\ Len(new) = Len(levels) /\ new[l] = M
    BY <1>2, <2>2, RedugIs DEF Digs
  <2>4. FrontierOK(rest, new)
    BY <1>2, <2>2, FrontierDug DEF L, DungeonInv
  <2>5. Left(d) \in Dirs /\ Right(d) \in Dirs
    BY <1>2, TurnIs
  <2> DEFINE Went(q, e) == Enqueue(q, l, end, e)
  <2> HIDE DEF new, l, d
  <2>6. ASSUME NEW q, FrontierOK(q, new), NEW e \in Dirs  PROVE FrontierOK(Went(q, e), new)
    BY <1>2, <2>2, <2>3, <2>6, Enqueued
  <2>7. FrontierOK(frontier', new)
    <3>1. /\ \/ frontier' = Went(rest, d)
             \/ \E side \in {Left(d), Right(d)} :
                  frontier' \in {Went(rest, side), Went(Went(rest, d), side)}
             \/ frontier' = Went(Went(rest, Left(d)), Right(d))
      BY <2>1
    <3> HIDE DEF Went
    <3>2. CASE frontier' = Went(rest, d)
      BY <1>2, <2>4, <2>6, <3>2
    <3>3. ASSUME NEW side \in {Left(d), Right(d)},
                 frontier' \in {Went(rest, side), Went(Went(rest, d), side)}
          PROVE  FrontierOK(frontier', new)
      BY <1>2, <2>4, <2>5, <2>6, <3>3
    <3>4. CASE frontier' = Went(Went(rest, Left(d)), Right(d))
      BY <2>4, <2>5, <2>6, <3>4
    <3>. QED
      BY <3>1, <3>2, <3>3, <3>4
  <2>. QED
    BY <1>2, <2>1, <2>2, <2>7, DugStep DEF new, L
<1>. QED
  BY <1>4, <1>5

LEMMA SecretRoomStep ==
  ASSUME DungeonInv, NEW p \in Point, Fits(p, levels), NEW rest, FrontierOK(rest, levels),
         budget' \in 0..GrowthBudget, NEW r \in Rects(p, VaultSides), GrowSecretRoom(p, rest, r)
  PROVE  DungeonInv'
<1> DEFINE l == p.level
           L == levels[l]
           secret == "secret"
           M == Room(L, p, r, secret)
<1>1. /\ levels \in Seq(LevelSet) /\ l \in 1..Len(levels) /\ L \in LevelSet /\ p.at \in DOMAIN L
      /\ VaultSides \in SUBSET (Nat \ {0})
  BY RollsAssumption DEF DungeonInv, LevelsOK, Fits, Point
<1>2. Behind(p, r)
  BY <1>1, RectIs
<1>3. Placeable(L, r) /\ levels' = Redug(levels, l, M) /\ frontier' = rest /\ stairs' = stairs
  BY DEF GrowSecretRoom, Redug
<1>4. Digs(L, M) /\ NoDown(L, M)
  <2>1. secret \in {"door", "secret"}
    OBVIOUS
  <2> HIDE DEF secret, L
  <2>. QED
    BY <1>1, <1>2, <1>3, <2>1, RoomDigs
<1> HIDE DEF M
<1>5. FrontierOK(rest, Redug(levels, l, M))
  BY <1>1, <1>4, FrontierDug DEF DungeonInv
<1>. QED
  BY <1>1, <1>3, <1>4, <1>5, DugStep

LEMMA ChamberStep ==
  ASSUME DungeonInv, NEW p \in Point, Fits(p, levels), NEW rest, FrontierOK(rest, levels),
         budget' \in 0..GrowthBudget, NEW r \in Rects(p, RoomSides), GrowChamber(p, rest, r)
  PROVE  DungeonInv'
<1> DEFINE l == p.level
           L == levels[l]
           door == "door"
           room == Room(L, p, r, door)
<1>1. /\ levels \in Seq(LevelSet) /\ l \in 1..Len(levels) /\ L \in LevelSet /\ p.at \in DOMAIN L
      /\ RoomSides \in SUBSET (Nat \ {0})
  BY RollsAssumption DEF DungeonInv, LevelsOK, Fits, Point
<1>2. Behind(p, r) /\ r.x[1] <= r.x[2] /\ r.y[1] <= r.y[2]
  BY <1>1, RectIs
<1>3. Placeable(L, r) /\ stairs' = stairs
  BY DEF GrowChamber
<1>4. PICK doors \in Doors(room, r, Around(p.dir)) :
        /\ levels' = Redug(levels, l, Opened(room, doors))
        /\ frontier' = Beyond(Beyond(Beyond(rest, l, doors, 1), l, doors, 2), l, doors, 3)
  BY DEF GrowChamber, Redug
<1>5. Digs(L, room) /\ NoDown(L, room) /\ Floor(r) \subseteq DOMAIN room
  <2>1. door \in {"door", "secret"}
    OBVIOUS
  <2> HIDE DEF door, L
  <2>. QED
    BY <1>1, <1>2, <1>3, <2>1, RoomDigs
<1> HIDE DEF room
<1> DEFINE M == Opened(room, doors)
           new == Redug(levels, l, M)
<1>6. /\ Digs(room, M) /\ NoDown(room, M)
      /\ \A i \in DOMAIN doors : doors[i].at \in DOMAIN M /\ doors[i].dir \in Dirs
  BY <1>2, <1>5, DoorsDig DEF Behind, Digs
<1> HIDE DEF M
<1>7. Digs(L, M) /\ NoDown(L, M)
  BY <1>5, <1>6, DigsOn
<1>8. FrontierOK(rest, new)
  BY <1>1, <1>7, FrontierDug DEF DungeonInv
<1>9. new \in Seq(LevelSet) /\ Len(new) = Len(levels) /\ new[l] = M
  BY <1>1, <1>7, RedugIs DEF Digs
<1> HIDE DEF new, l
<1>10. ASSUME NEW q, FrontierOK(q, new), NEW i  PROVE FrontierOK(Beyond(q, l, doors, i), new)
  <2>1. CASE i \in DOMAIN doors
    BY <1>1, <1>6, <1>9, <1>10, <2>1, Enqueued DEF Beyond
  <2>2. CASE i \notin DOMAIN doors
    BY <1>10, <2>2 DEF Beyond
  <2>. QED
    BY <2>1, <2>2
<1>11. FrontierOK(frontier', new)
  <2> DEFINE q1 == Beyond(rest, l, doors, 1)
             q2 == Beyond(q1, l, doors, 2)
             q3 == Beyond(q2, l, doors, 3)
  <2>1. FrontierOK(q1, new)
    BY <1>8, <1>10
  <2>2. FrontierOK(q2, new)
    <3> HIDE DEF q1
    <3>. QED
      BY <1>10, <2>1
  <2>3. FrontierOK(q3, new)
    <3> HIDE DEF q2
    <3>. QED
      BY <1>10, <2>2
  <2>4. frontier' = q3
    BY <1>4
  <2>. QED
    BY <2>3, <2>4
<1>. QED
  BY <1>1, <1>3, <1>4, <1>7, <1>11, DugStep DEF new, M, l

\* A level comes after the others.
LEMMA Deepened ==
  ASSUME NEW lv \in Seq(LevelSet), NEW N \in LevelSet
  PROVE  /\ Append(lv, N) \in Seq(LevelSet) /\ Len(Append(lv, N)) = Len(lv) + 1
         /\ Append(lv, N)[Len(lv) + 1] = N /\ \A i \in 1..Len(lv) : Append(lv, N)[i] = lv[i]
OBVIOUS

LEMMA StairsStep ==
  ASSUME Roomy, DungeonInv, NEW p \in Point, Fits(p, levels), NEW rest, FrontierOK(rest, levels),
         budget' \in 0..GrowthBudget, ~Dug(levels[p.level], Ahead(p.at, p.dir, 1)), GrowStairs(p, rest)
  PROVE  DungeonInv'
<1> DEFINE l == p.level
           L == levels[l]
           down == Ahead(p.at, p.dir, 1)
           tile == "down"
           top == "up"
           M == Carve(L, {down}, tile)
           N == Carve(Landing, {Arrival}, top)
           deeper == Len(levels) + 1
           dug == Redug(levels, l, M)
           new == Append(dug, N)
           pair == [from |-> l, to |-> deeper, down |-> down, up |-> Arrival]
<1>1. /\ levels \in Seq(LevelSet) /\ l \in 1..Len(levels) /\ L \in LevelSet /\ p.at \in DOMAIN L
      /\ p.dir \in Dirs /\ p.at \in Cells /\ LevelsOK(levels) /\ StairsOK(stairs, levels)
  BY DEF DungeonInv, LevelsOK, Fits, Point
<1>2. CASE DeadEnd(rest)
  BY <1>2, SameStep
<1>3. CASE Carvable(down) /\ levels' = new /\ stairs' = Append(stairs, pair) /\ frontier' = Exits(rest, deeper)
  <2>1. down \in Cells
    <3> DEFINE one == 1
    <3>1. one \in Int
      OBVIOUS
    <3> HIDE DEF one
    <3>2. Ahead(p.at, p.dir, one) \in Cells
      BY <1>1, <3>1, AheadIs
    <3>. QED
      BY <3>2 DEF one
  <2>2. {down} \in SUBSET Box /\ down \notin DOMAIN L
    BY <1>3, <2>1, BoxIs DEF Dug
  <2>3. tile \in Tiles /\ top \in Tiles /\ tile = "down" /\ top = "up" /\ top # tile
    BY DEF Tiles
  <2>4. Leads(DOMAIN L, {down} \cup DOMAIN L)
    <3>1. \A a \in {down} : \E c \in DOMAIN L, d \in Dirs : a = Ahead(c, d, 1)
      BY <1>1
    <3>2. DOMAIN L \in SUBSET Cells
      BY <1>1, LevelFinite
    <3> HIDE DEF down
    <3>. QED
      BY <3>1, <3>2, SidesLead
  <2> HIDE DEF tile, top, down
  <2>5. Carved(M, L, {down}, tile)
    <3> HIDE DEF L
    <3>. QED
      BY <1>1, <2>2, <2>3, CarveIs
  <2>6. /\ Landing \in LevelSet /\ Arrival \in DOMAIN Landing /\ Joined(DOMAIN Landing)
        /\ \A c \in DOMAIN Landing : Landing[c] = "floor"
    BY LandingIs
  <2>7. {Arrival} \in SUBSET Box
    BY <2>6, LevelIs
  <2>8. Carved(N, Landing, {Arrival}, top)
    BY <2>3, <2>6, <2>7, CarveIs
  <2> HIDE DEF M, N
  <2>9. Digs(L, M) /\ M \in LevelSet
    BY <2>2, <2>4, <2>5 DEF Carved, Digs
  <2>10. /\ N \in LevelSet /\ DOMAIN N = DOMAIN Landing /\ N[Arrival] = "up"
         /\ \A c \in DOMAIN N : N[c] # "down"
    BY <2>3, <2>6, <2>8 DEF Carved
  <2>11. LevelsOK(dug) /\ FrontierOK(rest, dug)
    BY <1>1, <2>9, LevelsDug, FrontierDug
  <2>12. /\ dug \in Seq(LevelSet) /\ Len(dug) = Len(levels) /\ dug[l] = M
         /\ \A i \in 1..Len(levels) : i # l => dug[i] = levels[i]
    BY <1>1, <2>9, RedugIs, ZenonT(30)
  <2> HIDE DEF dug
  <2>13. /\ new \in Seq(LevelSet) /\ Len(new) = deeper /\ new[deeper] = N
         /\ \A i \in 1..Len(levels) : new[i] = dug[i]
    BY <2>10, <2>12, Deepened
  <2> HIDE DEF new
  <2>14. deeper \in Nat /\ Len(levels) \in Nat /\ Len(levels) >= 1 /\ deeper = Len(levels) + 1
    BY <1>1 DEF LevelsOK
  <2>15. l \in 1..Len(levels)
    BY <1>1
  <2> HIDE DEF deeper, l
  <2>16. LevelsOK(new)
    BY <2>6, <2>10, <2>11, <2>12, <2>13, <2>14 DEF LevelsOK
  <2>17. FrontierOK(rest, new)
    <3>1. \A q : Fits(q, dug) => Fits(q, new)
      BY <2>12, <2>13, <2>14 DEF Fits
    <3>. QED
      BY <2>11, <3>1 DEF FrontierOK
  <2>18. FrontierOK(frontier', new)
    <3>1. deeper \in 1..Len(new) /\ DOMAIN Landing \subseteq DOMAIN new[deeper] /\ new \in Seq(LevelSet)
      BY <2>10, <2>13, <2>14
    <3>2. FrontierOK(Exits(rest, deeper), new)
      BY <2>17, <3>1, Exited
    <3>. QED
      BY <1>3, <3>2
  <2>19. \A i \in 1..Len(levels) : \A c \in DOMAIN levels[i] : c \in DOMAIN new[i] /\ new[i][c] = levels[i][c]
    BY <2>9, <2>12, <2>13 DEF Digs, L
  <2>20. StairsOK(stairs', new)
    <3>1. /\ stairs \in Seq(Stair) /\ Len(stairs) \in Nat
          /\ \A k \in 1..Len(stairs) : StairOK(stairs[k], levels)
          /\ \A i \in 1..Len(levels) : \A c \in DOMAIN levels[i] :
               levels[i][c] = "down" => \E k \in 1..Len(stairs) : stairs[k].from = i /\ stairs[k].down = c
          /\ \A i \in 2..Len(levels) : \E k \in 1..Len(stairs) : stairs[k].to = i
      BY <1>1 DEF StairsOK
    <3>2. pair \in Stair /\ pair.from = l /\ pair.to = deeper /\ pair.down = down /\ pair.up = Arrival
      BY <2>1, <2>14, <2>15, ArrivalIs DEF Stair
    <3> HIDE DEF pair
    <3>3. /\ stairs' \in Seq(Stair) /\ Len(stairs') = Len(stairs) + 1 /\ stairs'[Len(stairs) + 1] = pair
          /\ \A k \in 1..Len(stairs) : stairs'[k] = stairs[k]
      BY <1>3, <3>1, <3>2
    <3>4. \A s : StairOK(s, levels) => StairOK(s, new)
      <4>1. \A i \in 1..Len(levels) : Arrival \in DOMAIN levels[i]
        BY <1>1 DEF LevelsOK
      <4>. QED
        BY <2>13, <2>14, <2>19, <4>1 DEF StairOK
    <3>5. StairOK(pair, new)
      <4>1. new[l] = M /\ down \in DOMAIN M /\ M[down] = "down"
        BY <2>3, <2>5, <2>12, <2>13, <2>15 DEF Carved
      <4>. QED
        BY <2>10, <2>13, <2>14, <2>15, <3>2, <4>1 DEF StairOK
    <3>6. \A k \in 1..Len(stairs') : StairOK(stairs'[k], new)
      <4>1. \A k \in 1..Len(stairs') : k \in 1..Len(stairs) \/ k = Len(stairs) + 1
        BY <3>1, <3>3
      <4>. QED
        BY <3>1, <3>3, <3>4, <3>5, <4>1
    <3>7. ASSUME NEW i \in 1..Len(new), NEW c \in DOMAIN new[i], new[i][c] = "down"
          PROVE  \E k \in 1..Len(stairs') : stairs'[k].from = i /\ stairs'[k].down = c
      <4>1. i \in 1..Len(levels)
        BY <2>10, <2>13, <2>14, <3>7
      <4>2. CASE i = l /\ c = down
        <5>1. Len(stairs) + 1 \in 1..Len(stairs')
          BY <3>1, <3>3
        <5>. QED
          BY <3>2, <3>3, <4>2, <5>1
      <4>3. CASE ~(i = l /\ c = down)
        <5>1. c \in DOMAIN levels[i] /\ levels[i][c] = "down"
          <6>1. CASE i = l
            BY <2>5, <2>12, <2>13, <3>7, <4>1, <4>3, <6>1 DEF Carved, L, l
          <6>2. CASE i # l
            BY <2>12, <2>13, <3>7, <4>1, <6>2
          <6>. QED
            BY <6>1, <6>2
        <5>2. PICK k \in 1..Len(stairs) : stairs[k].from = i /\ stairs[k].down = c
          BY <3>1, <4>1, <5>1
        <5>3. k \in 1..Len(stairs')
          BY <3>1, <3>3
        <5>. QED
          BY <3>3, <5>2, <5>3
      <4>. QED
        BY <4>2, <4>3
    <3>8. ASSUME NEW i \in 2..Len(new)  PROVE \E k \in 1..Len(stairs') : stairs'[k].to = i
      <4>1. CASE i = deeper
        <5>1. Len(stairs) + 1 \in 1..Len(stairs')
          BY <3>1, <3>3
        <5>. QED
          BY <3>2, <3>3, <4>1, <5>1
      <4>2. CASE i # deeper
        <5>1. i \in 2..Len(levels)
          BY <2>13, <2>14, <4>2
        <5>2. PICK k \in 1..Len(stairs) : stairs[k].to = i
          BY <3>1, <5>1
        <5>3. k \in 1..Len(stairs')
          BY <3>1, <3>3
        <5>. QED
          BY <3>3, <5>2, <5>3
      <4>. QED
        BY <4>1, <4>2
    <3>. QED
      BY <3>3, <3>6, <3>7, <3>8 DEF StairsOK
  <2>. QED
    BY <1>3, <2>16, <2>18, <2>20 DEF DungeonInv
<1>4. DeadEnd(rest) \/
      (Carvable(down) /\ levels' = new /\ stairs' = Append(stairs, pair) /\ frontier' = Exits(rest, deeper))
  BY DEF GrowStairs, DeadEnd, Redug
<1>. QED
  BY <1>2, <1>3, <1>4

LEMMA DungeonStarts ==
  ASSUME Roomy, DungeonInit
  PROVE  DungeonInv
<1>1. /\ Landing \in LevelSet /\ Arrival \in DOMAIN Landing /\ Joined(DOMAIN Landing)
      /\ \A c \in DOMAIN Landing : Landing[c] = "floor"
  BY LandingIs
<1>2. levels \in Seq(LevelSet) /\ Len(levels) = 1 /\ levels[1] = Landing
  BY <1>1 DEF DungeonInit
<1>3. LevelsOK(levels)
  BY <1>1, <1>2 DEF LevelsOK
<1>4. StairsOK(stairs, levels)
  <2>1. stairs = <<>> /\ Len(stairs) = 0 /\ stairs \in Seq(Stair)
    BY DEF DungeonInit
  <2>. QED
    BY <1>1, <1>2, <2>1 DEF StairsOK
<1>5. FrontierOK(frontier, levels)
  <2> DEFINE none == <<>>
             one == 1
  <2>1. FrontierOK(none, levels) /\ one \in 1..Len(levels) /\ DOMAIN Landing \subseteq DOMAIN levels[one]
    BY <1>2 DEF FrontierOK
  <2> HIDE DEF none, one
  <2>2. FrontierOK(Exits(none, one), levels)
    BY <1>2, <2>1, Exited
  <2>. QED
    BY <2>2 DEF DungeonInit, none, one
<1>6. budget \in 0..GrowthBudget
  BY CapAssumption DEF DungeonInit
<1>. QED
  BY <1>3, <1>4, <1>5, <1>6 DEF DungeonInv

LEMMA GrowStep ==
  ASSUME Roomy, DungeonInv, Grow
  PROVE  DungeonInv'
<1> DEFINE p == Head(frontier)
           rest == Tail(frontier)
<1>1. /\ frontier \in Seq(Point) /\ frontier # <<>> /\ budget > 0 /\ budget' = budget - 1
      /\ budget \in 0..GrowthBudget /\ GrowthBudget \in Nat
      /\ \A i \in 1..Len(frontier) : Fits(frontier[i], levels)
  BY CapAssumption DEF Grow, DungeonInv, FrontierOK
<1>2. budget' \in 0..GrowthBudget
  BY <1>1
<1>3. p \in Point /\ Fits(p, levels)
  <2>1. p = frontier[1] /\ 1 \in 1..Len(frontier)
    BY <1>1
  <2>. QED
    BY <1>1, <2>1
<1>4. FrontierOK(rest, levels)
  <2>1. rest \in Seq(Point) /\ Len(rest) = Len(frontier) - 1 /\ \A i \in 1..Len(rest) : rest[i] = frontier[i + 1]
    BY <1>1
  <2>2. \A i \in 1..Len(rest) : i + 1 \in 1..Len(frontier)
    BY <1>1, <2>1
  <2>. QED
    BY <1>1, <2>1, <2>2 DEF FrontierOK
<1>5. \/ DeadEnd(rest)
      \/ ~Dug(levels[p.level], Ahead(p.at, p.dir, 1)) /\ (GrowPassage(p, rest) \/ GrowStairs(p, rest))
      \/ \E r \in Rects(p, VaultSides) : GrowSecretRoom(p, rest, r)
      \/ \E r \in Rects(p, RoomSides) : GrowChamber(p, rest, r)
  BY DEF Grow
<1> HIDE DEF p, rest
<1>. QED
  BY <1>2, <1>3, <1>4, <1>5, SameStep, PassageStep, StairsStep, SecretRoomStep, ChamberStep

\* Every cell that was dug can be reached from where its level is entered, and
\* the stairs come in pairs that are still there, whatever the dice: on every
\* grid that has room for an arrival, for any number of levels, any budget, any
\* length of corridors and any sizes of rooms (generator.go:99-105,
\* dungeon.go:111-113).
THEOREM DungeonsHangTogether == ASSUME Roomy PROVE DungeonSpec => []DungeonConnected
<1>1. DungeonInv /\ [DungeonNext]_dungeonVars => DungeonInv'
  BY GrowStep DEF DungeonNext, dungeonVars, DungeonInv
<1>. QED
  BY <1>1, DungeonStarts, InvImplies, PTL DEF DungeonSpec

--------------------------------------------------------------------------------
(* BattleMap.  A map is put together of pieces, and whoever has a foot in  *)
(* a piece can walk all over it.                                           *)

\* A set that is closed under the eight neighbours, within E.
Bounded(S, E) == \A c \in S : Neighbours(c) \cap E \subseteq S

\* One cell of P leads to all of it, within E.
Piece(P, E) == P \subseteq E /\ \A S \in SUBSET E : Bounded(S, E) /\ S \cap P # {} => P \subseteq S

LEMMA BesideIsNear ==
  ASSUME NEW c \in Cells, NEW d \in Dirs
  PROVE  Ahead(c, d, 1) \in Neighbours(c)
<1> DEFINE one == 1
           e == Ahead(c, d, one)
<1>1. one \in Int /\ one = 1
  OBVIOUS
<1> HIDE DEF one
<1>2. /\ e \in Cells /\ c[1] \in Int /\ c[2] \in Int
      /\ d = "north" => e[1] = c[1] /\ e[2] = c[2] - one
      /\ d = "south" => e[1] = c[1] /\ e[2] = c[2] + one
      /\ d = "east" => e[1] = c[1] + one /\ e[2] = c[2]
      /\ d = "west" => e[1] = c[1] - one /\ e[2] = c[2]
  BY <1>1, AheadIs
<1> HIDE DEF e
<1>3. e[1] \in (c[1] - 1)..(c[1] + 1) /\ e[2] \in (c[2] - 1)..(c[2] + 1)
  BY <1>1, <1>2 DEF Dirs
<1>4. e = <<e[1], e[2]>>
  BY <1>2 DEF Cells
<1>5. e \in Neighbours(c)
  BY <1>3, <1>4 DEF Neighbours
<1>. QED
  BY <1>5 DEF e, one

LEMMA BoundedIsClosed ==
  ASSUME NEW E \in SUBSET Cells, NEW S \in SUBSET E, Bounded(S, E)
  PROVE  Closed(S, E)
BY BesideIsNear DEF Bounded, Closed

LEMMA BlockPiece ==
  ASSUME NEW E \in SUBSET Cells, NEW x1 \in Int, NEW x2 \in Int, NEW y1 \in Int, NEW y2 \in Int,
         Block(x1, x2, y1, y2) \subseteq E
  PROVE  Piece(Block(x1, x2, y1, y2), E)
<1>1. SUFFICES ASSUME NEW S \in SUBSET E, Bounded(S, E), NEW b \in S, b \in Block(x1, x2, y1, y2)
      PROVE  Block(x1, x2, y1, y2) \subseteq S
  BY DEF Piece
<1>2. Closed(S, E)
  BY <1>1, BoundedIsClosed
<1>. QED
  BY <1>1, <1>2, BlockIn

LEMMA PieceMore ==
  ASSUME NEW P, NEW D, NEW E, Piece(P, D), D \subseteq E
  PROVE  Piece(P, E)
<1>1. SUFFICES ASSUME NEW S \in SUBSET E, Bounded(S, E), S \cap P # {}  PROVE P \subseteq S
  BY DEF Piece
<1>2. Bounded(S \cap D, D) /\ (S \cap D) \cap P # {}
  BY <1>1 DEF Bounded, Piece
<1>. QED
  BY <1>2 DEF Piece

LEMMA PieceUnion ==
  ASSUME NEW P, NEW Q, NEW E, Piece(P, E), Piece(Q, E), P \cap Q # {}
  PROVE  Piece(P \cup Q, E)
BY DEF Piece

\* The steps of a function, one after the other.
Keeps(g, n, X) == \A i \in 1..n : \A x \in X : g[i][x] \in X
Iterates(f, x0, n, g) == f[0] = x0 /\ \A i \in 1..n : f[i] = g[i][f[i - 1]]

LEMMA Chain ==
  ASSUME NEW X, NEW x0 \in X, NEW n \in Nat, NEW g, Keeps(g, n, X)
  PROVE  \E f \in [0..n -> X] : Iterates(f, x0, n, g)
<1> USE DEF Keeps, Iterates
<1> DEFINE Upto(f, k) == f \in [0..k -> X] /\ f[0] = x0 /\ \A i \in 1..k : f[i] = g[i][f[i - 1]]
           Wrong == {k \in 0..n : ~ \E f : Upto(f, k)}
<1>1. SUFFICES ASSUME Wrong # {}  PROVE FALSE
  <2>1. n \in 0..n
    OBVIOUS
  <2>2. \E f : Upto(f, n)
    BY <1>1, <2>1
  <2>. QED
    BY <2>2
<1>2. PICK k \in Wrong : \A m \in Nat : m < k => m \notin Wrong
  <2>1. Wrong \in SUBSET Nat
    OBVIOUS
  <2> HIDE DEF Wrong
  <2>. QED
    BY <1>1, <2>1, LeastOf
<1>3. k \in 0..n /\ ~ \E f : Upto(f, k)
  BY <1>2
<1>4. CASE k = 0
  <2> DEFINE f == [i \in 0..0 |-> x0]
  <2>1. Upto(f, 0)
    OBVIOUS
  <2>. QED
    BY <1>3, <1>4, <2>1
<1>5. CASE k # 0
  <2>1. k - 1 \in 0..n /\ k - 1 < k /\ k - 1 \in Nat
    BY <1>3, <1>5
  <2>2. k - 1 \notin Wrong
    <3> HIDE DEF Wrong
    <3>. QED
      BY <1>2, <2>1
  <2>3. PICK f : Upto(f, k - 1)
    BY <2>1, <2>2
  <2> DEFINE h == [i \in 0..k |-> IF i = k THEN g[k][f[k - 1]] ELSE f[i]]
  <2>4. f \in [0..(k - 1) -> X] /\ f[0] = x0 /\ \A i \in 1..(k - 1) : f[i] = g[i][f[i - 1]]
    BY <2>3
  <2>5. g[k][f[k - 1]] \in X
    BY <1>3, <1>5, <2>1, <2>4
  <2>6. h \in [0..k -> X]
    BY <1>3, <1>5, <2>4, <2>5
  <2>7. h[0] = x0 /\ \A i \in 1..k : h[i] = g[i][h[i - 1]]
    BY <1>3, <1>5, <2>4
  <2>8. Upto(h, k)
    BY <2>6, <2>7
  <2>. QED
    BY <1>3, <2>8
<1>. QED
  BY <1>4, <1>5

LEMMA GridIs ==
  /\ Grid \in SUBSET Cells /\ IsFiniteSet(Grid)
  /\ \A c \in Cells : c \in Grid <=> c[1] \in 0..(MapWidth - 1) /\ c[2] \in 0..(MapHeight - 1)
<1>1. MapWidth \in Nat /\ MapHeight \in Nat
  BY MapAssumption
<1> DEFINE w == MapWidth - 1
           h == MapHeight - 1
           o == 0
<1>2. w \in Int /\ h \in Int /\ o \in Int
  BY <1>1
<1>3. Grid = Block(o, w, o, h)
  BY DEF Grid, Block
<1>4. IsFiniteSet(Grid)
  <2>1. IsFiniteSet(0..(MapWidth - 1)) /\ IsFiniteSet(0..(MapHeight - 1))
    BY <1>1, FS_Interval
  <2>2. IsFiniteSet((0..(MapWidth - 1)) \X (0..(MapHeight - 1)))
    BY <2>1, FS_Product
  <2>3. Grid \in SUBSET ((0..(MapWidth - 1)) \X (0..(MapHeight - 1)))
    BY DEF Grid
  <2>. QED
    BY <2>2, <2>3, FS_Subset
<1> HIDE DEF w, h, o
<1>5. \A c : c \in Grid <=> c \in Cells /\ c[1] \in o..w /\ c[2] \in o..h
  BY <1>2, <1>3, InBlock
<1>. QED
  BY <1>4, <1>5 DEF w, h, o

LEMMA ProductIsBlock ==
  ASSUME NEW x1 \in Int, NEW x2 \in Int, NEW y1 \in Int, NEW y2 \in Int
  PROVE  (x1..x2) \X (y1..y2) = Block(x1, x2, y1, y2)
BY DEF Block

LEMMA RoomIs ==
  ASSUME NEW r \in Candidates
  PROVE  /\ CarveRoom(r) \in SUBSET Grid /\ Center(r) \in CarveRoom(r)
         /\ \A E \in SUBSET Cells : CarveRoom(r) \subseteq E => Piece(CarveRoom(r), E)
<1>0. MapWidth \in Nat /\ MapHeight \in Nat /\ RoomSizes \subseteq Nat \ {0}
  BY MapAssumption
<1>1. PICK w \in {s \in RoomSizes : s < MapWidth - 1}, h \in {s \in RoomSizes : s < MapHeight - 1} :
        r \in [x : 1..(MapWidth - w - 1), y : 1..(MapHeight - h - 1), w : {w}, h : {h}]
  <2> DEFINE Ws == {s \in RoomSizes : s < MapWidth - 1}
             Hs == {s \in RoomSizes : s < MapHeight - 1}
             Sized(w, h) == [x : 1..(MapWidth - w - 1), y : 1..(MapHeight - h - 1), w : {w}, h : {h}]
  <2>1. r \in UNION {Sized(w, h) : w \in Ws, h \in Hs}
    BY DEF Candidates
  <2> HIDE DEF Ws, Hs, Sized
  <2>2. \E w \in Ws, h \in Hs : r \in Sized(w, h)
    BY <2>1
  <2>. QED
    BY <2>2 DEF Ws, Hs, Sized
<1>2. w \in Nat \ {0} /\ h \in Nat \ {0}
  BY <1>0
<1>3. /\ r.x \in 1..(MapWidth - w - 1) /\ r.y \in 1..(MapHeight - h - 1) /\ r.w = w /\ r.h = h
  BY <1>1
<1> DEFINE x1 == r.x
           x2 == r.x + r.w - 1
           y1 == r.y
           y2 == r.y + r.h - 1
           B == Block(x1, x2, y1, y2)
<1>4. /\ x1 \in Int /\ x2 \in Int /\ y1 \in Int /\ y2 \in Int
      /\ \A u \in x1..x2 : u \in 0..(MapWidth - 1)
      /\ \A u \in y1..y2 : u \in 0..(MapHeight - 1)
  BY <1>0, <1>2, <1>3
<1>5. CarveRoom(r) = (x1..x2) \X (y1..y2)
  BY DEF CarveRoom
<1> DEFINE u == r.x + r.w \div 2
           v == r.y + r.h \div 2
<1>6. u \in x1..x2 /\ v \in y1..y2
  BY <1>2, <1>3
<1>7. Center(r) = <<u, v>>
  BY DEF Center
<1> HIDE DEF x1, x2, y1, y2, u, v
<1>8. CarveRoom(r) = B
  BY <1>4, <1>5, ProductIsBlock
<1>9. CarveRoom(r) \in SUBSET Grid
  <2>1. ASSUME NEW c \in B  PROVE c \in Grid
    <3>1. c \in Cells /\ c[1] \in x1..x2 /\ c[2] \in y1..y2
      BY <1>4, InBlock
    <3>. QED
      BY <1>4, <3>1, GridIs
  <2>. QED
    BY <1>8, <2>1
<1>10. Center(r) \in CarveRoom(r)
  BY <1>5, <1>6, <1>7
<1>11. ASSUME NEW E \in SUBSET Cells, CarveRoom(r) \subseteq E  PROVE Piece(CarveRoom(r), E)
  <2>1. Piece(B, E)
    BY <1>4, <1>8, <1>11, BlockPiece
  <2>. QED
    BY <1>8, <2>1
<1>. QED
  BY <1>9, <1>10, <1>11

\* A leg lies between its ends.
LEMMA SpanIs ==
  ASSUME NEW a \in Int, NEW b \in Int
  PROVE  \E lo \in Int, hi \in Int : Span(a, b) = lo..hi /\ a \in lo..hi /\ b \in lo..hi /\ lo \in {a, b} /\ hi \in {a, b}
<1>1. CASE a < b
  BY <1>1 DEF Span
<1>2. CASE ~(a < b)
  BY <1>2 DEF Span
<1>. QED
  BY <1>1, <1>2

LEMMA LegsAre ==
  ASSUME NEW from \in Grid, NEW to \in Grid, NEW across \in BOOLEAN
  PROVE  /\ CarveLegs(from, to, across) \in SUBSET Grid
         /\ from \in CarveLegs(from, to, across) /\ to \in CarveLegs(from, to, across)
         /\ \A E \in SUBSET Cells : CarveLegs(from, to, across) \subseteq E => Piece(CarveLegs(from, to, across), E)
<1> DEFINE a1 == from[1]
           a2 == from[2]
           b1 == to[1]
           b2 == to[2]
           x == IF across THEN b1 ELSE a1
           y == IF across THEN a2 ELSE b2
<1>1. /\ from \in Cells /\ to \in Cells /\ MapWidth \in Nat /\ MapHeight \in Nat
      /\ a1 \in 0..(MapWidth - 1) /\ a2 \in 0..(MapHeight - 1)
      /\ b1 \in 0..(MapWidth - 1) /\ b2 \in 0..(MapHeight - 1)
  BY GridIs, MapAssumption
<1>2. from = <<a1, a2>> /\ to = <<b1, b2>>
  BY <1>1 DEF Cells
<1>3. a1 \in Int /\ a2 \in Int /\ b1 \in Int /\ b2 \in Int /\ x \in Int /\ y \in Int /\ x \in {a1, b1} /\ y \in {a2, b2}
  BY <1>1
<1>4. CarveLegs(from, to, across) = (Span(a1, b1) \X {y}) \cup ({x} \X Span(a2, b2))
  BY DEF CarveLegs
<1>5. across => x = b1 /\ y = a2
  OBVIOUS
<1>6. ~across => x = a1 /\ y = b2
  OBVIOUS
<1> HIDE DEF x, y, a1, a2, b1, b2
<1>7. PICK xl \in Int, xh \in Int :
        Span(a1, b1) = xl..xh /\ a1 \in xl..xh /\ b1 \in xl..xh /\ xl \in {a1, b1} /\ xh \in {a1, b1}
  BY <1>3, SpanIs
<1>8. PICK yl \in Int, yh \in Int :
        Span(a2, b2) = yl..yh /\ a2 \in yl..yh /\ b2 \in yl..yh /\ yl \in {a2, b2} /\ yh \in {a2, b2}
  BY <1>3, SpanIs
<1> DEFINE H == Block(xl, xh, y, y)
           V == Block(x, x, yl, yh)
<1>9. CarveLegs(from, to, across) = H \cup V
  <2>1. {y} = y..y /\ {x} = x..x
    BY <1>3
  <2>2. (xl..xh) \X (y..y) = H /\ (x..x) \X (yl..yh) = V
    BY <1>3, ProductIsBlock
  <2>. QED
    BY <1>4, <1>7, <1>8, <2>1, <2>2
<1>10. <<x, y>> \in H /\ <<x, y>> \in V /\ from \in H \cup V /\ to \in H \cup V
  <2>1. \A u, v \in Int : /\ u \in xl..xh /\ v = y => <<u, v>> \in H
                          /\ u = x /\ v \in yl..yh => <<u, v>> \in V
    BY <1>3 DEF Block
  <2> HIDE DEF H, V
  <2>2. <<x, y>> \in H /\ <<x, y>> \in V
    BY <1>3, <1>7, <1>8, <2>1
  <2>3. CASE across
    BY <1>2, <1>3, <1>5, <1>7, <1>8, <2>1, <2>3
  <2>4. CASE ~across
    BY <1>2, <1>3, <1>6, <1>7, <1>8, <2>1, <2>4
  <2>. QED
    BY <2>2, <2>3, <2>4
<1>11. H \in SUBSET Grid /\ V \in SUBSET Grid
  <2>1. ASSUME NEW c \in H  PROVE c \in Grid
    <3>1. c \in Cells /\ c[1] \in xl..xh /\ c[2] \in y..y
      BY <1>3, InBlock
    <3>2. c[1] \in 0..(MapWidth - 1) /\ c[2] \in 0..(MapHeight - 1)
      BY <1>1, <1>3, <1>7, <3>1
    <3>. QED
      BY <3>1, <3>2, GridIs
  <2>2. ASSUME NEW c \in V  PROVE c \in Grid
    <3>1. c \in Cells /\ c[1] \in x..x /\ c[2] \in yl..yh
      BY <1>3, InBlock
    <3>2. c[1] \in 0..(MapWidth - 1) /\ c[2] \in 0..(MapHeight - 1)
      BY <1>1, <1>3, <1>8, <3>1
    <3>. QED
      BY <3>1, <3>2, GridIs
  <2>. QED
    BY <2>1, <2>2
<1>12. ASSUME NEW E \in SUBSET Cells, H \cup V \subseteq E  PROVE Piece(H \cup V, E)
  <2>1. Piece(H, E) /\ Piece(V, E)
    BY <1>3, <1>12, BlockPiece
  <2> HIDE DEF H, V
  <2>. QED
    BY <1>10, <2>1, PieceUnion
<1>. QED
  BY <1>9, <1>10, <1>11, <1>12

Ground == {m \in [rooms : Seq(Candidates), open : SUBSET Grid] :
             /\ \A i \in 1..Len(m.rooms) : CarveRoom(m.rooms[i]) \subseteq m.open
             /\ Piece(m.open, m.open) /\ (m.rooms = <<>> => m.open = {})}

Tries == [room : Candidates, across : BOOLEAN]

LEMMA TryRoomIs ==
  ASSUME NEW m \in Ground, NEW t \in Tries
  PROVE  TryRoom(m, t) \in Ground
<1>1. /\ m.rooms \in Seq(Candidates) /\ m.open \in SUBSET Grid /\ t.room \in Candidates /\ t.across \in BOOLEAN
      /\ \A i \in 1..Len(m.rooms) : CarveRoom(m.rooms[i]) \subseteq m.open
      /\ Piece(m.open, m.open) /\ (m.rooms = <<>> => m.open = {})
  BY DEF Ground, Tries
<1>2. CASE \E r \in Range(m.rooms) : Overlaps(t.room, r)
  BY <1>2 DEF TryRoom
<1>3. CASE ~ \E r \in Range(m.rooms) : Overlaps(t.room, r)
  <2> DEFINE R == CarveRoom(t.room)
             last == Last(m.rooms)
             legs == CarveLegs(Center(last), Center(t.room), t.across)
             new == IF m.rooms = <<>> THEN m.open \cup R ELSE m.open \cup R \cup legs
             rooms == Append(m.rooms, t.room)
  <2>1. TryRoom(m, t) = [rooms |-> rooms, open |-> new]
    BY <1>3 DEF TryRoom
  <2>2. rooms \in Seq(Candidates) /\ rooms # <<>>
    BY <1>1
  <2>3. R \in SUBSET Grid /\ Center(t.room) \in R /\ \A E \in SUBSET Cells : R \subseteq E => Piece(R, E)
    BY <1>1, RoomIs
  <2> HIDE DEF R
  <2>4. new \in SUBSET Grid /\ Piece(new, new)
    <3>1. CASE m.rooms = <<>>
      <4>1. new = R
        BY <1>1, <3>1
      <4>2. R \in SUBSET Cells
        BY <2>3, GridIs
      <4>. QED
        BY <2>3, <4>1, <4>2
    <3>2. CASE m.rooms # <<>>
      <4>1. Len(m.rooms) \in 1..Len(m.rooms) /\ last = m.rooms[Len(m.rooms)] /\ last \in Candidates
        BY <1>1, <3>2 DEF Last
      <4> HIDE DEF last
      <4>2. Center(last) \in m.open
        BY <1>1, <4>1, RoomIs
      <4>3. /\ legs \in SUBSET Grid /\ Center(last) \in legs /\ Center(t.room) \in legs
            /\ \A E \in SUBSET Cells : legs \subseteq E => Piece(legs, E)
        BY <1>1, <2>3, <4>2, LegsAre
      <4> HIDE DEF legs
      <4>4. new = m.open \cup R \cup legs
        BY <3>2
      <4> HIDE DEF new
      <4>5. new \in SUBSET Grid /\ new \in SUBSET Cells /\ m.open \subseteq new /\ R \subseteq new /\ legs \subseteq new
        BY <1>1, <2>3, <4>3, <4>4, GridIs
      <4>6. Piece(m.open, new) /\ Piece(R, new) /\ Piece(legs, new)
        BY <1>1, <2>3, <4>3, <4>5, PieceMore
      <4>7. Piece(m.open \cup legs, new)
        BY <4>2, <4>3, <4>6, PieceUnion
      <4>8. Piece((m.open \cup legs) \cup R, new)
        BY <2>3, <4>3, <4>6, <4>7, PieceUnion
      <4>9. (m.open \cup legs) \cup R = new
        BY <4>4
      <4>. QED
        BY <4>5, <4>8, <4>9
    <3>. QED
      BY <3>1, <3>2
  <2>5. \A i \in 1..Len(rooms) : CarveRoom(rooms[i]) \subseteq new
    <3>1. \A i \in 1..Len(rooms) :
            \/ i \in 1..Len(m.rooms) /\ rooms[i] = m.rooms[i]
            \/ rooms[i] = t.room
      BY <1>1
    <3>2. m.open \subseteq new /\ R \subseteq new
      OBVIOUS
    <3> HIDE DEF new, rooms
    <3>. QED
      BY <1>1, <3>1, <3>2 DEF R
  <2> HIDE DEF new, rooms
  <2>. QED
    BY <2>1, <2>2, <2>4, <2>5 DEF Ground
<1>. QED
  BY <1>2, <1>3

\* The maps there can be are one piece.
LEMMA MapIs ==
  ASSUME NEW cells \in Maps
  PROVE  cells \in SUBSET Grid /\ cells # {} /\ Piece(cells, cells)
<1>1. PICK tries \in [1..RoomAttempts -> Tries] : cells = GenerateRoomsAndCorridors(tries) /\ cells # {}
  BY DEF Maps, Tries
<1>2. RoomAttempts \in Nat
  BY RadiusAssumption
<1> DEFINE Builds(f) == f = [i \in 0..RoomAttempts |-> IF i = 0 THEN NoRooms ELSE TryRoom(f[i - 1], tries[i])]
           built == CHOOSE f : Builds(f)
           g == [i \in 1..RoomAttempts |-> [m \in Ground |-> TryRoom(m, tries[i])]]
<1>3. NoRooms \in Ground
  <2>1. /\ NoRooms \in [rooms : Seq(Candidates), open : SUBSET Grid]
        /\ NoRooms.rooms = <<>> /\ NoRooms.open = {}
    BY DEF NoRooms
  <2>2. 1..Len(NoRooms.rooms) = {}
    BY <2>1
  <2>3. Piece(NoRooms.open, NoRooms.open)
    BY <2>1 DEF Piece
  <2>. QED
    BY <2>1, <2>2, <2>3 DEF Ground
<1>4. \A i \in 1..RoomAttempts : tries[i] \in Tries
  OBVIOUS
<1>5. \A i \in 1..RoomAttempts : \A m \in Ground : TryRoom(m, tries[i]) \in Ground
  BY <1>4, TryRoomIs
<1>6. \A i \in 1..RoomAttempts : \A m \in Ground : g[i][m] = TryRoom(m, tries[i])
  OBVIOUS
<1>7. \E f : Builds(f)
  <2> HIDE DEF g
  <2>0. Keeps(g, RoomAttempts, Ground)
    BY <1>5, <1>6 DEF Keeps
  <2>b. PICK f \in [0..RoomAttempts -> Ground] : Iterates(f, NoRooms, RoomAttempts, g)
    BY <1>2, <1>3, <2>0, Chain
  <2>1. f[0] = NoRooms /\ \A i \in 1..RoomAttempts : f[i] = g[i][f[i - 1]]
    BY <2>b DEF Iterates
  <2>2. \A i \in 0..RoomAttempts : f[i] = IF i = 0 THEN NoRooms ELSE TryRoom(f[i - 1], tries[i])
    <3>1. ASSUME NEW i \in 0..RoomAttempts, i # 0  PROVE f[i] = TryRoom(f[i - 1], tries[i])
      <4>1. i \in 1..RoomAttempts /\ i - 1 \in 0..RoomAttempts
        BY <1>2, <3>1
      <4>. QED
        BY <1>6, <2>1, <4>1
    <3>. QED
      BY <2>1, <3>1
  <2>3. Builds(f)
    BY <2>2
  <2>. QED
    BY <2>3
<1>8. Builds(built)
  BY <1>7
<1>9. \A i \in 0..RoomAttempts : built[i] = IF i = 0 THEN NoRooms ELSE TryRoom(built[i - 1], tries[i])
  BY <1>8
<1>10. cells = built[RoomAttempts].open
  BY <1>1 DEF GenerateRoomsAndCorridors
<1> HIDE DEF built
<1> DEFINE Wrong == {i \in 0..RoomAttempts : built[i] \notin Ground}
<1>11. Wrong = {}
  <2>1. SUFFICES ASSUME Wrong # {}  PROVE FALSE
    OBVIOUS
  <2>2. PICK k \in Wrong : \A m \in Nat : m < k => m \notin Wrong
    <3>1. Wrong \in SUBSET Nat
      BY <1>2
    <3> HIDE DEF Wrong
    <3>. QED
      BY <2>1, <3>1, LeastOf
  <2>3. k \in 0..RoomAttempts /\ built[k] \notin Ground
    BY <2>2
  <2>4. k # 0
    BY <1>2, <1>3, <1>9, <2>3
  <2>5. k \in 1..RoomAttempts /\ k - 1 \in 0..RoomAttempts /\ k - 1 \in Nat /\ k - 1 < k
    BY <1>2, <2>3, <2>4
  <2>6. built[k - 1] \in Ground
    <3>1. k - 1 \notin Wrong
      <4> HIDE DEF Wrong
      <4>. QED
        BY <2>2, <2>5
    <3>. QED
      BY <2>5, <3>1
  <2>7. built[k] = TryRoom(built[k - 1], tries[k])
    BY <1>9, <2>3, <2>4
  <2>. QED
    BY <1>5, <2>3, <2>5, <2>6, <2>7
<1>12. built[RoomAttempts] \in Ground
  BY <1>2, <1>11
<1>. QED
  BY <1>1, <1>10, <1>12 DEF Ground

--------------------------------------------------------------------------------

\* Within as many steps as there are cells one gets everywhere.
LEMMA StepIs ==
  ASSUME NEW E, NEW S \in SUBSET E
  PROVE  /\ StepOn(E, S) \in SUBSET E /\ S \subseteq StepOn(E, S)
         /\ StepOn(E, S) = S => Bounded(S, E)
<1>1. \A e : e \in Neighbourhood(S) <=> \E c \in S : e \in Neighbours(c)
  BY DEF Neighbourhood
<1>2. StepOn(E, S) = S => Bounded(S, E)
  BY <1>1 DEF StepOn, Bounded
<1>. QED
  BY <1>2 DEF StepOn

Spreads(f, steps, E, from) ==
  /\ f[0] = {from} /\ \A i \in 1..steps : f[i] = StepOn(E, f[i - 1])
  /\ Within(steps, E, from) = f[steps]

LEMMA WithinIs ==
  ASSUME NEW E, NEW from \in E, NEW steps \in Nat
  PROVE  \E f \in [0..steps -> SUBSET E] : Spreads(f, steps, E, from)
<1> DEFINE Nears(f) == f = [n \in 0..steps |-> IF n = 0 THEN {from} ELSE StepOn(E, f[n - 1])]
           near == CHOOSE f : Nears(f)
           g == [i \in 1..steps |-> [S \in SUBSET E |-> StepOn(E, S)]]
           X == SUBSET E
           one == {from}
<1>1. \A i \in 1..steps : \A S \in X : g[i][S] = StepOn(E, S) /\ StepOn(E, S) \in X
  BY StepIs
<1>2. \E f : Nears(f)
  <2>0. one \in X
    OBVIOUS
  <2>a. Keeps(g, steps, X)
    BY <1>1 DEF Keeps
  <2> HIDE DEF g, X, one
  <2>b. PICK f \in [0..steps -> X] : Iterates(f, one, steps, g)
    BY <2>0, <2>a, Chain
  <2>1. f[0] = one /\ \A i \in 1..steps : f[i] = g[i][f[i - 1]]
    BY <2>b DEF Iterates
  <2>2. \A i \in 0..steps : f[i] = IF i = 0 THEN one ELSE StepOn(E, f[i - 1])
    <3>1. ASSUME NEW i \in 0..steps, i # 0  PROVE f[i] = StepOn(E, f[i - 1])
      <4>1. i \in 1..steps /\ i - 1 \in 0..steps
        BY <3>1
      <4>. QED
        BY <1>1, <2>1, <4>1
    <3>. QED
      BY <2>1, <3>1
  <2>3. Nears(f)
    BY <2>2 DEF one
  <2>. QED
    BY <2>3
<1>3. Nears(near)
  BY <1>2
<1>4. DOMAIN near = 0..steps /\ \A n \in 0..steps : near[n] = IF n = 0 THEN {from} ELSE StepOn(E, near[n - 1])
  BY <1>3
<1>5. near = [n \in 0..steps |-> near[n]]
  BY <1>3
<1>6. Within(steps, E, from) = near[steps]
  BY DEF Within
<1> HIDE DEF near
<1> DEFINE Wrong == {i \in 0..steps : near[i] \notin SUBSET E}
<1>7. Wrong = {}
  <2>1. SUFFICES ASSUME Wrong # {}  PROVE FALSE
    OBVIOUS
  <2>2. PICK k \in Wrong : \A m \in Nat : m < k => m \notin Wrong
    <3>1. Wrong \in SUBSET Nat
      OBVIOUS
    <3> HIDE DEF Wrong
    <3>. QED
      BY <2>1, <3>1, LeastOf
  <2>3. k \in 0..steps /\ near[k] \notin SUBSET E
    BY <2>2
  <2>4. k # 0
    <3>1. {from} \in SUBSET E
      OBVIOUS
    <3>. QED
      BY <1>4, <2>3, <3>1
  <2>5. k - 1 \in 0..steps /\ k - 1 \in Nat /\ k - 1 < k
    BY <2>3, <2>4
  <2>6. near[k - 1] \in SUBSET E
    <3>1. k - 1 \notin Wrong
      <4> HIDE DEF Wrong
      <4>. QED
        BY <2>2, <2>5
    <3>. QED
      BY <2>5, <3>1
  <2>7. near[k] = StepOn(E, near[k - 1])
    BY <1>4, <2>3, <2>4
  <2>. QED
    BY <2>3, <2>6, <2>7, StepIs
<1>8. near \in [0..steps -> SUBSET E]
  BY <1>5, <1>7
<1>9. near[0] = {from}
  <2>1. \A n \in 0..steps : n = 0 => near[n] = {from}
    BY <1>4
  <2>2. 0 \in 0..steps
    OBVIOUS
  <2> HIDE DEF Nears, g, X, one, Wrong
  <2>. QED
    BY <2>1, <2>2
<1>10. ASSUME NEW i \in 1..steps  PROVE near[i] = StepOn(E, near[i - 1])
  <2>1. i \in 0..steps /\ i # 0
    OBVIOUS
  <2>. QED
    BY <1>4, <2>1
<1> HIDE DEF Wrong
<1>11. Spreads(near, steps, E, from)
  BY <1>6, <1>9, <1>10 DEF Spreads
<1>. QED
  BY <1>8, <1>11

LEMMA WithinAll ==
  ASSUME NEW E, IsFiniteSet(E), Piece(E, E), NEW from \in E
  PROVE  Within(Cardinality(E), E, from) = E
<1> DEFINE n == Cardinality(E)
<1>1. n \in Nat
  BY FS_CardinalityType
<1> HIDE DEF n
<1>a. PICK f \in [0..n -> SUBSET E] : Spreads(f, n, E, from)
  BY <1>1, WithinIs
<1>2. f[0] = {from} /\ (\A i \in 1..n : f[i] = StepOn(E, f[i - 1])) /\ Within(n, E, from) = f[n]
  BY <1>a DEF Spreads
<1>3. \A S \in SUBSET E : IsFiniteSet(S) /\ Cardinality(S) \in Nat /\ Cardinality(S) <= n
  BY FS_Subset, FS_CardinalityType DEF n
\* The set of cells that were reached grows until it is everything.
<1> DEFINE Fine(i) == from \in f[i] /\ (f[i] = E \/ Cardinality(f[i]) >= i + 1)
           Wrong == {i \in 0..n : ~ Fine(i)}
<1>4. Wrong = {}
  <2>1. SUFFICES ASSUME Wrong # {}  PROVE FALSE
    OBVIOUS
  <2>2. PICK k \in Wrong : \A m \in Nat : m < k => m \notin Wrong
    <3>1. Wrong \in SUBSET Nat
      OBVIOUS
    <3> HIDE DEF Wrong
    <3>. QED
      BY <2>1, <3>1, LeastOf
  <2>3. k \in 0..n /\ ~ Fine(k)
    BY <2>2
  <2>4. CASE k = 0
    <3>1. Cardinality(f[0]) = 1
      BY <1>2, FS_Singleton
    <3>2. f[k] = f[0]
      BY <2>4
    <3>3. from \in f[k]
      BY <1>2, <3>2
    <3>4. Cardinality(f[k]) = 1
      BY <3>1, <3>2
    <3>5. 1 >= k + 1
      BY <2>4
    <3>. QED
      BY <2>3, <3>3, <3>4, <3>5
  <2>5. CASE k # 0
    <3>1. k - 1 \in 0..n /\ k - 1 \in Nat /\ k - 1 < k /\ k \in 1..n
      BY <1>1, <2>3, <2>5
    <3>2. Fine(k - 1)
      <4>1. k - 1 \notin Wrong
        <5> HIDE DEF Wrong
        <5>. QED
          BY <2>2, <3>1
      <4>. QED
        BY <3>1, <4>1
    <3> DEFINE S == f[k - 1]
               T == f[k]
    <3>3. S \in SUBSET E /\ T \in SUBSET E /\ T = StepOn(E, S)
      BY <1>2, <3>1
    <3>4. S \subseteq T /\ (T = S => Bounded(S, E))
      BY <3>3, StepIs
    <3>5. from \in S /\ (S = E \/ Cardinality(S) >= k)
      BY <3>1, <3>2
    <3>6. T = E \/ Cardinality(T) >= k + 1
      <4>1. CASE T = S
        <5>1. Bounded(S, E) /\ S \cap E # {}
          BY <3>3, <3>4, <3>5, <4>1
        <5>2. S = E
          BY <3>3, <5>1 DEF Piece
        <5>. QED
          BY <4>1, <5>2
      <4>2. CASE T # S /\ S # E
        <5>1. Cardinality(S) < Cardinality(T)
          <6> HIDE DEF S, T
          <6>. QED
            BY <1>3, <3>3, <3>4, <4>2, FS_Subset
        <5>2. Cardinality(S) \in Nat /\ Cardinality(T) \in Nat
          BY <1>3, <3>3
        <5>. QED
          BY <2>3, <3>5, <4>2, <5>1, <5>2
      <4>3. CASE S = E
        BY <3>3, <3>4, <4>3
      <4>. QED
        BY <4>1, <4>2, <4>3
    <3>. QED
      BY <2>3, <3>4, <3>5, <3>6
  <2>. QED
    BY <2>4, <2>5
<1>5. Fine(n) /\ f[n] \in SUBSET E
  BY <1>1, <1>4
<1>6. f[n] = E
  BY <1>1, <1>3, <1>5
<1>. QED
  BY <1>2, <1>6 DEF n

--------------------------------------------------------------------------------
\* Where a combatant is put.  A cell comes as far down the scan as there are
\* cells before it, and no two come equally far.
LEMMA Earlier ==
  ASSUME NEW cells \in SUBSET Cells, IsFiniteSet(cells), NEW c \in cells, NEW e \in cells, c # e
  PROVE  Cardinality(ScanOpenCells(cells, c)) # Cardinality(ScanOpenCells(cells, e))
<1> DEFINE P(a) == ScanOpenCells(cells, a)
           Comes(a, b) == a[2] < b[2] \/ (a[2] = b[2] /\ a[1] < b[1])
<1>1. \A a \in cells : P(a) = {b \in cells : Comes(b, a)}
  BY DEF ScanOpenCells
<1>2. \A a \in cells : a[1] \in Int /\ a[2] \in Int
  BY DEF Cells
<1>3. \A a, b \in cells : Comes(a, b) => a \in P(b) /\ a \notin P(a) /\ P(a) \subseteq P(b)
  BY <1>1, <1>2
<1>4. Comes(c, e) \/ Comes(e, c)
  BY <1>2, SameCell
<1>5. \A a, b \in cells : Comes(a, b) => P(a) \in SUBSET P(b) /\ P(a) # P(b)
  BY <1>3
<1>6. \A a \in cells : IsFiniteSet(P(a)) /\ Cardinality(P(a)) \in Nat
  <2>1. \A a \in cells : P(a) \in SUBSET cells
    BY <1>1
  <2>. QED
    BY <2>1, FS_Subset, FS_CardinalityType
<1> HIDE DEF P, Comes
<1>7. \A a, b \in cells : Comes(a, b) => Cardinality(P(a)) # Cardinality(P(b))
  BY <1>5, <1>6, FS_Subset
<1>8. Cardinality(P(c)) # Cardinality(P(e))
  BY <1>4, <1>7
<1>. QED
  BY <1>8 DEF P

LEMMA EveryRank ==
  ASSUME NEW cells \in SUBSET Cells, IsFiniteSet(cells), NEW r \in 0..(Cardinality(cells) - 1)
  PROVE  \E c \in cells : Cardinality(ScanOpenCells(cells, c)) = r
<1> DEFINE n == Cardinality(cells)
           T == 0..(n - 1)
           f == [c \in cells |-> Cardinality(ScanOpenCells(cells, c))]
<1>1. n \in Nat
  BY FS_CardinalityType
<1>2. n # 0
  BY <1>1
<1>3. IsFiniteSet(T) /\ Cardinality(T) = n
  <2>1. IsFiniteSet(0..(n - 1)) /\ Cardinality(0..(n - 1)) = IF 0 > n - 1 THEN 0 ELSE n - 1 - 0 + 1
    <3> HIDE DEF n
    <3> DEFINE m == n - 1
               o == 0
    <3>1. m \in Int /\ o \in Int
      BY <1>1
    <3> HIDE DEF m, o
    <3>2. IsFiniteSet(o..m) /\ Cardinality(o..m) = IF o > m THEN 0 ELSE m - o + 1
      BY <3>1, FS_Interval
    <3>. QED
      BY <3>2 DEF m, o
  <2>. QED
    BY <1>1, <1>2, <2>1
<1>4. ASSUME NEW c \in cells  PROVE Cardinality(ScanOpenCells(cells, c)) \in T
  <2> DEFINE P == ScanOpenCells(cells, c)
  <2>1. P \in SUBSET cells /\ c \notin P
    BY DEF ScanOpenCells, Cells
  <2>2. P # cells
    BY <2>1
  <2> HIDE DEF P
  <2>3. Cardinality(P) \in Nat /\ Cardinality(P) <= n /\ Cardinality(P) # n
    BY <2>1, <2>2, FS_Subset, FS_CardinalityType
  <2>4. Cardinality(P) \in 0..(n - 1)
    <3> HIDE DEF n
    <3>. QED
      BY <1>1, <2>3
  <2>. QED
    BY <2>4 DEF P
<1>5. f \in Injection(cells, T)
  <2>1. f \in [cells -> T]
    BY <1>4
  <2>2. \A a, b \in cells : f[a] = f[b] => a = b
    BY Earlier
  <2> HIDE DEF f, T
  <2>. QED
    BY <2>1, <2>2 DEF Injection, IsInjective
<1> HIDE DEF T, n, f
<1>6. f \in Surjection(cells, T)
  BY <1>3, <1>5, FS_Injection DEF n
<1>7. PICK c \in cells : f[c] = r
  BY <1>6 DEF Surjection, T, n
<1>. QED
  BY <1>7 DEF f

LEMMA Placed ==
  ASSUME NEW cells \in SUBSET Cells, IsFiniteSet(cells), cells # {}
  PROVE  PlaceTokens(cells) \in [Combatants -> cells]
<1> DEFINE n == Cardinality(cells)
<1>1. n \in Nat /\ n # 0
  BY FS_CardinalityType, FS_EmptySet
<1>2. ASSUME NEW i \in Int  PROVE ClusterPosition(cells, i) \in cells
  <2> DEFINE index == IF Roster[i] \in FirstTeam THEN (i - 1) % n ELSE (n - i) % n
  <2>1. index \in 0..(n - 1)
    <3>1. (i - 1) % n \in 0..(n - 1) /\ (n - i) % n \in 0..(n - 1)
      <4> HIDE DEF n
      <4>. QED
        BY <1>1
    <3>. QED
      BY <3>1
  <2>2. ClusterPosition(cells, i) = CHOOSE c \in cells : Cardinality(ScanOpenCells(cells, c)) = index
    BY DEF ClusterPosition
  <2> HIDE DEF index
  <2>3. \E c \in cells : Cardinality(ScanOpenCells(cells, c)) = index
    BY <2>1, EveryRank
  <2>. QED
    BY <2>2, <2>3
<1>3. ASSUME NEW c \in Combatants
      PROVE  \E i \in DOMAIN Roster : Roster[i] = c /\ \A j \in DOMAIN Roster : Roster[j] = c => j <= i
  <2> DEFINE l == Len(Roster)
             Back == {k \in 0..l : l - k \in DOMAIN Roster /\ Roster[l - k] = c}
  <2>1. l \in Nat /\ DOMAIN Roster = 1..l
    BY RosterAssumption
  <2> HIDE DEF l
  <2>2. \A j \in DOMAIN Roster : l - j \in 0..l /\ l - (l - j) = j /\ j \in Int
    BY <2>1
  <2>3. PICK j \in DOMAIN Roster : Roster[j] = c
    BY DEF Combatants, Range
  <2>4. l - j \in Back
    BY <2>2, <2>3
  <2>5. Back \in SUBSET Nat
    BY <2>1
  <2>6. PICK k \in Back : \A m \in Nat : m < k => m \notin Back
    <3> HIDE DEF Back
    <3>. QED
      BY <2>4, <2>5, LeastOf
  <2>7. k \in 0..l /\ l - k \in DOMAIN Roster /\ Roster[l - k] = c
    BY <2>6
  <2>8. ASSUME NEW i \in DOMAIN Roster, Roster[i] = c  PROVE i <= l - k
    <3>1. l - i \in Back /\ l - i \in Nat
      BY <2>1, <2>2, <2>8
    <3>2. ~ (l - i < k)
      BY <2>6, <3>1
    <3>. QED
      BY <2>1, <2>2, <2>7, <3>2
  <2>. QED
    BY <2>7, <2>8
<1>4. ASSUME NEW c \in Combatants
      PROVE  ClusterPosition(cells, CHOOSE i \in DOMAIN Roster : Roster[i] = c /\ \A j \in DOMAIN Roster : Roster[j] = c => j <= i) \in cells
  <2> DEFINE i0 == CHOOSE i \in DOMAIN Roster : Roster[i] = c /\ \A j \in DOMAIN Roster : Roster[j] = c => j <= i
  <2>1. i0 \in DOMAIN Roster
    BY <1>3
  <2>2. i0 \in Int
    BY <2>1, RosterAssumption
  <2> HIDE DEF i0
  <2>3. ClusterPosition(cells, i0) \in cells
    BY <1>2, <2>2
  <2>. QED
    BY <2>3 DEF i0
<1>. QED
  BY <1>4 DEF PlaceTokens

--------------------------------------------------------------------------------
\* A move that was allowed is made on the map it was checked on, or on none
\* that anybody sees.
OnFloor ==
  \/ open = {} /\ token = <<>>
  \/ open # {} /\ drawn > 0 /\ Piece(open, open) /\ token \in [Combatants -> open]

MoverOK(m) ==
  \/ mover[m] = NoMove
  \/ /\ mover[m] \in [pc : {"check"}, map : 1..drawn, cells : SUBSET Grid, from : Grid]
     /\ SameMap(m) => mover[m].cells = open

MapInv ==
  /\ drawn \in 0..MaxMaps /\ open \in SUBSET Grid /\ OnFloor
  /\ DOMAIN mover = Movers /\ \A m \in Movers : MoverOK(m)

LEMMA MapStarts == MapInit => MapInv
BY RadiusAssumption DEF MapInit, MapInv, OnFloor, MoverOK

LEMMA DrawKeepsMap == ASSUME MapInv, DmGenerateCombatMap  PROVE MapInv'
<1>1. /\ drawn \in 0..MaxMaps /\ MaxMaps \in Nat /\ drawn < MaxMaps /\ drawn' = drawn + 1
      /\ open' \in Maps /\ token' = PlaceTokens(open') /\ mover' = mover
      /\ DOMAIN mover = Movers /\ \A m \in Movers : MoverOK(m)
  BY RadiusAssumption DEF MapInv, DmGenerateCombatMap
<1>2. open' \in SUBSET Grid /\ open' # {} /\ Piece(open', open')
  BY <1>1, MapIs
<1>3. open' \in SUBSET Cells /\ IsFiniteSet(open')
  BY <1>2, GridIs, FS_Subset
<1>4. PlaceTokens(open') \in [Combatants -> open']
  BY <1>2, <1>3, Placed
<1>5. OnFloor'
  <2>1. drawn' > 0
    BY <1>1
  <2>. QED
    BY <1>1, <1>2, <1>4, <2>1 DEF OnFloor
<1>6. ASSUME NEW m \in Movers  PROVE MoverOK(m)'
  <2>1. MoverOK(m)
    BY <1>1
  <2>2. CASE mover[m] = NoMove
    BY <1>1, <2>2 DEF MoverOK
  <2>3. CASE mover[m] \in [pc : {"check"}, map : 1..drawn, cells : SUBSET Grid, from : Grid]
    <3>1. mover[m].map \in 1..drawn
      BY <2>3
    <3>2. mover[m].map # drawn'
      BY <1>1, <3>1
    <3>3. mover'[m] \in [pc : {"check"}, map : 1..drawn', cells : SUBSET Grid, from : Grid]
      <4>1. 1..drawn \subseteq 1..drawn'
        BY <1>1
      <4>. QED
        BY <1>1, <2>3, <4>1
    <3>. QED
      BY <1>1, <3>2, <3>3 DEF MoverOK, SameMap
  <2>. QED
    BY <2>1, <2>2, <2>3 DEF MoverOK
<1>7. drawn' \in 0..MaxMaps
  BY <1>1
<1>. QED
  BY <1>1, <1>2, <1>5, <1>6, <1>7 DEF MapInv

LEMMA DiscardKeepsMap == ASSUME MapInv, DiscardMap  PROVE MapInv'
BY DEF MapInv, DiscardMap, OnFloor, MoverOK, SameMap

LEMMA RequestKeepsMap == ASSUME MapInv, NEW m \in Movers, RequestMove(m)  PROVE MapInv'
<1>1. /\ drawn \in 0..MaxMaps /\ open \in SUBSET Grid /\ OnFloor /\ DOMAIN mover = Movers
      /\ \A k \in Movers : MoverOK(k)
      /\ OwnsToken[m] \in DOMAIN token
      /\ mover' = [mover EXCEPT ![m] = [pc |-> "check", map |-> drawn, cells |-> open, from |-> token[OwnsToken[m]]]]
      /\ drawn' = drawn /\ open' = open /\ token' = token
  BY DEF MapInv, RequestMove
<1>2. drawn > 0 /\ token \in [Combatants -> open]
  BY <1>1 DEF OnFloor
<1>3. drawn \in 1..drawn /\ token[OwnsToken[m]] \in Grid
  BY <1>1, <1>2
<1>4. mover'[m] = [pc |-> "check", map |-> drawn, cells |-> open, from |-> token[OwnsToken[m]]]
  BY <1>1
<1>5. MoverOK(m)'
  BY <1>1, <1>3, <1>4 DEF MoverOK, SameMap
<1>6. \A k \in Movers \ {m} : MoverOK(k)'
  BY <1>1 DEF MoverOK, SameMap
<1>7. OnFloor'
  BY <1>1 DEF OnFloor
<1>. QED
  BY <1>1, <1>5, <1>6, <1>7 DEF MapInv

LEMMA MoveKeepsMap == ASSUME MapInv, NEW m \in Movers, MoveToken(m)  PROVE MapInv'
<1>1. /\ drawn \in 0..MaxMaps /\ open \in SUBSET Grid /\ OnFloor /\ DOMAIN mover = Movers
      /\ \A k \in Movers : MoverOK(k)
      /\ mover[m].pc = "check" /\ mover' = [mover EXCEPT ![m] = NoMove]
      /\ drawn' = drawn /\ open' = open
      /\ \/ token' = token
         \/ \E to \in mover[m].cells :
              token' = IF SameMap(m) THEN [token EXCEPT ![OwnsToken[m]] = to] ELSE token
  BY DEF MapInv, MoveToken
<1>2. \A k \in Movers : MoverOK(k)'
  BY <1>1 DEF MoverOK, SameMap
<1>3. OnFloor'
  <2>1. CASE token' = token
    BY <1>1, <2>1 DEF OnFloor
  <2>2. ASSUME NEW to \in mover[m].cells, SameMap(m), token' = [token EXCEPT ![OwnsToken[m]] = to]  PROVE OnFloor'
    <3>1. mover[m] # NoMove
      BY <1>1 DEF NoMove
    <3>2. to \in open
      BY <1>1, <2>2, <3>1 DEF MoverOK
    <3>3. open # {} /\ drawn > 0 /\ Piece(open, open) /\ token \in [Combatants -> open]
      BY <2>2, <1>1 DEF OnFloor, SameMap
    <3>4. token' \in [Combatants -> open]
      BY <2>2, <3>2, <3>3
    <3>. QED
      BY <1>1, <3>3, <3>4 DEF OnFloor
  <2>. QED
    BY <1>1, <2>1, <2>2
<1>. QED
  BY <1>1, <1>2, <1>3 DEF MapInv

LEMMA MapStep == MapInv /\ [MapNext]_mapVars => MapInv'
<1>1. SUFFICES ASSUME MapInv, [MapNext]_mapVars  PROVE MapInv'
  OBVIOUS
<1>2. CASE DmGenerateCombatMap
  BY <1>1, <1>2, DrawKeepsMap
<1>3. CASE DiscardMap
  BY <1>1, <1>3, DiscardKeepsMap
<1>4. CASE \E m \in Movers : RequestMove(m) \/ MoveToken(m)
  BY <1>1, <1>4, RequestKeepsMap, MoveKeepsMap
<1>5. CASE UNCHANGED mapVars
  BY <1>1, <1>5 DEF MapInv, OnFloor, MoverOK, SameMap, mapVars
<1>. QED
  BY <1>1, <1>2, <1>3, <1>4, <1>5 DEF MapNext

LEMMA MapMeets == MapInv => FightersCanMeet
<1>1. SUFFICES ASSUME MapInv, NEW c \in DOMAIN token, NEW d \in DOMAIN token
      PROVE  token[c] \in open /\ token[d] \in Within(Cardinality(open), open, token[c])
  BY DEF FightersCanMeet
<1>2. open \in SUBSET Grid /\ Piece(open, open) /\ token[c] \in open /\ token[d] \in open
  BY <1>1 DEF MapInv, OnFloor
<1>3. IsFiniteSet(open)
  BY <1>2, GridIs, FS_Subset
<1>4. Within(Cardinality(open), open, token[c]) = open
  <2> DEFINE from == token[c]
  <2>1. from \in open
    BY <1>2
  <2> HIDE DEF from
  <2>2. Within(Cardinality(open), open, from) = open
    BY <1>2, <1>3, <2>1, WithinAll
  <2>. QED
    BY <2>2 DEF from
<1>. QED
  BY <1>2, <1>4

\* On every map the generator can draw, whatever is asked for while the map is
\* replaced or discarded, every combatant stands on floor and there is a way
\* from each to every other.
THEOREM FightersMeet == MapSpec => []FightersCanMeet
<1>1. MapInit => MapInv
  BY MapStarts
<1>2. MapInv /\ [MapNext]_mapVars => MapInv'
  BY MapStep
<1>3. MapInv => FightersCanMeet
  BY MapMeets
<1>. QED
  BY <1>1, <1>2, <1>3, PTL DEF MapSpec

--------------------------------------------------------------------------------
(* What a token sees.  Two rays bound an octant: its axis, the cells that   *)
(* are straight ahead, and its diagonal.  Of the light that starts below    *)
(* the diagonal none gets to it, and of the light that ends above the axis  *)
(* none gets there; so each ray is lit, row by row, until its first wall.   *)

LEMMA Upwards ==
  ASSUME NEW n \in Nat, NEW P, 0 \in P, \A i \in 1..n : i - 1 \in P => i \in P
  PROVE  0..n \subseteq P
<1> DEFINE Wrong == {i \in 0..n : i \notin P}
<1>1. SUFFICES ASSUME Wrong # {}  PROVE FALSE
  OBVIOUS
<1>2. PICK k \in Wrong : \A m \in Nat : m < k => m \notin Wrong
  <2>1. Wrong \in SUBSET Nat
    OBVIOUS
  <2> HIDE DEF Wrong
  <2>. QED
    BY <1>1, <2>1, LeastOf
<1>3. k \in 1..n /\ k - 1 \in Nat /\ k - 1 < k /\ k \notin P
  BY <1>2
<1>4. k - 1 \in P
  <2>1. k - 1 \notin Wrong
    <3> HIDE DEF Wrong
    <3>. QED
      BY <1>2, <1>3
  <2>. QED
    BY <1>3, <2>1
<1>. QED
  BY <1>3, <1>4

RowState == [start : Slope, next : Slope, blocked : BOOLEAN, lit : SUBSET Cells, left : BOOLEAN]

\* The cells of an octant from row d on, within the radius.
Wedge(at, t, d) ==
  {c \in Cells : \E e \in Nat, dx \in Int :
     e >= d /\ 0 - e <= dx /\ dx <= 0 /\ InRadius(dx, e) /\ c = Place(at, t, dx, e)}

AxisRay(at, t) == [e \in Nat |-> Place(at, t, 0, e)]
DiagRay(at, t) == [e \in Nat |-> Place(at, t, 0 - e, e)]
AxisFar == {e \in Nat : e < VisionRadius}
DiagFar == {e \in Nat : InRadius(0 - e, e)}

\* From row d on, L has of a ray what is in the radius and before the first wall.
Shows(L, ray, far, cells, d) ==
  \A e \in Nat : e >= d /\ ray[e] \in Grid => (ray[e] \in L <=> e \in far /\ \A k \in d..(e - 1) : ray[k] \in cells)
Hides(L, ray, d) == \A e \in Nat : e >= d => ray[e] \notin L

\* Slopes that are above the axis, and below the diagonal, from row d on.
AboveAxis(s, d) == \A e \in Nat : e >= d => Below(LeftSlope(0, e), s)
BelowDiagonal(s, d) == \A e \in Nat : e >= d => Below(s, RightSlope(0 - e, e))

LEMMA Product == \A a, b \in Nat : a * b >= 0
OBVIOUS

LEMMA SlopesAre ==
  ASSUME NEW d \in Nat \ {0}, NEW dx \in Int, 0 - d <= dx, dx <= 0
  PROVE  /\ LeftSlope(dx, d) \in Slope /\ RightSlope(dx, d) \in Slope
         /\ ~Below(LeftSlope(dx, d), <<0, 1>>)
         /\ dx < 0 => RightSlope(dx, d)[1] >= 1
         /\ Below(<<1, 1>>, LeftSlope(0 - d, d)) /\ ~Below(<<1, 1>>, RightSlope(0 - d, d))
         /\ 0 - d < dx => ~Below(<<1, 1>>, LeftSlope(dx, d))
BY DEF LeftSlope, RightSlope, Slope, Below

LEMMA AxisSlopes ==
  ASSUME NEW d \in Nat \ {0}, NEW dx \in Int, 0 - d <= dx, dx <= 0
  PROVE  /\ AboveAxis(LeftSlope(dx, d), d + 1)
         /\ \A s \in Slope : s[1] >= 1 => ~Below(s, RightSlope(0, d))
<1>1. ASSUME NEW e \in Nat, e >= d + 1  PROVE Below(LeftSlope(0, e), LeftSlope(dx, d))
  <2>1. (0 - dx) * (2 * e - 1) >= 0
    <3>1. 0 - dx \in Nat /\ 2 * e - 1 \in Nat
      BY <1>1
    <3>. QED
      BY <3>1, Product
  <2>2. (1 - 2 * dx) * (2 * e - 1) = (2 * e - 1) + 2 * ((0 - dx) * (2 * e - 1))
    OBVIOUS
  <2>. QED
    BY <1>1, <2>1, <2>2 DEF Below, LeftSlope
<1>2. ASSUME NEW s \in Slope, s[1] >= 1  PROVE ~Below(s, RightSlope(0, d))
  <2>1. s[1] \in Nat /\ s[2] \in Nat /\ s[2] >= 1
    BY <1>2 DEF Slope
  <2>2. s[1] * (2 * d + 1) >= 0
    <3>1. 2 * d + 1 \in Nat
      OBVIOUS
    <3>. QED
      BY <2>1, <3>1, Product
  <2>. QED
    BY <2>1, <2>2 DEF Below, RightSlope
<1>. QED
  BY <1>1, <1>2 DEF AboveAxis

LEMMA DiagSlopes ==
  ASSUME NEW d \in Nat \ {0}, NEW dx \in Int, 0 - d <= dx, dx <= 0
  PROVE  /\ BelowDiagonal(RightSlope(dx, d), d + 1)
         /\ \A s \in Slope : ~Below(<<1, 1>>, s) => ~Below(LeftSlope(0 - d, d), s)
<1>1. ASSUME NEW e \in Nat, e >= d + 1  PROVE Below(RightSlope(dx, d), RightSlope(0 - e, e))
  <2>1. (d + dx) * (2 * e + 1) >= 0
    <3>1. d + dx \in Nat /\ 2 * e + 1 \in Nat
      BY <1>1
    <3>. QED
      BY <3>1, Product
  <2>2. (-1 - 2 * dx) * (2 * e + 1) = (2 * d - 1) * (2 * e + 1) - 2 * ((d + dx) * (2 * e + 1))
    OBVIOUS
  <2>3. (2 * d - 1) * (2 * e + 1) = 4 * (d * e) + 2 * d - 2 * e - 1
    OBVIOUS
  <2>4. (-1 - 2 * (0 - e)) * (2 * d + 1) = 4 * (d * e) + 2 * e - 2 * d - 1
    OBVIOUS
  <2>. QED
    BY <1>1, <2>1, <2>2, <2>3, <2>4 DEF Below, RightSlope
<1>2. ASSUME NEW s \in Slope, ~Below(<<1, 1>>, s)  PROVE ~Below(LeftSlope(0 - d, d), s)
  <2>1. s[1] \in Int /\ s[2] \in Nat /\ s[2] >= 1 /\ s[1] <= s[2]
    BY <1>2 DEF Slope, Below
  <2>2. (s[2] - s[1]) * (2 * d - 1) >= 0
    <3>1. s[2] - s[1] \in Nat /\ 2 * d - 1 \in Nat
      BY <2>1
    <3>. QED
      BY <3>1, Product
  <2>3. (s[2] - s[1]) * (2 * d - 1) = s[2] * (2 * d - 1) - s[1] * (2 * d - 1)
    BY <2>1
  <2>4. (1 - 2 * (0 - d)) * s[2] = s[2] * (2 * d - 1) + 2 * s[2]
    BY <2>1
  <2>. QED
    BY <2>1, <2>2, <2>3, <2>4 DEF Below, LeftSlope
<1>. QED
  BY <1>1, <1>2 DEF BelowDiagonal

\* What an octant is: it swaps the axes or not, and mirrors each of them or not.
LEMMA OctantIs ==
  ASSUME NEW t \in Octants
  PROVE  \/ t[1] \in {1, -1} /\ t[2] = 0 /\ t[3] = 0 /\ t[4] \in {1, -1}
         \/ t[1] = 0 /\ t[2] \in {1, -1} /\ t[3] \in {1, -1} /\ t[4] = 0
BY DEF Octants

LEMMA PlaceIs ==
  ASSUME NEW at \in Grid, NEW t \in Octants, NEW dx \in Int, NEW d \in Int
  PROVE  /\ Place(at, t, dx, d) \in Cells
         /\ at[1] \in Int /\ at[2] \in Int
         /\ \A px, p \in Int : Place(at, t, px, p) = Place(at, t, dx, d) => px = dx /\ p = d
<1>1. at[1] \in Int /\ at[2] \in Int
  BY GridIs DEF Cells
<1>2. \A px, p \in Int :
        /\ Place(at, t, px, p)[1] = at[1] + px * t[1] - p * t[2]
        /\ Place(at, t, px, p)[2] = at[2] + px * t[3] - p * t[4]
        /\ Place(at, t, px, p) = <<at[1] + px * t[1] - p * t[2], at[2] + px * t[3] - p * t[4]>>
  BY DEF Place
<1>3. t[1] \in Int /\ t[2] \in Int /\ t[3] \in Int /\ t[4] \in Int
  BY OctantIs
<1>4. Place(at, t, dx, d) \in Cells
  <2>1. at[1] + dx * t[1] - d * t[2] \in Int /\ at[2] + dx * t[3] - d * t[4] \in Int
    BY <1>1, <1>3
  <2>. QED
    BY <1>2, <2>1 DEF Cells
<1>5. ASSUME NEW px \in Int, NEW p \in Int, Place(at, t, px, p) = Place(at, t, dx, d)
      PROVE  px = dx /\ p = d
  <2>1. /\ at[1] + px * t[1] - p * t[2] = at[1] + dx * t[1] - d * t[2]
        /\ at[2] + px * t[3] - p * t[4] = at[2] + dx * t[3] - d * t[4]
    BY <1>2, <1>5
  <2>2. CASE t[1] \in {1, -1} /\ t[2] = 0 /\ t[3] = 0 /\ t[4] \in {1, -1}
    BY <1>1, <2>1, <2>2
  <2>3. CASE t[1] = 0 /\ t[2] \in {1, -1} /\ t[3] \in {1, -1} /\ t[4] = 0
    BY <1>1, <2>1, <2>3
  <2>. QED
    BY <2>2, <2>3, OctantIs
<1>. QED
  BY <1>1, <1>4, <1>5

\* A ray that has left the grid does not come back.
LEMMA RayIs ==
  ASSUME NEW at \in Grid, NEW t \in Octants, NEW r \in {0, 1}, NEW d \in Nat, NEW e \in Nat, d <= e,
         Place(at, t, 0 - r * e, e) \in Grid
  PROVE  Place(at, t, 0 - r * d, d) \in Grid
<1> DEFINE w == MapWidth - 1
           h == MapHeight - 1
           c == Place(at, t, 0 - r * e, e)
           b == Place(at, t, 0 - r * d, d)
<1>1. at[1] \in 0..w /\ at[2] \in 0..h /\ c[1] \in 0..w /\ c[2] \in 0..h /\ w \in Int /\ h \in Int
  BY GridIs, MapAssumption
<1>2. b \in Cells
  BY PlaceIs
<1>3. /\ c[1] = at[1] + (0 - r * e) * t[1] - e * t[2] /\ c[2] = at[2] + (0 - r * e) * t[3] - e * t[4]
      /\ b[1] = at[1] + (0 - r * d) * t[1] - d * t[2] /\ b[2] = at[2] + (0 - r * d) * t[3] - d * t[4]
  BY DEF Place
<1> HIDE DEF w, h, c, b
<1>4. b[1] \in 0..w /\ b[2] \in 0..h
  <2>1. CASE r = 0
    BY <1>1, <1>3, <2>1, OctantIs
  <2>2. CASE r = 1
    BY <1>1, <1>3, <2>2, OctantIs
  <2>. QED
    BY <2>1, <2>2
<1>. QED
  BY <1>2, <1>4, GridIs DEF w, h, b

\* A look at a cell: it is passed over, or lit if it is in the radius, and then
\* it is the next cell of a wall, the first one behind it, the first of a wall,
\* or one more that is open.
Noticed(at, t, d, end, s, dx) ==
  /\ ~s.left /\ Place(at, t, dx, d) \in Grid
  /\ ~Below(s.start, RightSlope(dx, d)) /\ ~Below(LeftSlope(dx, d), end)

Glow(at, t, d, s, dx) == s.lit \cup (IF InRadius(dx, d) THEN {Place(at, t, dx, d)} ELSE {})

PassedOver(at, t, d, end, s, dx, k) ==
  /\ ~Noticed(at, t, d, end, s, dx)
  /\ k.start = s.start /\ k.next = s.next /\ k.blocked = s.blocked /\ k.lit = s.lit
  /\ k.left = s.left \/ Below(LeftSlope(dx, d), end)

MoreWall(cells, at, t, d, s, dx, k) ==
  /\ s.blocked /\ Place(at, t, dx, d) \notin cells
  /\ k.start = s.start /\ k.next = RightSlope(dx, d) /\ k.blocked /\ k.lit = Glow(at, t, d, s, dx)

BehindWall(cells, at, t, d, s, dx, k) ==
  /\ s.blocked /\ Place(at, t, dx, d) \in cells
  /\ k.start = s.next /\ k.next = s.next /\ ~k.blocked /\ k.lit = Glow(at, t, d, s, dx)

FirstWall(cells, at, t, d, beyond, s, dx, k) ==
  /\ ~s.blocked /\ Place(at, t, dx, d) \notin cells /\ d < VisionRadius
  /\ k.start = s.start /\ k.next = RightSlope(dx, d) /\ k.blocked
  /\ k.lit = Glow(at, t, d, s, dx) \cup Through(beyond, s.start, LeftSlope(dx, d))

MoreFloor(cells, at, t, d, s, dx, k) ==
  /\ ~s.blocked /\ (Place(at, t, dx, d) \in cells \/ d >= VisionRadius)
  /\ k.start = s.start /\ k.next = s.next /\ ~k.blocked /\ k.lit = Glow(at, t, d, s, dx)

Outcome(cells, at, t, d, end, beyond, s, dx, k) ==
  \/ PassedOver(at, t, d, end, s, dx, k)
  \/ /\ Noticed(at, t, d, end, s, dx) /\ k.left = s.left
     /\ \/ MoreWall(cells, at, t, d, s, dx, k)
        \/ BehindWall(cells, at, t, d, s, dx, k)
        \/ FirstWall(cells, at, t, d, beyond, s, dx, k)
        \/ MoreFloor(cells, at, t, d, s, dx, k)

LEMMA ThroughIs ==
  ASSUME NEW beyond \in [Gap -> SUBSET Cells], NEW start \in Slope, NEW end \in Slope
  PROVE  /\ Through(beyond, start, end) \in SUBSET Cells
         /\ Through(beyond, start, end) = {} \/ Through(beyond, start, end) = beyond[<<start, end>>]
         /\ Below(start, end) => Through(beyond, start, end) = {}
         /\ ~Below(start, end) => Through(beyond, start, end) = beyond[<<start, end>>]
<1>1. <<start, end>> \in Gap
  BY DEF Gap
<1>. QED
  BY <1>1 DEF Through

LEMMA LookIs ==
  ASSUME NEW cells, NEW at \in Grid, NEW t \in Octants, NEW d \in 1..VisionRadius, NEW end \in Slope,
         NEW beyond \in [Gap -> SUBSET Cells], NEW s \in RowState, NEW dx \in Int, 0 - d <= dx, dx <= 0
  PROVE  /\ Look(cells, at, t, d, end, beyond, s, dx) \in RowState
         /\ Outcome(cells, at, t, d, end, beyond, s, dx, Look(cells, at, t, d, end, beyond, s, dx))
<1> DEFINE c == Place(at, t, dx, d)
           k == Look(cells, at, t, d, end, beyond, s, dx)
           lit == IF InRadius(dx, d) THEN s.lit \cup {c} ELSE s.lit
           left == LeftSlope(dx, d)
           right == RightSlope(dx, d)
           more == Through(beyond, s.start, left)
<1>1. d \in Nat \ {0} /\ VisionRadius \in Nat
  BY RadiusAssumption
<1>2. c \in Cells /\ left \in Slope /\ right \in Slope
  BY <1>1, PlaceIs, SlopesAre
<1>3. /\ s.start \in Slope /\ s.next \in Slope /\ s.blocked \in BOOLEAN /\ s.lit \in SUBSET Cells /\ s.left \in BOOLEAN
      /\ s = [start |-> s.start, next |-> s.next, blocked |-> s.blocked, lit |-> s.lit, left |-> s.left]
  BY DEF RowState
<1>4. lit \in SUBSET Cells /\ lit = Glow(at, t, d, s, dx)
  BY <1>2, <1>3 DEF Glow
<1>5. more \in SUBSET Cells
  BY <1>2, <1>3, ThroughIs
<1>6. k = IF s.left \/ c \notin Grid \/ Below(s.start, right) THEN s
          ELSE IF Below(left, end) THEN [s EXCEPT !.left = TRUE]
          ELSE IF s.blocked /\ c \notin cells THEN [s EXCEPT !.lit = lit, !.next = right]
          ELSE IF s.blocked THEN [s EXCEPT !.lit = lit, !.blocked = FALSE, !.start = s.next]
          ELSE IF c \notin cells /\ d < VisionRadius
            THEN [s EXCEPT !.lit = lit \cup more, !.blocked = TRUE, !.next = right]
          ELSE [s EXCEPT !.lit = lit]
  BY DEF Look
<1>7. Noticed(at, t, d, end, s, dx) <=> ~(s.left \/ c \notin Grid \/ Below(s.start, right)) /\ ~Below(left, end)
  BY DEF Noticed
<1> HIDE DEF c, k, lit, left, right, more
<1>8. CASE s.left \/ c \notin Grid \/ Below(s.start, right)
  <2>1. k = s
    BY <1>6, <1>8
  <2>. QED
    BY <1>7, <1>8, <2>1 DEF Outcome, PassedOver, k
<1>9. CASE ~(s.left \/ c \notin Grid \/ Below(s.start, right)) /\ Below(left, end)
  <2>1. k = [s EXCEPT !.left = TRUE]
    BY <1>6, <1>9
  <2>2. k \in RowState
    BY <1>3, <2>1 DEF RowState
  <2>3. k.start = s.start /\ k.next = s.next /\ k.blocked = s.blocked /\ k.lit = s.lit
    BY <1>3, <2>1
  <2>. QED
    BY <1>7, <1>9, <2>2, <2>3 DEF Outcome, PassedOver, k, left
<1>10. CASE Noticed(at, t, d, end, s, dx) /\ s.blocked /\ c \notin cells
  <2>1. k = [s EXCEPT !.lit = lit, !.next = right]
    BY <1>6, <1>7, <1>10
  <2>2. k \in RowState
    BY <1>2, <1>3, <1>4, <2>1 DEF RowState
  <2>3. k.start = s.start /\ k.next = right /\ k.blocked = s.blocked /\ k.lit = lit /\ k.left = s.left
    BY <1>3, <2>1
  <2>. QED
    BY <1>4, <1>10, <2>2, <2>3 DEF Outcome, MoreWall, k, c, right
<1>11. CASE Noticed(at, t, d, end, s, dx) /\ s.blocked /\ c \in cells
  <2>1. k = [s EXCEPT !.lit = lit, !.blocked = FALSE, !.start = s.next]
    BY <1>6, <1>7, <1>11
  <2>2. k \in RowState
    BY <1>2, <1>3, <1>4, <2>1 DEF RowState
  <2>3. k.start = s.next /\ k.next = s.next /\ k.blocked = FALSE /\ k.lit = lit /\ k.left = s.left
    BY <1>3, <2>1
  <2>. QED
    BY <1>4, <1>11, <2>2, <2>3 DEF Outcome, BehindWall, k, c
<1>12. CASE Noticed(at, t, d, end, s, dx) /\ ~s.blocked /\ c \notin cells /\ d < VisionRadius
  <2>1. k = [s EXCEPT !.lit = lit \cup more, !.blocked = TRUE, !.next = right]
    BY <1>6, <1>7, <1>12
  <2>2. k \in RowState
    BY <1>2, <1>3, <1>4, <1>5, <2>1 DEF RowState
  <2>3. k.start = s.start /\ k.next = right /\ k.blocked = TRUE /\ k.lit = lit \cup more /\ k.left = s.left
    BY <1>3, <2>1
  <2>. QED
    BY <1>4, <1>12, <2>2, <2>3 DEF Outcome, FirstWall, k, c, right, more, left
<1>13. CASE Noticed(at, t, d, end, s, dx) /\ ~s.blocked /\ ~(c \notin cells /\ d < VisionRadius)
  <2>1. k = [s EXCEPT !.lit = lit]
    BY <1>6, <1>7, <1>13
  <2>2. k \in RowState
    BY <1>3, <1>4, <2>1 DEF RowState
  <2>3. k.start = s.start /\ k.next = s.next /\ k.blocked = s.blocked /\ k.lit = lit /\ k.left = s.left
    BY <1>3, <2>1
  <2>4. c \in cells \/ d >= VisionRadius
    BY <1>1, <1>13
  <2>. QED
    BY <1>4, <1>13, <2>2, <2>3, <2>4 DEF Outcome, MoreFloor, k, c
<1>. QED
  BY <1>7, <1>8, <1>9, <1>10, <1>11, <1>12, <1>13

\* A row, cell by cell.
Scans(f, cells, at, t, d, start, end, beyond) ==
  /\ f[0] = Unlit(start)
  /\ \A i \in 1..(d + 1) : Outcome(cells, at, t, d, end, beyond, f[i - 1], i - d - 1, f[i])
  /\ ScanRow(cells, at, t, d, start, end, beyond) = f[d + 1]

LEMMA ScanIs ==
  ASSUME NEW cells, NEW at \in Grid, NEW t \in Octants, NEW d \in 1..VisionRadius, NEW start \in Slope, NEW end \in Slope,
         NEW beyond \in [Gap -> SUBSET Cells]
  PROVE  \E f \in [0..(d + 1) -> RowState] : Scans(f, cells, at, t, d, start, end, beyond)
<1> DEFINE n == d + 1
           Lk(i, s) == Look(cells, at, t, d, end, beyond, s, i - d - 1)
           x0 == Unlit(start)
           Rows(f) == f = [i \in 0..(d + 1) |-> IF i = 0 THEN x0 ELSE Lk(i, f[i - 1])]
           row == CHOOSE f : Rows(f)
           g == [i \in 1..n |-> [s \in RowState |-> Lk(i, s)]]
<1>1. d \in Nat \ {0} /\ n \in Nat /\ d \in Int
  BY RadiusAssumption
<1>2. x0 \in RowState
  BY DEF Unlit, RowState, Slope
<1>3. ASSUME NEW i \in 1..n, NEW s \in RowState
      PROVE  Lk(i, s) \in RowState /\ Outcome(cells, at, t, d, end, beyond, s, i - d - 1, Lk(i, s))
  <2> DEFINE dx == i - d - 1
  <2>1. dx \in Int /\ 0 - d <= dx /\ dx <= 0
    BY <1>1
  <2> HIDE DEF dx
  <2>2. /\ Look(cells, at, t, d, end, beyond, s, dx) \in RowState
        /\ Outcome(cells, at, t, d, end, beyond, s, dx, Look(cells, at, t, d, end, beyond, s, dx))
    BY <2>1, LookIs
  <2>. QED
    BY <2>2 DEF dx
<1>4. \A i \in 1..n : \A s \in RowState : g[i][s] = Lk(i, s)
  OBVIOUS
<1>5. ScanRow(cells, at, t, d, start, end, beyond) = row[d + 1]
  BY DEF ScanRow
<1> HIDE DEF g, x0, Lk
<1>6. \E f : Rows(f)
  <2>1. Keeps(g, n, RowState)
    BY <1>3, <1>4 DEF Keeps
  <2> HIDE DEF n
  <2>2. PICK f \in [0..n -> RowState] : Iterates(f, x0, n, g)
    BY <1>1, <1>2, <2>1, Chain
  <2> USE DEF n
  <2>3. f[0] = x0 /\ \A i \in 1..n : f[i] = g[i][f[i - 1]]
    BY <2>2 DEF Iterates
  <2>4. \A i \in 0..n : f[i] = IF i = 0 THEN x0 ELSE Lk(i, f[i - 1])
    <3>1. ASSUME NEW i \in 0..n, i # 0  PROVE f[i] = Lk(i, f[i - 1])
      <4>1. i \in 1..n /\ i - 1 \in 0..n
        BY <1>1, <3>1
      <4>. QED
        BY <1>4, <2>3, <4>1
    <3>. QED
      BY <2>3, <3>1
  <2>5. Rows(f)
    BY <2>4
  <2>. QED
    BY <2>5
<1>7. Rows(row)
  BY <1>6
<1>8. row = [i \in 0..n |-> row[i]] /\ \A i \in 0..n : row[i] = IF i = 0 THEN x0 ELSE Lk(i, row[i - 1])
  BY <1>7
<1> HIDE DEF row, Rows
<1> DEFINE P == {i \in 0..n : row[i] \in RowState}
<1>9. 0..n \subseteq P
  <2>1. 0 \in P
    BY <1>1, <1>2, <1>8
  <2>2. ASSUME NEW i \in 1..n, i - 1 \in P  PROVE i \in P
    <3>1. i \in 0..n /\ i # 0 /\ row[i - 1] \in RowState
      BY <1>1, <2>2
    <3>. QED
      BY <1>3, <1>8, <3>1
  <2> HIDE DEF P, n
  <2>. QED
    BY <1>1, <2>1, <2>2, Upwards
<1>10. row \in [0..n -> RowState]
  BY <1>8, <1>9
<1>11. row[0] = x0
  <2>1. 0 \in 0..n
    BY <1>1
  <2>. QED
    BY <1>8, <2>1
<1>12. ASSUME NEW i \in 1..n  PROVE Outcome(cells, at, t, d, end, beyond, row[i - 1], i - d - 1, row[i])
  <2>1. i \in 0..n /\ i # 0 /\ i - 1 \in 0..n
    BY <1>1
  <2>2. row[i] = Lk(i, row[i - 1]) /\ row[i - 1] \in RowState
    BY <1>8, <1>10, <2>1
  <2>. QED
    BY <1>3, <2>2
<1>13. Scans(row, cells, at, t, d, start, end, beyond)
  BY <1>5, <1>11, <1>12 DEF Scans, x0
<1>. QED
  BY <1>10, <1>13

\* What the rows from d on light, through any gap.
WedgeGood(B, at, t, d) == \A start, end \in Slope : B[<<start, end>>] \subseteq Wedge(at, t, d)

AxisGood(B, cells, at, t, d) ==
  \A start, end \in Slope : start[1] >= 1 =>
    /\ end = <<0, 1>> => Shows(B[<<start, end>>], AxisRay(at, t), AxisFar, cells, d)
    /\ AboveAxis(end, d) => Hides(B[<<start, end>>], AxisRay(at, t), d)

DiagGood(B, cells, at, t, d) ==
  \A start, end \in Slope :
    /\ start = <<1, 1>> /\ ~Below(start, end) => Shows(B[<<start, end>>], DiagRay(at, t), DiagFar, cells, d)
    /\ BelowDiagonal(start, d) => Hides(B[<<start, end>>], DiagRay(at, t), d)

\* Light that a look adds is that of the cell, or comes through the gap before a
\* wall.
LEMMA LookAdds ==
  ASSUME NEW cells, NEW at, NEW t, NEW d, NEW end, NEW beyond \in [Gap -> SUBSET Cells], NEW s \in RowState, NEW dx,
         LeftSlope(dx, d) \in Slope, NEW k, Outcome(cells, at, t, d, end, beyond, s, dx, k), NEW c \in k.lit
  PROVE  \/ c \in s.lit
         \/ c = Place(at, t, dx, d) /\ InRadius(dx, d) /\ Noticed(at, t, d, end, s, dx)
         \/ c \in beyond[<<s.start, LeftSlope(dx, d)>>]
<1>1. c \in Glow(at, t, d, s, dx) => c \in s.lit \/ (c = Place(at, t, dx, d) /\ InRadius(dx, d))
  BY DEF Glow
<1>2. s.start \in Slope
  BY DEF RowState
<1>3. c \in Through(beyond, s.start, LeftSlope(dx, d)) => c \in beyond[<<s.start, LeftSlope(dx, d)>>]
  BY <1>2, ThroughIs
<1>. QED
  BY <1>1, <1>3 DEF Outcome, PassedOver, MoreWall, BehindWall, FirstWall, MoreFloor

LEMMA RowSteps ==
  ASSUME NEW d \in 1..VisionRadius, NEW f \in [0..(d + 1) -> RowState], NEW i \in 1..(d + 1)
  PROVE  /\ d \in Nat \ {0} /\ d + 1 \in Nat /\ i - d - 1 \in Int /\ 0 - d <= i - d - 1 /\ i - d - 1 <= 0
         /\ i \in 0..(d + 1) /\ i - 1 \in 0..(d + 1) /\ f[i] \in RowState /\ f[i - 1] \in RowState
         /\ LeftSlope(i - d - 1, d) \in Slope /\ RightSlope(i - d - 1, d) \in Slope
<1> DEFINE dx == i - d - 1
<1>1. d \in Nat \ {0} /\ d + 1 \in Nat
  BY RadiusAssumption
<1>2. dx \in Int /\ 0 - d <= dx /\ dx <= 0
  BY <1>1
<1> HIDE DEF dx
<1>3. LeftSlope(dx, d) \in Slope /\ RightSlope(dx, d) \in Slope
  BY <1>1, <1>2, SlopesAre
<1> USE DEF dx
<1>4. i \in 0..(d + 1) /\ i - 1 \in 0..(d + 1)
  BY <1>1
<1>. QED
  BY <1>1, <1>2, <1>3, <1>4

LEMMA RowInWedge ==
  ASSUME NEW cells, NEW at \in Grid, NEW t \in Octants, NEW d \in 1..VisionRadius, NEW start \in Slope, NEW end \in Slope,
         NEW beyond \in [Gap -> SUBSET Cells], WedgeGood(beyond, at, t, d + 1),
         NEW f \in [0..(d + 1) -> RowState], Scans(f, cells, at, t, d, start, end, beyond)
  PROVE  f[d + 1].lit \subseteq Wedge(at, t, d)
<1> DEFINE n == d + 1
           P == {i \in 0..n : f[i].lit \subseteq Wedge(at, t, d)}
<1>1. n \in Nat /\ d \in Nat
  BY RadiusAssumption
<1>2. 0 \in P
  BY <1>1 DEF Scans, Unlit
<1>3. Wedge(at, t, d + 1) \subseteq Wedge(at, t, d)
  BY <1>1 DEF Wedge
<1>4. ASSUME NEW i \in 1..n, i - 1 \in P  PROVE i \in P
  <2> DEFINE dx == i - d - 1
  <2>1. /\ dx \in Int /\ 0 - d <= dx /\ dx <= 0 /\ f[i - 1] \in RowState /\ f[i] \in RowState
        /\ LeftSlope(dx, d) \in Slope /\ i \in 0..n
    BY RowSteps
  <2>2. Outcome(cells, at, t, d, end, beyond, f[i - 1], dx, f[i])
    BY DEF Scans
  <2>3. f[i - 1].lit \subseteq Wedge(at, t, d)
    BY <1>4
  <2> HIDE DEF dx
  <2>4. ASSUME NEW c \in f[i].lit  PROVE c \in Wedge(at, t, d)
    <3>1. \/ c \in f[i - 1].lit
          \/ c = Place(at, t, dx, d) /\ InRadius(dx, d)
          \/ c \in beyond[<<f[i - 1].start, LeftSlope(dx, d)>>]
      BY <2>1, <2>2, LookAdds
    <3>2. f[i - 1].start \in Slope
      BY <2>1 DEF RowState
    <3>3. Place(at, t, dx, d) \in Cells
      BY <1>1, <2>1, PlaceIs
    <3>4. CASE c = Place(at, t, dx, d) /\ InRadius(dx, d)
      BY <1>1, <2>1, <3>3, <3>4 DEF Wedge
    <3>5. CASE c \in beyond[<<f[i - 1].start, LeftSlope(dx, d)>>]
      BY <1>3, <2>1, <3>2, <3>5 DEF WedgeGood
    <3>. QED
      BY <2>3, <3>1, <3>4, <3>5
  <2>. QED
    BY <2>1, <2>4
<1>5. 0..n \subseteq P
  <2> HIDE DEF P, n
  <2>. QED
    BY <1>1, <1>2, <1>4, Upwards
<1>. QED
  BY <1>1, <1>5

LEMMA RayCells ==
  ASSUME NEW at \in Grid, NEW t \in Octants, NEW e \in Nat
  PROVE  /\ AxisRay(at, t)[e] = Place(at, t, 0, e) /\ DiagRay(at, t)[e] = Place(at, t, 0 - e, e)
         /\ \A dx \in Int, d \in Nat : Place(at, t, dx, d) = AxisRay(at, t)[e] => dx = 0 /\ d = e
         /\ \A dx \in Int, d \in Nat : Place(at, t, dx, d) = DiagRay(at, t)[e] => dx = 0 - e /\ d = e
<1>1. AxisRay(at, t)[e] = Place(at, t, 0, e) /\ DiagRay(at, t)[e] = Place(at, t, 0 - e, e)
  BY DEF AxisRay, DiagRay
<1> DEFINE z == 0
           m == 0 - e
<1>2. z \in Int /\ m \in Int
  OBVIOUS
<1> HIDE DEF z, m
<1>3. \A dx, d \in Int : Place(at, t, dx, d) = Place(at, t, z, e) => dx = z /\ d = e
  BY <1>2, PlaceIs
<1>4. \A dx, d \in Int : Place(at, t, dx, d) = Place(at, t, m, e) => dx = m /\ d = e
  BY <1>2, PlaceIs
<1>. QED
  BY <1>1, <1>3, <1>4 DEF z, m

\* A start above the axis stays above it, until the axis itself is a wall.
LEMMA AxisStarts ==
  ASSUME NEW cells, NEW at \in Grid, NEW t \in Octants, NEW d \in 1..VisionRadius, NEW start \in Slope, NEW end \in Slope,
         NEW beyond \in [Gap -> SUBSET Cells], start[1] >= 1,
         NEW f \in [0..(d + 1) -> RowState], Scans(f, cells, at, t, d, start, end, beyond)
  PROVE  \A i \in 0..(d + 1) : f[i].start[1] >= 1 /\ (f[i].blocked /\ i <= d => f[i].next[1] >= 1)
<1> DEFINE n == d + 1
           P == {i \in 0..n : f[i].start[1] >= 1 /\ (f[i].blocked /\ i <= d => f[i].next[1] >= 1)}
<1>1. n \in Nat /\ d \in Nat \ {0}
  BY RadiusAssumption
<1>2. 0 \in P
  BY <1>1 DEF Scans, Unlit
<1>3. ASSUME NEW i \in 1..n, i - 1 \in P  PROVE i \in P
  <2> DEFINE dx == i - d - 1
             s == f[i - 1]
             k == f[i]
  <2>1. dx \in Int /\ 0 - d <= dx /\ dx <= 0 /\ i \in 0..n
    BY RowSteps
  <2>2. Outcome(cells, at, t, d, end, beyond, s, dx, k)
    BY DEF Scans
  <2>3. s.start[1] >= 1 /\ (s.blocked => s.next[1] >= 1)
    BY <1>1, <1>3
  <2>4. i <= d => dx < 0
    BY <1>1, <2>1
  <2> HIDE DEF dx
  <2>5. i <= d => RightSlope(dx, d)[1] >= 1
    BY <1>1, <2>1, <2>4, SlopesAre
  <2> HIDE DEF s, k
  <2>6. k.start[1] >= 1 /\ (k.blocked /\ i <= d => k.next[1] >= 1)
    BY <2>2, <2>3, <2>5 DEF Outcome, PassedOver, MoreWall, BehindWall, FirstWall, MoreFloor
  <2>. QED
    BY <2>1, <2>6 DEF k
<1>4. 0..n \subseteq P
  <2> HIDE DEF P, n
  <2>. QED
    BY <1>1, <1>2, <1>3, Upwards
<1>. QED
  BY <1>4

\* Before it gets to the axis a row lights nothing of it.
LEMMA AxisBefore ==
  ASSUME NEW cells, NEW at \in Grid, NEW t \in Octants, NEW d \in 1..VisionRadius, NEW start \in Slope, NEW end \in Slope,
         NEW beyond \in [Gap -> SUBSET Cells], start[1] >= 1, AxisGood(beyond, cells, at, t, d + 1),
         WedgeGood(beyond, at, t, d + 1),
         NEW f \in [0..(d + 1) -> RowState], Scans(f, cells, at, t, d, start, end, beyond)
  PROVE  /\ \A i \in 0..d : Hides(f[i].lit, AxisRay(at, t), d)
         /\ \A c \in f[d + 1].lit :
              \/ c \in f[d].lit
              \/ c = Place(at, t, 0, d) /\ InRadius(0, d) /\ Noticed(at, t, d, end, f[d], 0)
              \/ \A e \in Nat : e >= d => AxisRay(at, t)[e] # c
<1> DEFINE n == d + 1
           ray == AxisRay(at, t)
           P == {i \in 0..n : i <= d => Hides(f[i].lit, ray, d)}
<1>1. n \in Nat /\ d \in Nat \ {0}
  BY RadiusAssumption
<1>2. 0 \in P
  BY <1>1 DEF Scans, Unlit, Hides
<1>3. ASSUME NEW i \in 1..n, NEW c \in f[i].lit
      PROVE  \/ c \in f[i - 1].lit
             \/ c = Place(at, t, i - d - 1, d) /\ InRadius(i - d - 1, d) /\ Noticed(at, t, d, end, f[i - 1], i - d - 1)
             \/ \A e \in Nat : e >= d => ray[e] # c
  <2> DEFINE dx == i - d - 1
             s == f[i - 1]
             left == LeftSlope(dx, d)
  <2>1. /\ dx \in Int /\ 0 - d <= dx /\ dx <= 0 /\ s \in RowState /\ f[i] \in RowState
        /\ left \in Slope /\ i - 1 \in 0..n
    BY RowSteps
  <2>2. Outcome(cells, at, t, d, end, beyond, s, dx, f[i])
    BY DEF Scans
  <2>3. s.start[1] >= 1 /\ s.start \in Slope
    BY <2>1, AxisStarts DEF RowState
  <2> HIDE DEF dx, s
  <2>4. \/ c \in s.lit
        \/ c = Place(at, t, dx, d) /\ InRadius(dx, d) /\ Noticed(at, t, d, end, s, dx)
        \/ c \in beyond[<<s.start, left>>]
    BY <2>1, <2>2, LookAdds
  <2>5. AboveAxis(left, d + 1)
    BY <1>1, <2>1, AxisSlopes
  <2> HIDE DEF left
  <2>6. Hides(beyond[<<s.start, left>>], ray, d + 1)
    BY <2>1, <2>3, <2>5 DEF AxisGood
  <2>7. beyond[<<s.start, left>>] \subseteq Wedge(at, t, d + 1)
    BY <2>1, <2>3 DEF WedgeGood
  <2>8. ASSUME c \in beyond[<<s.start, left>>], NEW e \in Nat, e >= d  PROVE ray[e] # c
    <3>1. CASE e >= d + 1
      BY <2>6, <2>8, <3>1 DEF Hides
    <3>2. CASE e = d
      <4>1. PICK p \in Nat, px \in Int : p >= d + 1 /\ c = Place(at, t, px, p)
        BY <2>7, <2>8 DEF Wedge
      <4>2. p # e
        BY <1>1, <3>2, <4>1
      <4>. QED
        BY <4>1, <4>2, RayCells
    <3>. QED
      BY <1>1, <2>8, <3>1, <3>2
  <2>. QED
    BY <2>4, <2>8 DEF dx, s
<1>4. ASSUME NEW i \in 1..n, i - 1 \in P  PROVE i \in P
  <2>1. i \in 0..n /\ i - 1 <= d
    BY <1>1
  <2>2. Hides(f[i - 1].lit, ray, d)
    BY <1>4, <2>1
  <2>3. ASSUME i <= d, NEW e \in Nat, e >= d, ray[e] \in f[i].lit  PROVE FALSE
    <3>1. ray[e] \notin f[i - 1].lit
      BY <2>2, <2>3 DEF Hides
    <3>2. ray[e] = Place(at, t, i - d - 1, d)
      BY <1>3, <2>3, <3>1
    <3>3. i - d - 1 \in Int /\ i - d - 1 # 0
      BY <1>1, <2>3
    <3>. QED
      BY <1>1, <3>2, <3>3, RayCells
  <2>. QED
    BY <2>1, <2>3 DEF Hides
<1>5. 0..n \subseteq P
  <2> HIDE DEF P, n
  <2>. QED
    BY <1>1, <1>2, <1>4, Upwards
<1>6. \A i \in 0..d : Hides(f[i].lit, ray, d)
  BY <1>1, <1>5
<1>7. n \in 1..n /\ n - 1 = d /\ n - d - 1 = 0
  BY <1>1
<1>8. ASSUME NEW c \in f[d + 1].lit
      PROVE  \/ c \in f[d].lit
             \/ c = Place(at, t, 0, d) /\ InRadius(0, d) /\ Noticed(at, t, d, end, f[d], 0)
             \/ \A e \in Nat : e >= d => ray[e] # c
  BY <1>3, <1>7
<1>. QED
  BY <1>6, <1>8

LEMMA OneMore ==
  ASSUME NEW L, NEW ray, NEW far, NEW cells, NEW d \in Nat, ray[d] \in Grid => (ray[d] \in L <=> d \in far),
         \A e \in Nat : e >= d + 1 /\ ray[e] \in Grid =>
           (ray[e] \in L <=> e \in far /\ ray[d] \in cells /\ \A k \in (d + 1)..(e - 1) : ray[k] \in cells)
  PROVE  Shows(L, ray, far, cells, d)
<1>1. ASSUME NEW e \in Nat, e >= d, ray[e] \in Grid
      PROVE  ray[e] \in L <=> e \in far /\ \A k \in d..(e - 1) : ray[k] \in cells
  <2>1. CASE e = d
    BY <1>1, <2>1
  <2>2. CASE e # d
    <3>1. e >= d + 1 /\ d..(e - 1) = {d} \cup ((d + 1)..(e - 1))
      BY <1>1, <2>2
    <3>. QED
      BY <1>1, <3>1
  <2>. QED
    BY <2>1, <2>2
<1>. QED
  BY <1>1 DEF Shows

\* Rows further out have nothing of the rays in this one.
LEMMA RaysAhead ==
  ASSUME NEW at \in Grid, NEW t \in Octants, NEW d \in Nat, NEW L, L \subseteq Wedge(at, t, d + 1)
  PROVE  AxisRay(at, t)[d] \notin L /\ DiagRay(at, t)[d] \notin L
<1>1. ASSUME NEW c \in L  PROVE c # AxisRay(at, t)[d] /\ c # DiagRay(at, t)[d]
  <2>1. PICK e \in Nat, dx \in Int : e >= d + 1 /\ c = Place(at, t, dx, e)
    BY <1>1 DEF Wedge
  <2>2. e # d
    BY <2>1
  <2>3. c = AxisRay(at, t)[d] \/ c = DiagRay(at, t)[d] => e = d
    BY <2>1, RayCells, SMTT(30)
  <2>. QED
    BY <2>2, <2>3
<1>. QED
  BY <1>1

LEMMA HidesAhead ==
  ASSUME NEW at \in Grid, NEW t \in Octants, NEW d \in Nat, NEW L, L \subseteq Wedge(at, t, d + 1)
  PROVE  /\ Hides(L, AxisRay(at, t), d + 1) => Hides(L, AxisRay(at, t), d)
         /\ Hides(L, DiagRay(at, t), d + 1) => Hides(L, DiagRay(at, t), d)
<1>1. \A e \in Nat : e >= d <=> e = d \/ e >= d + 1
  OBVIOUS
<1>. QED
  BY <1>1, RaysAhead DEF Hides

LEMMA FarIs ==
  ASSUME NEW e \in Nat
  PROVE  /\ InRadius(0, e) <=> e \in AxisFar
         /\ e \in AxisFar => e < VisionRadius
         /\ e \in DiagFar => e < VisionRadius
         /\ InRadius(0 - e, e) <=> e \in DiagFar
<1> DEFINE r == VisionRadius
           m == 0 - e
<1>1. r \in Nat \ {0}
  BY RadiusAssumption
<1> HIDE DEF r
<1>2. e < r => e * e < r * r
  <2>1. ASSUME e < r  PROVE (r - e - 1) * (r + e) >= 0
    <3>1. r - e - 1 \in Nat /\ r + e \in Nat
      BY <1>1, <2>1
    <3>. QED
      BY <3>1, Product
  <2>2. (r - e - 1) * (r + e) = r * r - e * e - (r + e)
    BY <1>1
  <2>. QED
    BY <1>1, <2>1, <2>2
<1>3. e >= r => e * e >= r * r
  <2>1. ASSUME e >= r  PROVE (e - r) * (e + r) >= 0
    <3>1. e - r \in Nat /\ e + r \in Nat
      BY <1>1, <2>1
    <3>. QED
      BY <3>1, Product
  <2>2. (e - r) * (e + r) = e * e - r * r
    BY <1>1
  <2>. QED
    BY <1>1, <2>1, <2>2
<1>4. m * m = e * e /\ e * e \in Nat /\ r * r \in Nat /\ 0 * 0 = 0
  BY <1>1, Product
<1>5. e < r <=> e * e < r * r
  BY <1>1, <1>2, <1>3
<1> HIDE DEF m
<1>6. InRadius(0, e) <=> e * e < r * r
  BY <1>4 DEF InRadius, r
<1>7. InRadius(m, e) <=> e * e + e * e < r * r
  BY <1>4 DEF InRadius, r
<1>. QED
  BY <1>1, <1>4, <1>5, <1>6, <1>7 DEF AxisFar, DiagFar, r, m

\* The axis is the last cell of a row, and when the light goes down to it no
\* cell of the row is past the light.
LEMMA AxisEnds ==
  ASSUME NEW cells, NEW at \in Grid, NEW t \in Octants, NEW d \in 1..VisionRadius, NEW start \in Slope, NEW end \in Slope,
         NEW beyond \in [Gap -> SUBSET Cells], start[1] >= 1, AxisGood(beyond, cells, at, t, d + 1),
         WedgeGood(beyond, at, t, d + 1), end = <<0, 1>>, AxisRay(at, t)[d] \in Grid,
         NEW f \in [0..(d + 1) -> RowState], Scans(f, cells, at, t, d, start, end, beyond)
  PROVE  /\ AxisRay(at, t)[d] \in f[d + 1].lit <=> d \in AxisFar
         /\ Hides(f[d + 1].lit, AxisRay(at, t), d + 1)
         /\ d < VisionRadius => (~f[d + 1].blocked <=> AxisRay(at, t)[d] \in cells)
<1> DEFINE n == d + 1
           ray == AxisRay(at, t)
           P == {i \in 0..n : f[i].left = FALSE}
           k == f[d + 1]
           s == f[d]
           z == 0
<1>1. n \in Nat /\ d \in Nat \ {0} /\ d \in 0..n /\ n \in 1..n /\ n - 1 = d /\ n - d - 1 = 0 /\ d \in 0..d
  BY RadiusAssumption
<1>2. 0 \in P
  BY <1>1 DEF Scans, Unlit
<1>3. ASSUME NEW i \in 1..n, i - 1 \in P  PROVE i \in P
  <2> DEFINE dx == i - d - 1
  <2>1. dx \in Int /\ 0 - d <= dx /\ dx <= 0 /\ i \in 0..n /\ f[i] \in RowState /\ f[i - 1].left = FALSE
    BY <1>3, RowSteps
  <2>2. Outcome(cells, at, t, d, end, beyond, f[i - 1], dx, f[i])
    BY DEF Scans
  <2> HIDE DEF dx
  <2>3. ~Below(LeftSlope(dx, d), end)
    BY <1>1, <2>1, SlopesAre
  <2>4. ~f[i].left
    BY <2>1, <2>2, <2>3 DEF Outcome, PassedOver
  <2>. QED
    BY <2>1, <2>4 DEF RowState
<1>4. 0..n \subseteq P
  <2> HIDE DEF P, n
  <2>. QED
    BY <1>1, <1>2, <1>3, Upwards
<1>5. s.left = FALSE /\ s \in RowState /\ k \in RowState
  BY <1>1, <1>4
<1>6. s.start \in Slope /\ s.start[1] >= 1
  BY <1>1, <1>5, AxisStarts DEF RowState
<1>7. Outcome(cells, at, t, d, end, beyond, s, z, k)
  BY <1>1 DEF Scans
<1>8. ray[d] = Place(at, t, z, d) /\ \A e \in Nat : ray[e] = Place(at, t, z, d) => e = d
  BY <1>1, RayCells
<1>9. /\ \A e \in Nat : e >= d => ray[e] \notin s.lit
      /\ \A c \in k.lit :
           \/ c \in s.lit
           \/ c = Place(at, t, z, d) /\ InRadius(z, d)
           \/ \A e \in Nat : e >= d => ray[e] # c
  <2>1. /\ \A i \in 0..d : Hides(f[i].lit, AxisRay(at, t), d)
        /\ \A c \in f[d + 1].lit :
             \/ c \in f[d].lit
             \/ c = Place(at, t, 0, d) /\ InRadius(0, d) /\ Noticed(at, t, d, end, f[d], 0)
             \/ \A e \in Nat : e >= d => AxisRay(at, t)[e] # c
    BY AxisBefore
  <2>2. Hides(s.lit, ray, d)
    BY <1>1, <2>1
  <2>3. \A e \in Nat : e >= d => ray[e] \notin s.lit
    BY <2>2 DEF Hides
  <2>. QED
    BY <2>1, <2>3
<1>10. z \in Int /\ 0 - d <= z /\ z <= 0
  BY <1>1
<1>11. ~Below(s.start, RightSlope(z, d))
  BY <1>1, <1>6, <1>10, AxisSlopes
<1>12. InRadius(z, d) <=> d \in AxisFar
  BY <1>1, FarIs
<1> HIDE DEF z, s, k, ray
<1>13. ~Below(LeftSlope(z, d), end)
  BY <1>1, <1>10, SlopesAre
<1>14. Noticed(at, t, d, end, s, z)
  BY <1>5, <1>8, <1>11, <1>13 DEF Noticed, ray
<1>15. InRadius(z, d) => ray[d] \in k.lit
  BY <1>7, <1>8, <1>14 DEF Outcome, PassedOver, MoreWall, BehindWall, FirstWall, MoreFloor, Glow
<1>16. ray[d] \in k.lit => InRadius(z, d)
  <2>1. d >= d /\ d \in Nat
    BY <1>1
  <2>. QED
    BY <1>9, <2>1
<1>17. \A e \in Nat : e >= d + 1 => ray[e] \notin k.lit
  <2>1. ASSUME NEW e \in Nat, e >= d + 1, ray[e] \in k.lit  PROVE FALSE
    <3>1. e >= d /\ e # d
      BY <1>1, <2>1
    <3>. QED
      BY <1>8, <1>9, <2>1, <3>1
  <2>. QED
    BY <2>1
<1>18. d < VisionRadius => (~k.blocked <=> ray[d] \in cells)
  <2>1. ~(d >= VisionRadius /\ d < VisionRadius)
    BY <1>1, RadiusAssumption
  <2>. QED
    BY <1>7, <1>8, <1>14, <2>1 DEF Outcome, PassedOver, MoreWall, BehindWall, FirstWall, MoreFloor
<1>. QED
  BY <1>12, <1>15, <1>16, <1>17, <1>18 DEF Hides, ray, k

LEMMA AxisRow ==
  ASSUME NEW cells, NEW at \in Grid, NEW t \in Octants, NEW d \in 1..VisionRadius, NEW start \in Slope, NEW end \in Slope,
         NEW beyond \in [Gap -> SUBSET Cells], start[1] >= 1, AxisGood(beyond, cells, at, t, d + 1),
         WedgeGood(beyond, at, t, d + 1)
  PROVE  /\ end = <<0, 1>> => Shows(LightRow(cells, at, t, d, start, end, beyond), AxisRay(at, t), AxisFar, cells, d)
         /\ AboveAxis(end, d) => Hides(LightRow(cells, at, t, d, start, end, beyond), AxisRay(at, t), d)
<1> DEFINE ray == AxisRay(at, t)
           L == LightRow(cells, at, t, d, start, end, beyond)
<1>1. d \in Nat \ {0} /\ d \in Nat /\ d + 1 \in 0..(d + 1) /\ d \in 0..d
  BY RadiusAssumption
<1>2. PICK f \in [0..(d + 1) -> RowState] : Scans(f, cells, at, t, d, start, end, beyond)
  BY ScanIs
<1> DEFINE k == f[d + 1]
           B == beyond[<<k.start, end>>]
<1>3. L = k.lit \cup (IF k.blocked THEN {} ELSE B)
  BY <1>2 DEF LightRow, Scans
<1>4. k \in RowState /\ k.start \in Slope /\ k.start[1] >= 1
  BY <1>1, <1>2, AxisStarts DEF RowState
<1>5. B \subseteq Wedge(at, t, d + 1)
  BY <1>4 DEF WedgeGood
<1>6. end = <<0, 1>> => Shows(B, ray, AxisFar, cells, d + 1)
  BY <1>4 DEF AxisGood
<1>7. AboveAxis(end, d) => Hides(B, ray, d + 1)
  BY <1>1, <1>4 DEF AxisGood, AboveAxis
<1>8. ray[d] \notin B
  BY <1>1, <1>5, RaysAhead
<1>9. /\ Hides(f[d].lit, ray, d)
      /\ \A c \in k.lit :
           \/ c \in f[d].lit
           \/ c = Place(at, t, 0, d) /\ InRadius(0, d) /\ Noticed(at, t, d, end, f[d], 0)
           \/ \A e \in Nat : e >= d => ray[e] # c
  BY <1>1, <1>2, AxisBefore
<1>10. ASSUME end = <<0, 1>>, ray[d] \in Grid
       PROVE  /\ ray[d] \in k.lit <=> d \in AxisFar
              /\ Hides(k.lit, ray, d + 1)
              /\ d < VisionRadius => (~k.blocked <=> ray[d] \in cells)
  BY <1>2, <1>10, AxisEnds
<1>11. \A e \in Nat : e >= d + 1 /\ ray[e] \in Grid => ray[d] \in Grid
  <2> DEFINE r == 0
  <2>1. r \in {0, 1} /\ \A e \in Nat : 0 - r * e = 0
    OBVIOUS
  <2>2. \A e \in Nat : ray[e] = Place(at, t, 0 - r * e, e)
    BY <2>1, RayCells
  <2> HIDE DEF r
  <2>3. ASSUME NEW e \in Nat, e >= d + 1, ray[e] \in Grid  PROVE ray[d] \in Grid
    <3>1. d <= e
      BY <1>1, <2>3
    <3> HIDE DEF ray
    <3>2. Place(at, t, 0 - r * e, e) \in Grid
      BY <2>2, <2>3
    <3>3. Place(at, t, 0 - r * d, d) \in Grid
      BY <1>1, <2>1, <3>1, <3>2, RayIs
    <3>. QED
      BY <1>1, <2>2, <3>3
  <2>. QED
    BY <2>3
<1> HIDE DEF ray, L, B, k
<1>12. ASSUME end = <<0, 1>>  PROVE Shows(L, ray, AxisFar, cells, d)
  <2>1. ray[d] \in Grid => (ray[d] \in L <=> d \in AxisFar)
    BY <1>3, <1>8, <1>10, <1>12
  <2>2. ASSUME NEW e \in Nat, e >= d + 1, ray[e] \in Grid
        PROVE  ray[e] \in L <=> e \in AxisFar /\ ray[d] \in cells /\ \A j \in (d + 1)..(e - 1) : ray[j] \in cells
    <3>1. ray[d] \in Grid
      BY <1>11, <2>2
    <3>2. ray[e] \notin k.lit
      BY <1>10, <1>12, <2>2, <3>1 DEF Hides
    <3>3. ray[e] \in B <=> e \in AxisFar /\ \A j \in (d + 1)..(e - 1) : ray[j] \in cells
      BY <1>6, <1>12, <2>2 DEF Shows
    <3>4. e \in AxisFar => d < VisionRadius
      <4>1. e \in AxisFar => e < VisionRadius
        BY FarIs
      <4>. QED
        BY <1>1, <2>2, <4>1, RadiusAssumption
    <3>. QED
      BY <1>3, <1>10, <1>12, <3>1, <3>2, <3>3, <3>4
  <2>. QED
    BY <1>1, <2>1, <2>2, OneMore
<1>13. ASSUME AboveAxis(end, d)  PROVE Hides(L, ray, d)
  <2>1. Hides(B, ray, d)
    BY <1>1, <1>5, <1>7, <1>13, HidesAhead DEF ray
  <2>2. Below(LeftSlope(0, d), end)
    BY <1>1, <1>13 DEF AboveAxis
  <2>3. Hides(k.lit, ray, d)
    BY <1>9, <2>2 DEF Hides, Noticed
  <2>. QED
    BY <1>3, <2>1, <2>3 DEF Hides
<1>. QED
  BY <1>12, <1>13 DEF L, ray

LEMMA DiagHidden ==
  ASSUME NEW cells, NEW at \in Grid, NEW t \in Octants, NEW d \in 1..VisionRadius, NEW start \in Slope, NEW end \in Slope,
         NEW beyond \in [Gap -> SUBSET Cells], BelowDiagonal(start, d), DiagGood(beyond, cells, at, t, d + 1),
         WedgeGood(beyond, at, t, d + 1)
  PROVE  Hides(LightRow(cells, at, t, d, start, end, beyond), DiagRay(at, t), d)
<1> DEFINE n == d + 1
           ray == DiagRay(at, t)
<1>1. n \in Nat /\ d \in Nat \ {0} /\ d \in Nat /\ 0 \in 0..n /\ n \in 0..n /\ d >= d
  BY RadiusAssumption
<1>2. PICK f \in [0..(d + 1) -> RowState] : Scans(f, cells, at, t, d, start, end, beyond)
  BY ScanIs
<1> DEFINE Safe(i) == /\ i = 0 => f[i].start = start
                      /\ BelowDiagonal(f[i].start, d + 1)
                      /\ f[i].blocked => BelowDiagonal(f[i].next, d + 1)
                      /\ Hides(f[i].lit, ray, d)
           P == {i \in 0..n : Safe(i)}
<1>3. BelowDiagonal(start, d + 1)
  BY <1>1 DEF BelowDiagonal
<1>4. 0 \in P
  BY <1>1, <1>2, <1>3 DEF Scans, Unlit, Hides
<1>5. ASSUME NEW s \in Slope, NEW g \in Slope, BelowDiagonal(s, d + 1)
      PROVE  Hides(beyond[<<s, g>>], ray, d)
  <2>1. Hides(beyond[<<s, g>>], ray, d + 1) /\ beyond[<<s, g>>] \subseteq Wedge(at, t, d + 1)
    BY <1>5 DEF DiagGood, WedgeGood
  <2>. QED
    BY <1>1, <2>1, HidesAhead
<1>6. ASSUME NEW i \in 1..n, i - 1 \in P  PROVE i \in P
  <2> DEFINE dx == i - d - 1
             s == f[i - 1]
             k == f[i]
             left == LeftSlope(dx, d)
             right == RightSlope(dx, d)
  <2>1. /\ dx \in Int /\ 0 - d <= dx /\ dx <= 0 /\ s \in RowState /\ k \in RowState
        /\ left \in Slope /\ i \in 0..n /\ i # 0
    BY <1>1, RowSteps
  <2>2. Outcome(cells, at, t, d, end, beyond, s, dx, k)
    BY <1>2 DEF Scans
  <2>3. s.start \in Slope
    BY <2>1 DEF RowState
  <2>4. BelowDiagonal(s.start, d + 1) /\ (s.blocked => BelowDiagonal(s.next, d + 1)) /\ Hides(s.lit, ray, d)
    BY <1>6
  <2>5. dx = 0 - d => Below(s.start, RightSlope(0 - d, d))
    <3>1. dx = 0 - d => i - 1 = 0
      BY <1>1
    <3>. QED
      BY <1>1, <1>6, <3>1 DEF BelowDiagonal
  <2> HIDE DEF dx, s, k, left, P
  <2>6. BelowDiagonal(right, d + 1)
    BY <1>1, <2>1, DiagSlopes
  <2> HIDE DEF right
  <2>7. BelowDiagonal(k.start, d + 1) /\ (k.blocked => BelowDiagonal(k.next, d + 1))
    BY <2>2, <2>4, <2>6 DEF Outcome, PassedOver, MoreWall, BehindWall, FirstWall, MoreFloor, right
  <2>8. ASSUME NEW e \in Nat, e >= d, ray[e] \in k.lit  PROVE FALSE
    <3>1. \/ ray[e] \in s.lit
          \/ ray[e] = Place(at, t, dx, d) /\ Noticed(at, t, d, end, s, dx)
          \/ ray[e] \in beyond[<<s.start, left>>]
      BY <2>1, <2>2, <2>8, LookAdds DEF left
    <3>2. ray[e] \notin s.lit
      BY <2>4, <2>8 DEF Hides
    <3>3. Hides(beyond[<<s.start, left>>], ray, d)
      BY <1>5, <2>1, <2>3, <2>4
    <3>4. ray[e] \notin beyond[<<s.start, left>>]
      BY <2>8, <3>3 DEF Hides
    <3>5. dx = 0 - d
      <4>1. ray[e] = Place(at, t, dx, d)
        BY <3>1, <3>2, <3>4
      <4>. QED
        BY <1>1, <2>1, <4>1, RayCells
    <3>6. Noticed(at, t, d, end, s, 0 - d)
      BY <3>1, <3>2, <3>4, <3>5
    <3>. QED
      BY <2>5, <3>5, <3>6 DEF Noticed
  <2>9. Hides(k.lit, ray, d)
    BY <2>8 DEF Hides
  <2>. QED
    BY <2>1, <2>7, <2>9 DEF P, k
<1>7. 0..n \subseteq P
  <2> HIDE DEF P, n
  <2>. QED
    BY <1>1, <1>4, <1>6, Upwards
<1> DEFINE k == f[d + 1]
           L == LightRow(cells, at, t, d, start, end, beyond)
<1>8. BelowDiagonal(k.start, d + 1) /\ Hides(k.lit, ray, d) /\ k.start \in Slope
  BY <1>1, <1>7 DEF RowState
<1>9. L = k.lit \cup (IF k.blocked THEN {} ELSE beyond[<<k.start, end>>])
  BY <1>2 DEF LightRow, Scans
<1> HIDE DEF k, L
<1>10. Hides(beyond[<<k.start, end>>], ray, d)
  BY <1>5, <1>8
<1>. QED
  BY <1>8, <1>9, <1>10 DEF Hides, L

\* A row begins on the diagonal.  While it is open the light starts where it did;
\* from its first wall on, what the row has of the diagonal stays as it is.
StillOpen(s, ray, cells, d) ==
  /\ s.start = <<1, 1>> /\ ~s.blocked
  /\ \A e \in Nat : e >= d => (ray[e] \in s.lit <=> e = d /\ d \in DiagFar)
  /\ d < VisionRadius => ray[d] \in cells

Settled(s, ray, cells, d) ==
  /\ d < VisionRadius
  /\ s.blocked => BelowDiagonal(s.next, d + 1)
  /\ ~s.blocked => BelowDiagonal(s.start, d + 1)
  /\ Shows(s.lit, ray, DiagFar, cells, d)

LEMMA ShowsSame ==
  ASSUME NEW L, NEW M, NEW ray, NEW far, NEW cells, NEW d, Shows(L, ray, far, cells, d),
         \A e \in Nat : e >= d => (ray[e] \in M <=> ray[e] \in L)
  PROVE  Shows(M, ray, far, cells, d)
BY DEF Shows

LEMMA DiagFirst ==
  ASSUME NEW cells, NEW at \in Grid, NEW t \in Octants, NEW d \in 1..VisionRadius, NEW end \in Slope,
         NEW beyond \in [Gap -> SUBSET Cells], ~Below(<<1, 1>>, end), DiagRay(at, t)[d] \in Grid,
         NEW k, Outcome(cells, at, t, d, end, beyond, Unlit(<<1, 1>>), 0 - d, k)
  PROVE  StillOpen(k, DiagRay(at, t), cells, d) \/ Settled(k, DiagRay(at, t), cells, d)
<1> DEFINE s == Unlit(<<1, 1>>)
           m == 0 - d
           ray == DiagRay(at, t)
<1>1. d \in Nat \ {0} /\ d \in Nat /\ m \in Int /\ 0 - d <= m /\ m <= 0 /\ d >= d /\ ~(d >= VisionRadius /\ d < VisionRadius)
  BY RadiusAssumption
<1>2. s.start = <<1, 1>> /\ s.blocked = FALSE /\ s.lit = {} /\ s.left = FALSE
  BY DEF Unlit
<1>3. ray[d] = Place(at, t, m, d) /\ \A e \in Nat : ray[e] = Place(at, t, m, d) => e = d
  BY <1>1, RayCells
<1>4. InRadius(m, d) <=> d \in DiagFar
  BY <1>1, FarIs
<1>5. <<1, 1>> \in Slope
  BY DEF Slope
<1> HIDE DEF s, ray
<1>6. ~Below(<<1, 1>>, RightSlope(m, d)) /\ Below(<<1, 1>>, LeftSlope(m, d)) /\ LeftSlope(m, d) \in Slope
  BY <1>1, SlopesAre
<1>7. ~Below(LeftSlope(m, d), end)
  BY <1>1, DiagSlopes
<1>8. BelowDiagonal(RightSlope(m, d), d + 1)
  BY <1>1, DiagSlopes
<1> HIDE DEF m
<1>9. Noticed(at, t, d, end, s, m)
  BY <1>2, <1>3, <1>6, <1>7 DEF Noticed, ray
<1>10. Through(beyond, s.start, LeftSlope(m, d)) = {}
  BY <1>2, <1>5, <1>6, ThroughIs
<1>11. Outcome(cells, at, t, d, end, beyond, s, m, k)
  BY DEF s, m
<1>12. k.lit = Glow(at, t, d, s, m) /\ k.start = <<1, 1>>
  BY <1>2, <1>9, <1>10, <1>11 DEF Outcome, PassedOver, MoreWall, BehindWall, FirstWall, MoreFloor
<1>13. \A e \in Nat : e >= d => (ray[e] \in k.lit <=> e = d /\ d \in DiagFar)
  BY <1>2, <1>3, <1>4, <1>12 DEF Glow
<1>14. CASE d < VisionRadius /\ Place(at, t, m, d) \notin cells
  <2>1. k.blocked /\ k.next = RightSlope(m, d)
    BY <1>1, <1>2, <1>9, <1>11, <1>14 DEF Outcome, PassedOver, MoreWall, BehindWall, FirstWall, MoreFloor
  <2>2. \A e \in Nat : e >= d + 1 => ray[e] \notin k.lit
    BY <1>1, <1>13
  <2>3. Shows(k.lit, ray, DiagFar, cells, d)
    BY <1>1, <1>3, <1>13, <1>14, <2>2, OneMore
  <2>. QED
    BY <1>8, <1>14, <2>1, <2>3 DEF Settled, ray
<1>15. CASE ~(d < VisionRadius /\ Place(at, t, m, d) \notin cells)
  <2>1. ~k.blocked
    BY <1>2, <1>9, <1>11, <1>15 DEF Outcome, PassedOver, MoreWall, BehindWall, FirstWall, MoreFloor
  <2>. QED
    BY <1>3, <1>12, <1>13, <1>15, <2>1 DEF StillOpen, ray
<1>. QED
  BY <1>14, <1>15

LEMMA DiagOpen ==
  ASSUME NEW cells, NEW at \in Grid, NEW t \in Octants, NEW d \in 1..VisionRadius, NEW end \in Slope,
         NEW beyond \in [Gap -> SUBSET Cells], DiagGood(beyond, cells, at, t, d + 1), WedgeGood(beyond, at, t, d + 1),
         NEW dx \in Int, 0 - d < dx, dx <= 0,
         NEW s, NEW k, Outcome(cells, at, t, d, end, beyond, s, dx, k), StillOpen(s, DiagRay(at, t), cells, d)
  PROVE  StillOpen(k, DiagRay(at, t), cells, d) \/ Settled(k, DiagRay(at, t), cells, d)
<1> DEFINE ray == DiagRay(at, t)
           left == LeftSlope(dx, d)
           right == RightSlope(dx, d)
           more == beyond[<<s.start, left>>]
<1>1. d \in Nat \ {0} /\ d \in Nat /\ 0 - d <= dx /\ d >= d
  BY RadiusAssumption
<1>2. left \in Slope /\ ~Below(<<1, 1>>, left)
  BY <1>1, SlopesAre
<1>3. BelowDiagonal(right, d + 1)
  BY <1>1, DiagSlopes
<1>4. s.start = <<1, 1>> /\ ~s.blocked /\ s.start \in Slope
  BY DEF StillOpen, Slope
<1>5. \A e \in Nat : e >= d => (ray[e] \in s.lit <=> e = d /\ d \in DiagFar)
  BY DEF StillOpen
<1>6. \A e \in Nat : ray[e] # Place(at, t, dx, d)
  <2>1. 0 - d # dx
    BY <1>1
  <2>. QED
    BY <1>1, <2>1, RayCells
<1> HIDE DEF ray, left, right
<1>7. \A e \in Nat : ray[e] \in Glow(at, t, d, s, dx) <=> ray[e] \in s.lit
  BY <1>6 DEF Glow
<1>8. Through(beyond, s.start, left) = more
  BY <1>2, <1>4, ThroughIs
<1>9. Shows(more, ray, DiagFar, cells, d + 1) /\ more \subseteq Wedge(at, t, d + 1)
  BY <1>2, <1>4 DEF DiagGood, WedgeGood, ray
<1>10. ray[d] \notin more
  BY <1>1, <1>9, RaysAhead DEF ray
<1> HIDE DEF more
<1>11. CASE PassedOver(at, t, d, end, s, dx, k) \/ MoreFloor(cells, at, t, d, s, dx, k)
  <2>1. k.start = s.start /\ ~k.blocked /\ \A e \in Nat : ray[e] \in k.lit <=> ray[e] \in s.lit
    BY <1>4, <1>7, <1>11 DEF PassedOver, MoreFloor
  <2>. QED
    BY <2>1 DEF StillOpen, ray
<1>12. CASE FirstWall(cells, at, t, d, beyond, s, dx, k)
  <2>1. d < VisionRadius /\ k.blocked /\ k.next = right /\ k.lit = Glow(at, t, d, s, dx) \cup more
    BY <1>8, <1>12 DEF FirstWall, left, right
  <2>2. ray[d] \in k.lit <=> d \in DiagFar
    BY <1>1, <1>5, <1>7, <1>10, <2>1
  <2>3. ray[d] \in cells
    BY <2>1 DEF StillOpen, ray
  <2>4. ASSUME NEW e \in Nat, e >= d + 1, ray[e] \in Grid
        PROVE  ray[e] \in k.lit <=> e \in DiagFar /\ ray[d] \in cells /\ \A j \in (d + 1)..(e - 1) : ray[j] \in cells
    <3>1. e >= d /\ e # d
      BY <1>1, <2>4
    <3>2. ray[e] \in k.lit <=> ray[e] \in more
      BY <1>5, <1>7, <2>1, <3>1
    <3>. QED
      BY <1>9, <2>3, <2>4, <3>2 DEF Shows
  <2>5. Shows(k.lit, ray, DiagFar, cells, d)
    BY <1>1, <2>2, <2>4, OneMore
  <2>. QED
    BY <1>3, <2>1, <2>5 DEF Settled, ray
<1>. QED
  BY <1>4, <1>11, <1>12 DEF Outcome, MoreWall, BehindWall

LEMMA DiagSettled ==
  ASSUME NEW cells, NEW at \in Grid, NEW t \in Octants, NEW d \in 1..VisionRadius, NEW end \in Slope,
         NEW beyond \in [Gap -> SUBSET Cells], DiagGood(beyond, cells, at, t, d + 1), WedgeGood(beyond, at, t, d + 1),
         NEW dx \in Int, 0 - d < dx, dx <= 0, NEW s \in RowState,
         NEW k, Outcome(cells, at, t, d, end, beyond, s, dx, k), Settled(s, DiagRay(at, t), cells, d)
  PROVE  Settled(k, DiagRay(at, t), cells, d)
<1> DEFINE ray == DiagRay(at, t)
           left == LeftSlope(dx, d)
           right == RightSlope(dx, d)
           more == Through(beyond, s.start, left)
<1>1. d \in Nat \ {0} /\ d \in Nat /\ 0 - d <= dx
  BY RadiusAssumption
<1>2. left \in Slope
  BY <1>1, SlopesAre
<1>3. BelowDiagonal(right, d + 1)
  BY <1>1, DiagSlopes
<1>4. s.start \in Slope
  BY DEF RowState
<1>5. \A e \in Nat : ray[e] # Place(at, t, dx, d)
  <2>1. 0 - d # dx
    BY <1>1
  <2>. QED
    BY <1>1, <2>1, RayCells
<1> HIDE DEF ray, left, right
<1>6. \A e \in Nat : ray[e] \in Glow(at, t, d, s, dx) <=> ray[e] \in s.lit
  BY <1>5 DEF Glow
<1>7. ASSUME ~s.blocked  PROVE Hides(more, ray, d)
  <2> DEFINE B == beyond[<<s.start, left>>]
  <2>1. Hides(B, ray, d + 1) /\ B \subseteq Wedge(at, t, d + 1)
    BY <1>2, <1>4, <1>7 DEF DiagGood, WedgeGood, Settled, ray
  <2> HIDE DEF B
  <2>2. Hides(B, ray, d)
    BY <1>1, <2>1, HidesAhead DEF ray
  <2>3. more = {} \/ more = B
    BY <1>2, <1>4, ThroughIs DEF B
  <2>. QED
    BY <2>2, <2>3 DEF Hides
<1>8. \A e \in Nat : e >= d => (ray[e] \in k.lit <=> ray[e] \in s.lit)
  BY <1>6, <1>7 DEF Hides, Outcome, PassedOver, MoreWall, BehindWall, FirstWall, MoreFloor, left
<1> HIDE DEF more
<1>9. Shows(k.lit, ray, DiagFar, cells, d)
  BY <1>8, ShowsSame DEF Settled, ray
<1>10. (k.blocked => BelowDiagonal(k.next, d + 1)) /\ (~k.blocked => BelowDiagonal(k.start, d + 1))
  BY <1>3 DEF Settled, Outcome, PassedOver, MoreWall, BehindWall, FirstWall, MoreFloor, right
<1>. QED
  BY <1>9, <1>10 DEF Settled, ray

LEMMA DiagShown ==
  ASSUME NEW cells, NEW at \in Grid, NEW t \in Octants, NEW d \in 1..VisionRadius, NEW end \in Slope,
         NEW beyond \in [Gap -> SUBSET Cells], DiagGood(beyond, cells, at, t, d + 1), WedgeGood(beyond, at, t, d + 1),
         ~Below(<<1, 1>>, end)
  PROVE  Shows(LightRow(cells, at, t, d, <<1, 1>>, end, beyond), DiagRay(at, t), DiagFar, cells, d)
<1> DEFINE n == d + 1
           ray == DiagRay(at, t)
           start == <<1, 1>>
           L == LightRow(cells, at, t, d, start, end, beyond)
<1>1. n \in Nat /\ d \in Nat \ {0} /\ d \in Nat /\ 0 \in 0..n /\ n \in 0..n /\ n >= 1 /\ VisionRadius \in Nat
  BY RadiusAssumption
<1>2. start \in Slope
  BY DEF Slope
<1> HIDE DEF start
<1>3. PICK f \in [0..(d + 1) -> RowState] : Scans(f, cells, at, t, d, start, end, beyond)
  BY <1>2, ScanIs
<1>4. \A e \in Nat : e >= d /\ ray[e] \in Grid => ray[d] \in Grid
  <2> DEFINE r == 1
  <2>1. r \in {0, 1} /\ \A e \in Nat : 0 - r * e = 0 - e
    OBVIOUS
  <2>2. \A e \in Nat : ray[e] = Place(at, t, 0 - r * e, e)
    BY <2>1, RayCells
  <2> HIDE DEF r
  <2>3. ASSUME NEW e \in Nat, e >= d, ray[e] \in Grid  PROVE ray[d] \in Grid
    <3>1. d <= e
      BY <1>1, <2>3
    <3> HIDE DEF ray
    <3>2. Place(at, t, 0 - r * e, e) \in Grid
      BY <2>2, <2>3
    <3>3. Place(at, t, 0 - r * d, d) \in Grid
      BY <1>1, <2>1, <3>1, <3>2, RayIs
    <3>. QED
      BY <1>1, <2>2, <3>3
  <2>. QED
    BY <2>3
<1>5. SUFFICES ASSUME ray[d] \in Grid  PROVE Shows(L, ray, DiagFar, cells, d)
  <2>1. ray[d] \notin Grid => Shows(L, ray, DiagFar, cells, d)
    BY <1>4 DEF Shows
  <2>. QED
    BY <1>5, <2>1 DEF start
<1> DEFINE P == {i \in 0..n : i = 0 \/ StillOpen(f[i], ray, cells, d) \/ Settled(f[i], ray, cells, d)}
<1>6. 0 \in P
  BY <1>1
<1>7. ASSUME NEW i \in 1..n, i - 1 \in P  PROVE i \in P
  <2> DEFINE dx == i - d - 1
             s == f[i - 1]
             k == f[i]
  <2>1. dx \in Int /\ 0 - d <= dx /\ dx <= 0 /\ s \in RowState /\ i \in 0..n
    BY <1>1, RowSteps
  <2>2. Outcome(cells, at, t, d, end, beyond, s, dx, k)
    BY <1>3 DEF Scans
  <2>3. CASE i = 1
    <3>1. s = Unlit(<<1, 1>>) /\ dx = 0 - d
      BY <1>1, <1>3, <2>3 DEF Scans, start
    <3>2. Outcome(cells, at, t, d, end, beyond, Unlit(<<1, 1>>), 0 - d, k)
      BY <2>2, <3>1
    <3> HIDE DEF k
    <3>3. StillOpen(k, ray, cells, d) \/ Settled(k, ray, cells, d)
      BY <1>5, <3>2, DiagFirst
    <3>. QED
      BY <2>1, <3>3 DEF k
  <2>4. CASE i # 1
    <3>1. 0 - d < dx /\ i - 1 # 0
      BY <1>1, <2>4
    <3>2. StillOpen(s, ray, cells, d) \/ Settled(s, ray, cells, d)
      BY <1>7, <3>1
    <3> HIDE DEF dx, s, k
    <3>3. StillOpen(s, ray, cells, d) => StillOpen(k, ray, cells, d) \/ Settled(k, ray, cells, d)
      BY <2>1, <2>2, <3>1, DiagOpen
    <3>4. Settled(s, ray, cells, d) => Settled(k, ray, cells, d)
      BY <2>1, <2>2, <3>1, DiagSettled
    <3>. QED
      BY <2>1, <3>2, <3>3, <3>4 DEF k
  <2>. QED
    BY <2>3, <2>4
<1>8. 0..n \subseteq P
  <2> HIDE DEF P, n
  <2>. QED
    BY <1>1, <1>6, <1>7, Upwards
<1> DEFINE k == f[d + 1]
           B == beyond[<<k.start, end>>]
<1>9. StillOpen(k, ray, cells, d) \/ Settled(k, ray, cells, d)
  BY <1>1, <1>8
<1>10. k.start \in Slope
  BY <1>1 DEF RowState
<1>11. L = k.lit \cup (IF k.blocked THEN {} ELSE B)
  BY <1>3 DEF LightRow, Scans
<1>12. B \subseteq Wedge(at, t, d + 1)
  BY <1>10 DEF WedgeGood
<1>13. ray[d] \notin B
  BY <1>1, <1>12, RaysAhead
<1>14. k.start = <<1, 1>> => Shows(B, ray, DiagFar, cells, d + 1)
  BY <1>10 DEF DiagGood
<1>15. BelowDiagonal(k.start, d + 1) => Hides(B, ray, d + 1)
  BY <1>10 DEF DiagGood
<1> HIDE DEF k, L, B, ray
<1>16. CASE StillOpen(k, ray, cells, d)
  <2>1. L = k.lit \cup B /\ Shows(B, ray, DiagFar, cells, d + 1)
    BY <1>11, <1>14, <1>16 DEF StillOpen
  <2>2. \A e \in Nat : e >= d => (ray[e] \in k.lit <=> e = d /\ d \in DiagFar)
    BY <1>16 DEF StillOpen
  <2>3. ray[d] \in L <=> d \in DiagFar
    BY <1>1, <1>13, <2>1, <2>2
  <2>4. ASSUME NEW e \in Nat, e >= d + 1, ray[e] \in Grid
        PROVE  ray[e] \in L <=> e \in DiagFar /\ ray[d] \in cells /\ \A j \in (d + 1)..(e - 1) : ray[j] \in cells
    <3>1. ray[e] \notin k.lit
      BY <1>1, <2>2, <2>4
    <3>2. ray[e] \in B <=> e \in DiagFar /\ \A j \in (d + 1)..(e - 1) : ray[j] \in cells
      BY <2>1, <2>4 DEF Shows
    <3>3. e \in DiagFar => ray[d] \in cells
      <4>1. e \in DiagFar => e < VisionRadius
        BY FarIs
      <4>2. e \in DiagFar => d < VisionRadius
        BY <1>1, <2>4, <4>1
      <4>. QED
        BY <1>16, <4>2 DEF StillOpen
    <3>. QED
      BY <2>1, <3>1, <3>2, <3>3
  <2>. QED
    BY <1>1, <2>3, <2>4, OneMore
<1>17. CASE Settled(k, ray, cells, d)
  <2>1. ~k.blocked => Hides(B, ray, d)
    BY <1>1, <1>12, <1>15, <1>17, HidesAhead DEF Settled, ray
  <2>2. \A e \in Nat : e >= d => (ray[e] \in L <=> ray[e] \in k.lit)
    BY <1>11, <2>1 DEF Hides
  <2>. QED
    BY <1>17, <2>2, ShowsSame DEF Settled
<1>. QED
  BY <1>9, <1>16, <1>17

\* A row and the rows beyond it, for every gap.
AllGood(B, cells, at, t, d) ==
  WedgeGood(B, at, t, d) /\ AxisGood(B, cells, at, t, d) /\ DiagGood(B, cells, at, t, d)

LEMMA RowIs ==
  ASSUME NEW cells, NEW at \in Grid, NEW t \in Octants, NEW d \in 1..VisionRadius, NEW beyond \in [Gap -> SUBSET Cells],
         AllGood(beyond, cells, at, t, d + 1), NEW start \in Slope, NEW end \in Slope
  PROVE  LightRow(cells, at, t, d, start, end, beyond) \subseteq Wedge(at, t, d)
<1>1. PICK f \in [0..(d + 1) -> RowState] : Scans(f, cells, at, t, d, start, end, beyond)
  BY ScanIs
<1> DEFINE k == f[d + 1]
<1>2. d \in Nat /\ d + 1 \in 0..(d + 1)
  BY RadiusAssumption
<1>3. k.start \in Slope
  BY <1>2 DEF RowState
<1>4. Wedge(at, t, d + 1) \subseteq Wedge(at, t, d)
  BY <1>2 DEF Wedge
<1>5. beyond[<<k.start, end>>] \subseteq Wedge(at, t, d)
  BY <1>3, <1>4 DEF AllGood, WedgeGood
<1>6. k.lit \subseteq Wedge(at, t, d)
  BY <1>1, RowInWedge DEF AllGood
<1>7. LightRow(cells, at, t, d, start, end, beyond) = k.lit \cup (IF k.blocked THEN {} ELSE beyond[<<k.start, end>>])
  BY <1>1 DEF LightRow, Scans
<1>. QED
  BY <1>5, <1>6, <1>7

LEMMA RowCells ==
  ASSUME NEW cells, NEW at \in Grid, NEW t \in Octants, NEW d \in 1..VisionRadius, NEW beyond \in [Gap -> SUBSET Cells],
         NEW start \in Slope, NEW end \in Slope
  PROVE  LightRow(cells, at, t, d, start, end, beyond) \in SUBSET Cells
<1>1. PICK f \in [0..(d + 1) -> RowState] : Scans(f, cells, at, t, d, start, end, beyond)
  BY ScanIs
<1> DEFINE k == f[d + 1]
<1>2. d + 1 \in 0..(d + 1)
  BY RadiusAssumption
<1>3. k.start \in Slope /\ k.lit \in SUBSET Cells
  BY <1>2 DEF RowState
<1>4. beyond[<<k.start, end>>] \in SUBSET Cells
  BY <1>3 DEF Gap
<1>5. LightRow(cells, at, t, d, start, end, beyond) = k.lit \cup (IF k.blocked THEN {} ELSE beyond[<<k.start, end>>])
  BY <1>1 DEF LightRow, Scans
<1>. QED
  BY <1>3, <1>4, <1>5

LEMMA RowGood ==
  ASSUME NEW cells, NEW at \in Grid, NEW t \in Octants, NEW d \in 1..VisionRadius, NEW beyond \in [Gap -> SUBSET Cells],
         AllGood(beyond, cells, at, t, d + 1),
         NEW B, B = [gap \in Gap |-> LightRow(cells, at, t, d, gap[1], gap[2], beyond)]
  PROVE  AllGood(B, cells, at, t, d)
<1>1. WedgeGood(beyond, at, t, d + 1) /\ AxisGood(beyond, cells, at, t, d + 1) /\ DiagGood(beyond, cells, at, t, d + 1)
  BY DEF AllGood
<1>2. ASSUME NEW start \in Slope, NEW end \in Slope
      PROVE  B[<<start, end>>] = LightRow(cells, at, t, d, start, end, beyond)
  BY DEF Gap
<1>3. WedgeGood(B, at, t, d)
  <2>1. ASSUME NEW start \in Slope, NEW end \in Slope  PROVE B[<<start, end>>] \subseteq Wedge(at, t, d)
    <3>1. LightRow(cells, at, t, d, start, end, beyond) \subseteq Wedge(at, t, d)
      BY RowIs
    <3>2. B[<<start, end>>] = LightRow(cells, at, t, d, start, end, beyond)
      BY <1>2
    <3>. QED
      BY <3>1, <3>2
  <2>. QED
    BY <2>1 DEF WedgeGood
<1>4. AxisGood(B, cells, at, t, d)
  <2>1. ASSUME NEW start \in Slope, NEW end \in Slope, start[1] >= 1
        PROVE  /\ end = <<0, 1>> => Shows(B[<<start, end>>], AxisRay(at, t), AxisFar, cells, d)
               /\ AboveAxis(end, d) => Hides(B[<<start, end>>], AxisRay(at, t), d)
    <3> DEFINE L == LightRow(cells, at, t, d, start, end, beyond)
    <3>1. /\ end = <<0, 1>> => Shows(L, AxisRay(at, t), AxisFar, cells, d)
          /\ AboveAxis(end, d) => Hides(L, AxisRay(at, t), d)
      BY <1>1, <2>1, AxisRow
    <3>2. B[<<start, end>>] = L
      BY <1>2
    <3> HIDE DEF L
    <3>. QED
      BY <3>1, <3>2
  <2>. QED
    BY <2>1 DEF AxisGood
<1>5. DiagGood(B, cells, at, t, d)
  <2>1. <<1, 1>> \in Slope
    BY DEF Slope
  <2>2. ASSUME NEW end \in Slope, ~Below(<<1, 1>>, end)
        PROVE  Shows(B[<< <<1, 1>>, end>>], DiagRay(at, t), DiagFar, cells, d)
    <3>1. Shows(LightRow(cells, at, t, d, <<1, 1>>, end, beyond), DiagRay(at, t), DiagFar, cells, d)
      BY <1>1, <2>2, DiagShown
    <3>. QED
      BY <1>2, <2>1, <3>1
  <2>3. ASSUME NEW start \in Slope, NEW end \in Slope, BelowDiagonal(start, d)
        PROVE  Hides(B[<<start, end>>], DiagRay(at, t), d)
    BY <1>1, <1>2, <2>3, DiagHidden
  <2>. QED
    BY <2>2, <2>3 DEF DiagGood
<1>. QED
  BY <1>3, <1>4, <1>5 DEF AllGood

\* Beyond the radius nothing is lit.
LEMMA DarkGood ==
  ASSUME NEW cells, NEW at \in Grid, NEW t \in Octants, NEW B, B = [gap \in Gap |-> {}]
  PROVE  AllGood(B, cells, at, t, VisionRadius + 1)
<1> DEFINE d == VisionRadius + 1
<1>1. \A start, end \in Slope : B[<<start, end>>] = {}
  BY DEF Gap
<1>2. \A e \in Nat : e >= d => e \notin AxisFar /\ e \notin DiagFar
  BY FarIs, RadiusAssumption
<1>3. \A ray : Hides({}, ray, d)
  BY DEF Hides
<1>4. \A ray : Shows({}, ray, AxisFar, cells, d) /\ Shows({}, ray, DiagFar, cells, d)
  BY <1>2 DEF Shows
<1> HIDE DEF d
<1>5. WedgeGood(B, at, t, d)
  BY <1>1 DEF WedgeGood
<1>6. AxisGood(B, cells, at, t, d)
  BY <1>1, <1>3, <1>4 DEF AxisGood
<1>7. DiagGood(B, cells, at, t, d)
  <2>1. <<1, 1>> \in Slope
    BY DEF Slope
  <2>. QED
    BY <1>1, <1>3, <1>4, <2>1 DEF DiagGood
<1>. QED
  BY <1>5, <1>6, <1>7 DEF AllGood, d

\* The rows of an octant, from the outermost in.
Lights(f, cells, at, t) ==
  /\ f[0] = [gap \in Gap |-> {}]
  /\ \A n \in 1..VisionRadius :
       f[n] = [gap \in Gap |-> LightRow(cells, at, t, VisionRadius + 1 - n, gap[1], gap[2], f[n - 1])]
  /\ CastLight(cells, at, t) = f[VisionRadius][<< <<1, 1>>, <<0, 1>> >>]

LEMMA CastIs ==
  ASSUME NEW cells, NEW at \in Grid, NEW t \in Octants
  PROVE  \E f \in [0..VisionRadius -> [Gap -> SUBSET Cells]] : Lights(f, cells, at, t)
<1> DEFINE r == VisionRadius
           X == [Gap -> SUBSET Cells]
           x0 == [gap \in Gap |-> {}]
           Lk(n, B) == [gap \in Gap |-> LightRow(cells, at, t, VisionRadius + 1 - n, gap[1], gap[2], B)]
           Rows(f) == f = [n \in 0..VisionRadius |-> [gap \in Gap |-> IF n = 0 THEN {} ELSE LightRow(cells, at, t, VisionRadius + 1 - n, gap[1], gap[2], f[n - 1])]]
           row == CHOOSE f : Rows(f)
           g == [n \in 1..r |-> [B \in X |-> Lk(n, B)]]
<1>1. r \in Nat /\ 0 \in 0..r
  BY RadiusAssumption
<1>2. x0 \in X
  OBVIOUS
<1>3. ASSUME NEW n \in 1..r, NEW B \in X  PROVE Lk(n, B) \in X
  <2> DEFINE d == VisionRadius + 1 - n
  <2>1. d \in 1..VisionRadius
    BY <1>1
  <2> HIDE DEF d
  <2>2. \A gap \in Gap : LightRow(cells, at, t, d, gap[1], gap[2], B) \in SUBSET Cells
    BY <2>1, RowCells DEF Gap
  <2>. QED
    BY <2>2 DEF d
<1>4. \A n \in 1..r : \A B \in X : g[n][B] = Lk(n, B)
  OBVIOUS
<1>5. CastLight(cells, at, t) = row[VisionRadius][<< <<1, 1>>, <<0, 1>> >>]
  BY DEF CastLight
<1>6. \A f : Rows(f) <=> f = [n \in 0..r |-> IF n = 0 THEN x0 ELSE Lk(n, f[n - 1])]
  <2>1. ASSUME NEW f
        PROVE  [n \in 0..VisionRadius |-> [gap \in Gap |-> IF n = 0 THEN {} ELSE LightRow(cells, at, t, VisionRadius + 1 - n, gap[1], gap[2], f[n - 1])]]
               = [n \in 0..r |-> IF n = 0 THEN x0 ELSE Lk(n, f[n - 1])]
    <3> DEFINE F(n) == [gap \in Gap |-> IF n = 0 THEN {} ELSE LightRow(cells, at, t, VisionRadius + 1 - n, gap[1], gap[2], f[n - 1])]
               G(n) == IF n = 0 THEN x0 ELSE Lk(n, f[n - 1])
    <3>1. ASSUME NEW n \in 0..r  PROVE F(n) = G(n)
      <4>1. CASE n = 0
        BY <4>1
      <4>2. CASE n # 0
        BY <4>2
      <4>. QED
        BY <4>1, <4>2
    <3> HIDE DEF F, G
    <3>2. [n \in 0..r |-> F(n)] = [n \in 0..r |-> G(n)]
      BY <3>1
    <3>. QED
      BY <3>2 DEF F, G
  <2>. QED
    BY <2>1
<1> HIDE DEF g, x0, Lk, Rows, X
<1>7. \E f : Rows(f)
  <2>1. Keeps(g, r, X)
    BY <1>3, <1>4 DEF Keeps
  <2> HIDE DEF r
  <2>2. PICK f \in [0..r -> X] : Iterates(f, x0, r, g)
    BY <1>1, <1>2, <2>1, Chain
  <2>3. f[0] = x0 /\ \A i \in 1..r : f[i] = g[i][f[i - 1]]
    BY <2>2 DEF Iterates
  <2>4. \A i \in 0..r : f[i] = IF i = 0 THEN x0 ELSE Lk(i, f[i - 1])
    <3>1. ASSUME NEW i \in 0..r, i # 0  PROVE f[i] = Lk(i, f[i - 1])
      <4>1. i \in 1..r /\ i - 1 \in 0..r
        BY <1>1, <3>1
      <4>. QED
        BY <1>4, <2>3, <4>1
    <3>. QED
      BY <2>3, <3>1
  <2>5. f = [i \in 0..r |-> IF i = 0 THEN x0 ELSE Lk(i, f[i - 1])]
    BY <2>4
  <2>. QED
    BY <1>6, <2>5 DEF r
<1>8. row = [i \in 0..r |-> IF i = 0 THEN x0 ELSE Lk(i, row[i - 1])]
  BY <1>6, <1>7
<1> HIDE DEF row, r
<1>9. row = [i \in 0..r |-> row[i]] /\ \A i \in 0..r : row[i] = IF i = 0 THEN x0 ELSE Lk(i, row[i - 1])
  BY <1>8
<1> DEFINE P == {i \in 0..r : row[i] \in X}
<1>10. 0..r \subseteq P
  <2>1. 0 \in P
    BY <1>1, <1>2, <1>9
  <2>2. ASSUME NEW i \in 1..r, i - 1 \in P  PROVE i \in P
    <3>1. i \in 0..r /\ i # 0 /\ row[i - 1] \in X
      BY <1>1, <2>2
    <3>. QED
      BY <1>3, <1>9, <3>1
  <2> HIDE DEF P
  <2>. QED
    BY <1>1, <2>1, <2>2, Upwards
<1>11. row \in [0..r -> X]
  BY <1>9, <1>10
<1>12. row[0] = x0
  BY <1>1, <1>9
<1>13. ASSUME NEW n \in 1..r  PROVE row[n] = Lk(n, row[n - 1])
  <2>1. n \in 0..r /\ n # 0
    BY <1>1
  <2>. QED
    BY <1>9, <2>1
<1>14. Lights(row, cells, at, t)
  BY <1>5, <1>12, <1>13 DEF Lights, x0, Lk, r
<1>. QED
  BY <1>11, <1>14 DEF r, X

\* An octant: nothing is lit outside it, and its two rays up to their first wall.
LEMMA CastShows ==
  ASSUME NEW cells, NEW at \in Grid, NEW t \in Octants
  PROVE  /\ CastLight(cells, at, t) \subseteq Wedge(at, t, 1)
         /\ Shows(CastLight(cells, at, t), AxisRay(at, t), AxisFar, cells, 1)
         /\ Shows(CastLight(cells, at, t), DiagRay(at, t), DiagFar, cells, 1)
<1> DEFINE r == VisionRadius
           o == 1
<1>1. r \in Nat /\ 0 \in 0..r /\ r \in 0..r /\ r + 1 - r = 1 /\ r + 1 - 0 = r + 1
  BY RadiusAssumption
<1>2. PICK f \in [0..VisionRadius -> [Gap -> SUBSET Cells]] : Lights(f, cells, at, t)
  BY CastIs
<1> DEFINE P == {n \in 0..r : AllGood(f[n], cells, at, t, r + 1 - n)}
<1>3. 0 \in P
  BY <1>1, <1>2, DarkGood DEF Lights
<1>4. ASSUME NEW n \in 1..r, n - 1 \in P  PROVE n \in P
  <2> DEFINE d == r + 1 - n
             B == f[n]
             beyond == f[n - 1]
  <2>1. d \in 1..VisionRadius /\ n \in 0..r /\ n - 1 \in 0..VisionRadius /\ r + 1 - (n - 1) = d + 1
    BY <1>1
  <2>2. beyond \in [Gap -> SUBSET Cells]
    BY <2>1
  <2>3. AllGood(beyond, cells, at, t, d + 1)
    BY <1>4, <2>1
  <2>4. B = [gap \in Gap |-> LightRow(cells, at, t, d, gap[1], gap[2], beyond)]
    BY <1>2 DEF Lights
  <2> HIDE DEF d, B, beyond
  <2>5. AllGood(B, cells, at, t, d)
    BY <2>1, <2>2, <2>3, <2>4, RowGood
  <2>. QED
    BY <2>1, <2>5 DEF B, d
<1>5. 0..r \subseteq P
  <2> HIDE DEF P, r
  <2>. QED
    BY <1>1, <1>3, <1>4, Upwards
<1> DEFINE B == f[VisionRadius]
<1>6. AllGood(B, cells, at, t, o)
  BY <1>1, <1>5
<1>7. CastLight(cells, at, t) = B[<< <<1, 1>>, <<0, 1>> >>]
  BY <1>2 DEF Lights
<1> HIDE DEF B, o
<1>8. << 1, 1>> \in Slope /\ <<0, 1>> \in Slope /\ ~Below(<<1, 1>>, <<0, 1>>) /\ <<1, 1>>[1] >= 1
  BY DEF Slope, Below
<1>9. WedgeGood(B, at, t, o) /\ AxisGood(B, cells, at, t, o) /\ DiagGood(B, cells, at, t, o)
  BY <1>6 DEF AllGood
<1>10. CastLight(cells, at, t) \subseteq Wedge(at, t, o)
  BY <1>7, <1>8, <1>9 DEF WedgeGood
<1>11. Shows(CastLight(cells, at, t), AxisRay(at, t), AxisFar, cells, o)
  BY <1>7, <1>8, <1>9 DEF AxisGood
<1>12. Shows(CastLight(cells, at, t), DiagRay(at, t), DiagFar, cells, o)
  BY <1>7, <1>8, <1>9 DEF DiagGood
<1>. QED
  BY <1>10, <1>11, <1>12 DEF o

\* Whether b is in the radius of a.
CloseTo(a, b) == (b[1] - a[1]) * (b[1] - a[1]) + (b[2] - a[2]) * (b[2] - a[2]) < VisionRadius * VisionRadius

\* The cells of a straight line: steps of one in one of the eight directions.
Beeline(a, sx, sy, k) == <<a[1] + k * sx, a[2] + k * sy>>

LEMMA LineIs ==
  ASSUME NEW a \in Cells, NEW b \in Cells, NEW e \in Nat \ {0}, NEW sx \in {-1, 0, 1}, NEW sy \in {-1, 0, 1}, sx # 0 \/ sy # 0,
         b = Beeline(a, sx, sy, e)
  PROVE  Between(a, b) = {Beeline(a, sx, sy, i) : i \in 1..(e - 1)}
<1> DEFINE n == IF a[1] = b[1] THEN b[2] - a[2] ELSE b[1] - a[1]
           length == IF n < 0 THEN -n ELSE n
<1>0. b[1] = a[1] + e * sx /\ b[2] = a[2] + e * sy
  BY DEF Beeline
<1>1. a[1] \in Int /\ a[2] \in Int /\ b[1] \in Int /\ b[2] \in Int
  BY DEF Cells
<1>2. Sign(b[1] - a[1]) = sx /\ Sign(b[2] - a[2]) = sy
  <2>1. CASE sx = 0
    BY <1>0, <1>1, <2>1 DEF Sign
  <2>2. CASE sx = 1
    BY <1>0, <1>1, <2>2 DEF Sign
  <2>3. CASE sx = -1
    BY <1>0, <1>1, <2>3 DEF Sign
  <2>. QED
    BY <2>1, <2>2, <2>3
<1>3. length = e
  <2>1. CASE sx = 0
    BY <1>0, <1>1, <2>1
  <2>2. CASE sx = 1
    BY <1>0, <1>1, <2>2
  <2>3. CASE sx = -1
    BY <1>0, <1>1, <2>3
  <2>. QED
    BY <2>1, <2>2, <2>3
<1>4. Between(a, b) = {<<a[1] + i * Sign(b[1] - a[1]), a[2] + i * Sign(b[2] - a[2])>> : i \in 1..(length - 1)}
  BY DEF Between
<1> HIDE DEF length
<1>. QED
  BY <1>2, <1>3, <1>4 DEF Beeline

LEMMA RayLine ==
  ASSUME NEW at \in Grid, NEW t \in Octants, NEW r \in {0, 1}
  PROVE  \E sx, sy \in {-1, 0, 1} :
           /\ sx # 0 \/ sy # 0
           /\ \A k \in Nat : Place(at, t, 0 - r * k, k) = Beeline(at, sx, sy, k)
           /\ sx * sx + sy * sy = r + 1
<1> DEFINE sx == 0 - r * t[1] - t[2]
           sy == 0 - r * t[3] - t[4]
<1>1. at[1] \in Int /\ at[2] \in Int
  BY GridIs DEF Cells
<1>2. \A k \in Nat : Place(at, t, 0 - r * k, k) = <<at[1] + (0 - r * k) * t[1] - k * t[2], at[2] + (0 - r * k) * t[3] - k * t[4]>>
  BY DEF Place
<1>3. /\ sx \in {-1, 0, 1} /\ sy \in {-1, 0, 1}
      /\ sx # 0 \/ sy # 0
      /\ sx * sx + sy * sy = r + 1
      /\ \A k \in Nat : (0 - r * k) * t[1] - k * t[2] = k * sx /\ (0 - r * k) * t[3] - k * t[4] = k * sy
  <2>1. CASE t[1] \in {1, -1} /\ t[2] = 0 /\ t[3] = 0 /\ t[4] \in {1, -1}
    <3>1. CASE t[1] = 1 /\ t[4] = 1
      BY <2>1, <3>1
    <3>2. CASE t[1] = 1 /\ t[4] = -1
      BY <2>1, <3>2
    <3>3. CASE t[1] = -1 /\ t[4] = 1
      BY <2>1, <3>3
    <3>4. CASE t[1] = -1 /\ t[4] = -1
      BY <2>1, <3>4
    <3>. QED
      BY <2>1, <3>1, <3>2, <3>3, <3>4
  <2>2. CASE t[1] = 0 /\ t[2] \in {1, -1} /\ t[3] \in {1, -1} /\ t[4] = 0
    <3>1. CASE t[2] = 1 /\ t[3] = 1
      BY <2>2, <3>1
    <3>2. CASE t[2] = 1 /\ t[3] = -1
      BY <2>2, <3>2
    <3>3. CASE t[2] = -1 /\ t[3] = 1
      BY <2>2, <3>3
    <3>4. CASE t[2] = -1 /\ t[3] = -1
      BY <2>2, <3>4
    <3>. QED
      BY <2>2, <3>1, <3>2, <3>3, <3>4
  <2>. QED
    BY <2>1, <2>2, OctantIs
<1>4. t[1] \in Int /\ t[2] \in Int /\ t[3] \in Int /\ t[4] \in Int
  BY OctantIs
<1>5. \A k \in Nat : Place(at, t, 0 - r * k, k) = Beeline(at, sx, sy, k)
  <2>1. ASSUME NEW k \in Nat  PROVE Place(at, t, 0 - r * k, k) = Beeline(at, sx, sy, k)
    <3> DEFINE px == (0 - r * k) * t[1]
               qx == k * t[2]
               py == (0 - r * k) * t[3]
               qy == k * t[4]
               ux == k * sx
               uy == k * sy
    <3>0. 0 - r * k \in Int /\ sx \in Int /\ sy \in Int
      BY <1>3
    <3>1. px \in Int /\ qx \in Int /\ py \in Int /\ qy \in Int /\ ux \in Int /\ uy \in Int
      <4> HIDE DEF sx, sy
      <4>. QED
        BY <1>4, <3>0
    <3>2. px - qx = ux /\ py - qy = uy
      BY <1>3
    <3>3. Place(at, t, 0 - r * k, k) = <<at[1] + px - qx, at[2] + py - qy>>
      BY <1>2
    <3> HIDE DEF px, qx, py, qy, ux, uy
    <3>4. at[1] + px - qx = at[1] + ux /\ at[2] + py - qy = at[2] + uy
      BY <1>1, <3>1, <3>2
    <3>5. Place(at, t, 0 - r * k, k) = <<at[1] + ux, at[2] + uy>>
      BY <3>3, <3>4
    <3>. QED
      BY <3>5 DEF ux, uy, Beeline
  <2>. QED
    BY <2>1
<1> HIDE DEF sx, sy
<1>. QED
  BY <1>3, <1>5

RayCell(at, t, r, e) == Place(at, t, 0 - r * e, e)

\* What is seen of a ray is what is near with nothing but floor in between.
LEMMA RayShows ==
  ASSUME NEW cells, NEW at \in Grid, NEW t \in Octants, NEW r \in {0, 1}, NEW e \in Nat \ {0},
         NEW b \in Grid, b = RayCell(at, t, r, e)
  PROVE  b \in CastLight(cells, at, t) <=> CloseTo(at, b) /\ Between(at, b) \subseteq cells
<1> DEFINE ray == [k \in Nat |-> Place(at, t, 0 - r * k, k)]
           far == {k \in Nat : InRadius(0 - r * k, k)}
           L == CastLight(cells, at, t)
           o == 1
<1>1. at \in Cells /\ b \in Cells /\ at[1] \in Int /\ at[2] \in Int
  BY GridIs DEF Cells
<1>2. Shows(L, ray, far, cells, o)
  <2>1. CASE r = 0
    <3>1. \A k \in Nat : 0 - r * k = 0
      BY <2>1
    <3>2. ray = AxisRay(at, t)
      BY <3>1 DEF AxisRay
    <3>3. far = AxisFar
      BY <3>1, FarIs DEF AxisFar
    <3> HIDE DEF ray, far
    <3>. QED
      BY <3>2, <3>3, CastShows
  <2>2. CASE r = 1
    <3>1. \A k \in Nat : 0 - r * k = 0 - k
      BY <2>2
    <3>2. ray = DiagRay(at, t)
      BY <3>1 DEF DiagRay
    <3>3. far = DiagFar
      BY <3>1 DEF DiagFar
    <3> HIDE DEF ray, far
    <3>. QED
      BY <3>2, <3>3, CastShows
  <2>. QED
    BY <2>1, <2>2
<1>3. PICK sx \in {-1, 0, 1}, sy \in {-1, 0, 1} :
        /\ sx # 0 \/ sy # 0
        /\ \A k \in Nat : Place(at, t, 0 - r * k, k) = Beeline(at, sx, sy, k)
        /\ sx * sx + sy * sy = r + 1
  BY RayLine
<1>4. \A k \in Nat : ray[k] = Beeline(at, sx, sy, k)
  BY <1>3
<1>5. b = ray[e] /\ b = Beeline(at, sx, sy, e) /\ b[1] = at[1] + e * sx /\ b[2] = at[2] + e * sy
  BY <1>3 DEF Beeline, RayCell
<1>6. e \in far <=> CloseTo(at, b)
  <2> DEFINE m == 0 - r * e
             u == b[1] - at[1]
             v == b[2] - at[2]
  <2>1. m * m + e * e = (r + 1) * (e * e)
    <3>1. CASE r = 0
      BY <3>1
    <3>2. CASE r = 1
      BY <3>2
    <3>. QED
      BY <3>1, <3>2
  <2>2. u * u + v * v = (sx * sx + sy * sy) * (e * e)
    <3>1. u = e * sx /\ v = e * sy
      <4>1. e * sx \in Int /\ e * sy \in Int
        OBVIOUS
      <4>. QED
        BY <1>1, <1>5, <4>1
    <3>2. (e * sx) * (e * sx) = (sx * sx) * (e * e) /\ (e * sy) * (e * sy) = (sy * sy) * (e * e)
      OBVIOUS
    <3>3. (sx * sx + sy * sy) * (e * e) = (sx * sx) * (e * e) + (sy * sy) * (e * e)
      OBVIOUS
    <3> HIDE DEF u, v
    <3>. QED
      BY <3>1, <3>2, <3>3
  <2>3. e \in far <=> m * m + e * e < VisionRadius * VisionRadius
    BY DEF InRadius
  <2>4. CloseTo(at, b) <=> u * u + v * v < VisionRadius * VisionRadius
    BY DEF CloseTo
  <2> HIDE DEF m, u, v, far
  <2>. QED
    BY <1>3, <2>1, <2>2, <2>3, <2>4
<1> HIDE DEF ray, far, L
<1>7. Between(at, b) = {Beeline(at, sx, sy, i) : i \in 1..(e - 1)}
  <2>1. sx \in {-1, 0, 1} /\ sy \in {-1, 0, 1} /\ (sx # 0 \/ sy # 0)
    BY <1>3
  <2>2. b = Beeline(at, sx, sy, e)
    BY <1>5
  <2>. QED
    BY <1>1, <2>1, <2>2, LineIs
<1>8. Between(at, b) \subseteq cells <=> \A k \in 1..(e - 1) : ray[k] \in cells
  <2>1. \A k \in 1..(e - 1) : ray[k] = Beeline(at, sx, sy, k)
    BY <1>4
  <2>. QED
    BY <1>7, <2>1, Zenon
<1>9. e \in Nat /\ e >= o
  OBVIOUS
<1> HIDE DEF o
<1>10. b \in L <=> e \in far /\ \A k \in o..(e - 1) : ray[k] \in cells
  BY <1>2, <1>5, <1>9 DEF Shows
<1>. QED
  BY <1>6, <1>8, <1>10 DEF L, o

\* Every cell in line is on a ray of an octant, and no other cell of an octant
\* is in line.
LEMMA InLineIs ==
  ASSUME NEW at \in Grid, NEW b \in Grid, InLine(at, b)
  PROVE  \E t \in Octants, r \in {0, 1}, e \in Nat \ {0} : b = RayCell(at, t, r, e)
<1> DEFINE x == b[1] - at[1]
           y == b[2] - at[2]
           OnAxis(t, e) == x = 0 - e * t[2] /\ y = 0 - e * t[4]
           OnDiag(t, e) == x = 0 - e * t[1] - e * t[2] /\ y = 0 - e * t[3] - e * t[4]
<1>1. at[1] \in Int /\ at[2] \in Int /\ b[1] \in Int /\ b[2] \in Int /\ b = <<b[1], b[2]>>
  BY GridIs DEF Cells
<1>2. x \in Int /\ y \in Int /\ b[1] = at[1] + x /\ b[2] = at[2] + y
  BY <1>1
<1>3. x # 0 \/ y # 0
  <2>1. at = <<at[1], at[2]>>
    BY GridIs DEF Cells
  <2>. QED
    BY <1>1, <2>1 DEF InLine
<1>4. x = 0 \/ y = 0 \/ x = y \/ x = -y
  BY <1>1 DEF InLine
<1> HIDE DEF x, y
<1>5. \E t \in Octants, e \in Nat \ {0} : OnAxis(t, e) \/ OnDiag(t, e)
  <2>1. ASSUME x = 0, y < 0  PROVE OnAxis(<<1, 0, 0, 1>>, -y) /\ -y \in Nat \ {0} /\ <<1, 0, 0, 1>> \in Octants
    BY <1>2, <2>1 DEF Octants
  <2>2. ASSUME x = 0, y > 0  PROVE OnAxis(<<1, 0, 0, -1>>, y) /\ y \in Nat \ {0} /\ <<1, 0, 0, -1>> \in Octants
    BY <1>2, <2>2 DEF Octants
  <2>3. ASSUME y = 0, x < 0  PROVE OnAxis(<<0, 1, 1, 0>>, -x) /\ -x \in Nat \ {0} /\ <<0, 1, 1, 0>> \in Octants
    BY <1>2, <2>3 DEF Octants
  <2>4. ASSUME y = 0, x > 0  PROVE OnAxis(<<0, -1, 1, 0>>, x) /\ x \in Nat \ {0} /\ <<0, -1, 1, 0>> \in Octants
    BY <1>2, <2>4 DEF Octants
  <2>5. ASSUME x = y, y < 0  PROVE OnDiag(<<1, 0, 0, 1>>, -y) /\ -y \in Nat \ {0} /\ <<1, 0, 0, 1>> \in Octants
    BY <1>2, <2>5 DEF Octants
  <2>6. ASSUME x = y, y > 0  PROVE OnDiag(<<-1, 0, 0, -1>>, y) /\ y \in Nat \ {0} /\ <<-1, 0, 0, -1>> \in Octants
    BY <1>2, <2>6 DEF Octants
  <2>7. ASSUME x = -y, y < 0  PROVE OnDiag(<<-1, 0, 0, 1>>, -y) /\ -y \in Nat \ {0} /\ <<-1, 0, 0, 1>> \in Octants
    BY <1>2, <2>7 DEF Octants
  <2>8. ASSUME x = -y, y > 0  PROVE OnDiag(<<1, 0, 0, -1>>, y) /\ y \in Nat \ {0} /\ <<1, 0, 0, -1>> \in Octants
    BY <1>2, <2>8 DEF Octants
  <2>9. x < 0 \/ x = 0 \/ x > 0
    BY <1>2
  <2>10. y < 0 \/ y = 0 \/ y > 0
    BY <1>2
  <2> HIDE DEF OnAxis, OnDiag
  <2>. QED
    BY <1>3, <1>4, <2>1, <2>2, <2>3, <2>4, <2>5, <2>6, <2>7, <2>8, <2>9, <2>10
<1>6. PICK t \in Octants, e \in Nat \ {0} : OnAxis(t, e) \/ OnDiag(t, e)
  BY <1>5
<1>7. t[1] \in Int /\ t[2] \in Int /\ t[3] \in Int /\ t[4] \in Int
  BY OctantIs
<1>8. CASE OnAxis(t, e)
  <2>1. RayCell(at, t, 0, e) = <<at[1] + 0 * t[1] - e * t[2], at[2] + 0 * t[3] - e * t[4]>>
    BY DEF RayCell, Place
  <2> DEFINE u == e * t[2]
             v == e * t[4]
  <2>2. u \in Int /\ v \in Int /\ x = 0 - u /\ y = 0 - v
    BY <1>7, <1>8
  <2>3. RayCell(at, t, 0, e) = <<at[1] - u, at[2] - v>>
    <3>1. 0 * t[1] = 0 /\ 0 * t[3] = 0
      BY <1>7
    <3>2. RayCell(at, t, 0, e) = <<at[1] + 0 - u, at[2] + 0 - v>>
      BY <2>1, <3>1
    <3> HIDE DEF u, v
    <3>. QED
      BY <1>1, <2>2, <3>2
  <2> HIDE DEF u, v
  <2>4. at[1] - u = b[1] /\ at[2] - v = b[2]
    BY <1>1, <1>2, <2>2
  <2>5. b = RayCell(at, t, 0, e)
    BY <1>1, <2>3, <2>4
  <2>. QED
    BY <2>5
<1>9. CASE OnDiag(t, e)
  <2> DEFINE m == 0 - 1 * e
             u == e * t[2]
             v == e * t[4]
             p == e * t[1]
             q == e * t[3]
  <2>1. RayCell(at, t, 1, e) = <<at[1] + m * t[1] - e * t[2], at[2] + m * t[3] - e * t[4]>>
    BY DEF RayCell, Place
  <2>2. m * t[1] = 0 - p /\ m * t[3] = 0 - q
    <3>1. m = 0 - e
      OBVIOUS
    <3>2. \A k \in Int : (0 - e) * k = 0 - e * k
      OBVIOUS
    <3> HIDE DEF m
    <3>. QED
      BY <1>7, <3>1, <3>2
  <2>3. /\ u \in Int /\ v \in Int /\ p \in Int /\ q \in Int
        /\ x = 0 - p - u /\ y = 0 - q - v
    BY <1>7, <1>9
  <2>4. RayCell(at, t, 1, e) = <<at[1] + (0 - p) - u, at[2] + (0 - q) - v>>
    BY <2>1, <2>2
  <2> HIDE DEF u, v, p, q
  <2>5. at[1] + (0 - p) - u = b[1] /\ at[2] + (0 - q) - v = b[2]
    BY <1>1, <1>2, <2>3
  <2>6. b = RayCell(at, t, 1, e)
    BY <1>1, <2>4, <2>5
  <2>. QED
    BY <2>6
<1>. QED
  BY <1>6, <1>8, <1>9

LEMMA OffLine ==
  ASSUME NEW at \in Grid, NEW t \in Octants, NEW e \in Nat \ {0}, NEW dx \in Int, 0 - e <= dx, dx <= 0,
         InLine(at, Place(at, t, dx, e))
  PROVE  \E r \in {0, 1} : Place(at, t, dx, e) = RayCell(at, t, r, e)
<1> DEFINE b == Place(at, t, dx, e)
<1>1. at[1] \in Int /\ at[2] \in Int
  BY GridIs DEF Cells
<1>2. b[1] = at[1] + dx * t[1] - e * t[2] /\ b[2] = at[2] + dx * t[3] - e * t[4]
  BY DEF Place
<1>3. at[1] = b[1] \/ at[2] = b[2] \/ b[1] - at[1] = b[2] - at[2] \/ b[1] - at[1] = at[2] - b[2]
  BY DEF InLine
<1> HIDE DEF b
<1>4. dx = 0 \/ dx = 0 - e
  <2>1. CASE t[1] \in {1, -1} /\ t[2] = 0 /\ t[3] = 0 /\ t[4] \in {1, -1}
    <3>1. CASE t[1] = 1 /\ t[4] = 1
      BY <1>1, <1>2, <1>3, <2>1, <3>1
    <3>2. CASE t[1] = 1 /\ t[4] = -1
      BY <1>1, <1>2, <1>3, <2>1, <3>2
    <3>3. CASE t[1] = -1 /\ t[4] = 1
      BY <1>1, <1>2, <1>3, <2>1, <3>3
    <3>4. CASE t[1] = -1 /\ t[4] = -1
      BY <1>1, <1>2, <1>3, <2>1, <3>4
    <3>. QED
      BY <2>1, <3>1, <3>2, <3>3, <3>4
  <2>2. CASE t[1] = 0 /\ t[2] \in {1, -1} /\ t[3] \in {1, -1} /\ t[4] = 0
    <3>1. CASE t[2] = 1 /\ t[3] = 1
      BY <1>1, <1>2, <1>3, <2>2, <3>1
    <3>2. CASE t[2] = 1 /\ t[3] = -1
      BY <1>1, <1>2, <1>3, <2>2, <3>2
    <3>3. CASE t[2] = -1 /\ t[3] = 1
      BY <1>1, <1>2, <1>3, <2>2, <3>3
    <3>4. CASE t[2] = -1 /\ t[3] = -1
      BY <1>1, <1>2, <1>3, <2>2, <3>4
    <3>. QED
      BY <2>2, <3>1, <3>2, <3>3, <3>4
  <2>. QED
    BY <2>1, <2>2, OctantIs
<1>5. 0 - 0 * e = 0 /\ 0 - 1 * e = 0 - e
  OBVIOUS
<1>6. RayCell(at, t, 0, e) = Place(at, t, 0, e) /\ RayCell(at, t, 1, e) = Place(at, t, 0 - e, e)
  BY <1>5 DEF RayCell
<1>. QED
  BY <1>4, <1>6

\* From any open cell, on any map.
LEMMA SeenStraight ==
  ASSUME NEW cells, NEW at \in Grid, NEW b \in Grid, InLine(at, b)
  PROVE  b \in Visible(cells, at) <=> CloseTo(at, b) /\ Between(at, b) \subseteq cells
<1>1. b # at
  BY DEF InLine
<1>2. b \in Visible(cells, at) <=> \E t \in Octants : b \in CastLight(cells, at, t)
  BY <1>1 DEF Visible
<1>3. ASSUME b \in Visible(cells, at)  PROVE CloseTo(at, b) /\ Between(at, b) \subseteq cells
  <2>1. PICK t \in Octants : b \in CastLight(cells, at, t)
    BY <1>2, <1>3
  <2>2. CastLight(cells, at, t) \subseteq Wedge(at, t, 1)
    BY CastShows
  <2>3. PICK e \in Nat, dx \in Int : e >= 1 /\ 0 - e <= dx /\ dx <= 0 /\ b = Place(at, t, dx, e)
    BY <2>1, <2>2 DEF Wedge
  <2>4. e \in Nat \ {0} /\ InLine(at, Place(at, t, dx, e))
    BY <2>3
  <2>5. PICK r \in {0, 1} : Place(at, t, dx, e) = RayCell(at, t, r, e)
    BY <2>3, <2>4, OffLine
  <2>6. b = RayCell(at, t, r, e)
    BY <2>3, <2>5
  <2>7. e \in Nat \ {0}
    BY <2>4
  <2>8. b \in CastLight(cells, at, t) <=> CloseTo(at, b) /\ Between(at, b) \subseteq cells
    BY <2>6, <2>7, RayShows
  <2>. QED
    BY <2>1, <2>8
<1>4. ASSUME CloseTo(at, b), Between(at, b) \subseteq cells  PROVE b \in Visible(cells, at)
  <2>1. PICK t \in Octants, r \in {0, 1}, e \in Nat \ {0} : b = RayCell(at, t, r, e)
    BY InLineIs
  <2>2. b \in CastLight(cells, at, t)
    BY <1>4, <2>1, RayShows
  <2>. QED
    BY <1>2, <2>2
<1>. QED
  BY <1>3, <1>4

LEMMA MapSees == MapInv => SightIsStraight
<1>1. SUFFICES ASSUME MapInv, NEW c \in DOMAIN token, NEW b \in Grid, InLine(token[c], b)
               PROVE  b \in Visible(open, token[c]) <=> CloseTo(token[c], b) /\ Between(token[c], b) \subseteq open
  BY DEF SightIsStraight, CloseTo
<1>2. token[c] \in Grid
  BY <1>1 DEF MapInv, OnFloor
<1>. QED
  BY <1>1, <1>2, SeenStraight

\* BattleMap.SightIsStraight (combatmap/fov.go:58-98), of every map of any size
\* and any radius: along a row, a column or a diagonal a token sees a cell
\* exactly when it is near and nothing but floor is in between.
THEOREM SightRunsStraight == MapSpec => []SightIsStraight
<1>1. MapInit => MapInv
  BY MapStarts
<1>2. MapInv /\ [MapNext]_mapVars => MapInv'
  BY MapStep
<1>3. MapInv => SightIsStraight
  BY MapSees
<1>. QED
  BY <1>1, <1>2, <1>3, PTL DEF MapSpec

--------------------------------------------------------------------------------
(* MCServices: all nine, in one run.  Most of the invariants above hold the *)
(* types; the log's needs that a writer who is idle has no message in hand, *)
(* and the login's types are kept beside its invariant.                     *)

IdleOK == \A w \in Writers : writer[w].pc = "idle" => writer[w] = Resting

LEMMA IdleInductive ==
  ASSUME FollowInv, IdleOK, [LogNext]_logVars
  PROVE  IdleOK'
<1>1. writer \in [Writers -> [pc : {"idle", "record", "send"}, id : Nat]]
  BY DEF FollowInv, LogInv, WritersOK
<1>2. ASSUME writer' = writer  PROVE IdleOK'
  BY <1>2 DEF IdleOK
<1>3. ASSUME NEW w \in Writers, NEW r, writer' = [writer EXCEPT ![w] = r], r.pc = "idle" => r = Resting
      PROVE  IdleOK'
  BY <1>1, <1>3 DEF IdleOK
<1>4. ASSUME NEW w \in Writers, NEW talk, NEW scope, NEW to, Say(w, talk, scope, to)  PROVE IdleOK'
  BY <1>3, <1>4 DEF Say
<1>5. ASSUME NEW w \in Writers, WriterStep(w)  PROVE IdleOK'
  <2>1. CASE RecordEvent(w)
    BY <1>1, <1>3, <2>1 DEF RecordEvent
  <2>2. CASE Send(w)
    BY <1>3, <2>2 DEF Send
  <2>. QED
    BY <1>4, <1>5, <2>1, <2>2
       DEF WriterStep, SendClientDisplay, SendFailureNotice, DmNarratePrivately, SendCharacterIntro
<1>6. ASSUME NEW v \in Viewers, ViewerStep(v)  PROVE IdleOK'
  BY <1>2, <1>6 DEF ViewerStep, Join, Leave, RequestTail, RequestEarlier, RequestLater
<1>7. ASSUME NEW c \in Characters, DeleteCharacter(c)  PROVE IdleOK'
  BY <1>2, <1>7 DEF DeleteCharacter
<1>8. CASE LogRestart
  BY <1>8 DEF LogRestart, IdleOK
<1>9. CASE UNCHANGED logVars
  BY <1>2, <1>9 DEF logVars
<1>. QED
  BY <1>5, <1>6, <1>7, <1>8, <1>9 DEF LogNext

LEMMA LogTyped ==
  ASSUME FollowInv, IdleOK
  PROVE  LogTypeOK
<1>1. /\ said \in Seq(Message) /\ log \in Seq(Nat) /\ chars \subseteq Characters
      /\ \A i \in 1..Len(log) : log[i] \in 1..Len(said)
      /\ writer \in [Writers -> [pc : {"idle", "record", "send"}, id : Nat]]
      /\ \A w \in Writers : writer[w].pc # "idle" => writer[w].id \in 1..Len(said)
      /\ viewer \in [Viewers -> [on : BOOLEAN, asked : BOOLEAN, oldest : Nat, newest : Nat, more : BOOLEAN]]
      /\ seen \in [Viewers -> SUBSET Nat] /\ \A v \in Viewers : \A e \in seen[v] : MayKnow(v, e)
      /\ lost \in [Viewers -> SUBSET Nat] /\ \A v \in Viewers : lost[v] \subseteq 1..Len(said)
  BY DEF FollowInv, LogInv, MessagesOK, RecordsOK, WritersOK, ViewersOK, SeenOK, LostOK
<1>2. Ids = 1..Len(said)
  BY <1>1 DEF Ids
<1>3. log \in Seq(Ids)
  <2>1. log \in [1..Len(log) -> Ids] /\ Len(log) \in Nat
    BY <1>1, <1>2
  <2>. QED
    BY <2>1
<1>4. writer \in [Writers -> {Resting} \cup [pc : {"record", "send"}, id : Ids]]
  <2>1. ASSUME NEW w \in Writers  PROVE writer[w] \in {Resting} \cup [pc : {"record", "send"}, id : Ids]
    BY <1>1, <1>2 DEF IdleOK
  <2>. QED
    BY <1>1, <2>1
<1>5. \A v \in Viewers : seen[v] \subseteq Ids
  BY <1>1, <1>2 DEF MayKnow
<1>6. seen \in [Viewers -> SUBSET Ids] /\ lost \in [Viewers -> SUBSET Ids]
  BY <1>1, <1>2, <1>5
<1>. QED
  BY <1>1, <1>3, <1>4, <1>6 DEF LogTypeOK, Message

LEMMA LoginTyped ==
  ASSUME LoginInv, LoginTypeOK, [LoginNext]_loginVars
  PROVE  LoginTypeOK'
<1> DEFINE Times == 1..(MaxClock + SessionTtl)
           Row2 == [token : Callbacks, expires : Times]
           Made2 == [token : Callbacks, expires : Times, link : Links, age : 0..MaxClock]
<1>1. /\ clock \in 0..MaxClock /\ link \in [Links -> 0..Unmade] /\ callback \in [Callbacks -> Doing]
      /\ rows \subseteq Row2 /\ issued \subseteq Links /\ loggedOut \subseteq Callbacks
      /\ minted \subseteq Made2 /\ admitted \subseteq Callbacks
      /\ MaxClock \in Nat /\ SessionTtl \in Nat \ {0} /\ StateTtl \in Nat
  BY MaxClockAssumption, TtlAssumption DEF LoginTypeOK
<1>2. Unmade = MaxClock + 1
  BY DEF Unmade
<1>3. Pruned \in [Links -> 0..Unmade] /\ \A l \in Links : Pruned[l] \in {link[l], Unmade}
  BY <1>1, <1>2 DEF Pruned
<1>4. Expiry \in Times
  BY <1>1 DEF Expiry
<1>5. CASE UNCHANGED loginVars
  BY <1>5 DEF loginVars, LoginTypeOK
<1>6. ASSUME NEW l \in Links, HandleLogin(l)  PROVE LoginTypeOK'
  BY <1>1, <1>2, <1>3, <1>6 DEF HandleLogin, LoginTypeOK
<1>7. ASSUME NEW l \in Links, NEW c \in Callbacks, TakeLink(c, l)  PROVE LoginTypeOK'
  <2>1. link' \in [Links -> 0..Unmade]
    BY <1>1, <1>2, <1>3, <1>7 DEF TakeLink, Take
  <2> DEFINE d == IF Pruned[l] = Unmade THEN [pc |-> "refused"] ELSE [pc |-> "exchange", link |-> l, age |-> clock - link[l]]
  <2>2. Pruned[l] # Unmade => link[l] # Unmade
    BY <1>3
  <2>3. link[l] # Unmade => clock - link[l] \in 0..MaxClock
    BY <1>1, <1>2 DEF LoginInv, LinksOK
  <2>4. d \in Doing
    BY <2>2, <2>3 DEF Doing
  <2> HIDE DEF d
  <2>5. callback' = [callback EXCEPT ![c] = d]
    BY <1>7 DEF TakeLink, d
  <2>6. callback' \in [Callbacks -> Doing]
    BY <1>1, <2>4, <2>5
  <2>. QED
    BY <1>1, <1>7, <2>1, <2>6 DEF TakeLink, LoginTypeOK
<1>8. ASSUME NEW c \in Callbacks, CreateSession(c)  PROVE LoginTypeOK'
  <2>1. callback[c].link \in Links /\ callback[c].age \in 0..MaxClock
    BY <1>1, <1>8 DEF CreateSession, Doing
  <2>2. [token |-> c, expires |-> Expiry] \in Row2
    BY <1>4
  <2>3. [token |-> c, expires |-> Expiry, link |-> callback[c].link, age |-> callback[c].age] \in Made2
    BY <1>4, <2>1
  <2>4. [pc |-> "done"] \in Doing /\ [pc |-> "refused"] \in Doing
    BY DEF Doing
  <2> HIDE DEF Row2, Made2
  <2>5. callback' \in [Callbacks -> Doing] /\ rows' \subseteq Row2 /\ minted' \subseteq Made2
    BY <1>1, <1>8, <2>2, <2>3, <2>4 DEF CreateSession
  <2>. QED
    BY <1>1, <1>8, <2>5 DEF CreateSession, LoginTypeOK, Row2, Made2
<1>9. ASSUME NEW c \in Callbacks, HangUp(c)  PROVE LoginTypeOK'
  BY <1>1, <1>9 DEF HangUp, LoginTypeOK
<1>10. ASSUME NEW r \in rows, Authorize(r) \/ HandleLogout(r)  PROVE LoginTypeOK'
  <2>1. r.token \in Callbacks
    BY <1>1
  <2>. QED
    BY <1>1, <1>10, <2>1 DEF Authorize, HandleLogout, LoginTypeOK
<1>11. CASE TimePasses
  <2>1. clock' \in 0..MaxClock
    BY <1>1, <1>11 DEF TimePasses
  <2>. QED
    BY <1>1, <1>11, <2>1 DEF TimePasses, LoginTypeOK
<1>12. CASE LoginRestart
  <2>1. link' \in [Links -> 0..Unmade] /\ callback' \in [Callbacks -> Doing]
    BY <1>1, <1>2, <1>12 DEF LoginRestart, Doing
  <2>2. rows' \subseteq rows
    BY <1>12 DEF LoginRestart
  <2>. QED
    BY <1>1, <1>12, <2>1, <2>2 DEF LoginRestart, LoginTypeOK
<1>. QED
  BY <1>5, <1>6, <1>7, <1>8, <1>9, <1>10, <1>11, <1>12 DEF LoginNext

LEMMA PacksTyped == PacksInv => PacksTypeOK
<1>1. SUFFICES ASSUME PacksInv  PROVE PacksTypeOK
  OBVIOUS
<1>2. ASSUME NEW v \in Savers
      PROVE  \/ save[v].pc \in {"idle", "done", "failed", "cut"}
             \/ save[v].pc = "write" /\ save[v].slug \in Slugs /\ save[v].undo \in Seq(Memory)
  <2>1. SaveOK(save[v], handmade) /\ handmade \subseteq Slugs
    BY <1>1 DEF PacksInv
  <2>2. CASE \E pc \in {"idle", "done", "failed", "cut"} : save[v] = [pc |-> pc]
    BY <2>2
  <2>3. CASE save[v] \in [pc : {"write"}, slug : handmade, adding : BOOLEAN, files : Seq(Upload), undo : Seq(Memory)]
    BY <2>1, <2>3
  <2>. QED
    BY <2>1, <2>2, <2>3 DEF SaveOK
<1>3. ASSUME NEW i \in Installs
      PROVE  \/ install[i].pc \in {"idle", "done", "failed", "skipped", "cut"}
             \/ /\ install[i].pc \in {"place", "remove", "rename"} /\ install[i].slug \in Slugs
                /\ Parses(install[i].pack)
  <2>1. InstallOK(install[i], replaced)
    BY <1>1 DEF PacksInv
  <2>2. CASE \E pc \in {"idle", "done", "failed", "skipped", "cut"} : install[i] = [pc |-> pc]
    BY <2>2
  <2>3. CASE install[i] \in [pc : {"place", "remove", "rename"}, slug : Slugs, pack : Pack, overwrite : BOOLEAN]
             /\ Installable(install[i].pack)
    BY <2>3 DEF Installable
  <2>. QED
    BY <2>1, <2>2, <2>3 DEF InstallOK
<1>4. disk \in [Slugs -> Pack] /\ handmade \subseteq Slugs /\ replaced \subseteq Slugs
  BY <1>1 DEF PacksInv
<1>. QED
  BY <1>2, <1>3, <1>4, Zenon DEF PacksTypeOK, Memory

LEMMA MapTyped == MapInv => MapTypeOK
<1>1. SUFFICES ASSUME MapInv  PROVE MapTypeOK
  OBVIOUS
<1>2. drawn \in 0..MaxMaps /\ open \in SUBSET Grid /\ MaxMaps \in Nat
  BY <1>1, RadiusAssumption DEF MapInv
<1>3. token \in [Combatants -> Grid] \/ token = <<>>
  BY <1>1, <1>2 DEF MapInv, OnFloor
<1>4. 1..drawn \subseteq 1..MaxMaps
  BY <1>2
<1>5. \A m \in Movers :
        mover[m] = NoMove \/ mover[m] \in [pc : {"check"}, map : 1..MaxMaps, cells : SUBSET Grid, from : Grid]
  BY <1>1, <1>4 DEF MapInv, MoverOK
<1>. QED
  BY <1>2, <1>3, <1>5 DEF MapTypeOK

\* A step of the run is a step, or none, of each service.
EachMoves ==
  /\ part' = part
  /\ [CreationNext]_creationVars /\ [LogNext]_logVars /\ [TurnNext]_turnVars
  /\ [AudioNext]_audioVars /\ [LoginNext]_loginVars /\ [PacksNext]_packVars
  /\ [DungeonNext]_dungeonVars /\ [MapNext]_mapVars /\ [CampaignsNext]_campaignVars

LEMMA EachStep == [Next]_vars => EachMoves
BY DEF Next, Moves, vars, EachMoves, CampaignsNext

AllInv ==
  /\ part \in Parts
  /\ CreationInv /\ FollowInv /\ IdleOK /\ TurnInv /\ AudioInv
  /\ LoginInv /\ LoginTypeOK /\ PacksInv /\ DungeonInv /\ MapInv /\ CampaignsInv

LEMMA AllStart == ASSUME Roomy, Init  PROVE AllInv
<1>1. IdleOK
  BY DEF Init, LogInit, IdleOK
<1>2. LoginTypeOK
  <2>1. LoginInit /\ MaxClock \in Nat /\ SessionTtl \in Nat
    BY MaxClockAssumption, TtlAssumption DEF Init
  <2>2. Waiting \in Doing /\ Unmade \in 0..Unmade /\ 0 \in 0..MaxClock
    BY <2>1 DEF Waiting, Doing, Unmade
  <2>3. link \in [Links -> 0..Unmade] /\ callback \in [Callbacks -> Doing]
    BY <2>1, <2>2 DEF LoginInit
  <2>. QED
    BY <2>1, <2>2, <2>3 DEF LoginInit, LoginTypeOK
<1>. QED
  BY <1>1, <1>2, CreationStarts, FollowStarts, TurnStarts, AudioStarts, LoginStarts, PacksStart, DungeonStarts,
     MapStarts, CampaignsStart DEF Init, AllInv

LEMMA AllStep == ASSUME Roomy, AllInv, [Next]_vars  PROVE AllInv'
<1>1. EachMoves
  BY EachStep
<1>2. CreationInv' /\ TurnInv' /\ AudioInv' /\ PacksInv' /\ MapInv' /\ CampaignsInv'
  BY <1>1, CreationInductive, TurnInductive, AudioInductive, PacksInductive, MapStep, CampaignsInductive
     DEF EachMoves, AllInv
<1>3. FollowInv' /\ IdleOK'
  BY <1>1, FollowInductive, IdleInductive DEF EachMoves, AllInv
<1>4. LoginInv' /\ LoginTypeOK'
  BY <1>1, LoginInductive, LoginTyped DEF EachMoves, AllInv
<1>5. DungeonInv'
  <2>1. DungeonInv /\ (DungeonNext \/ UNCHANGED dungeonVars)
    BY <1>1 DEF EachMoves, AllInv
  <2>2. CASE UNCHANGED dungeonVars
    BY <2>1, <2>2 DEF dungeonVars, DungeonInv
  <2>. QED
    BY <2>1, <2>2, GrowStep DEF DungeonNext
<1>6. part' \in Parts
  BY <1>1 DEF EachMoves, AllInv
<1>. QED
  BY <1>2, <1>3, <1>4, <1>5, <1>6 DEF AllInv

LEMMA AllTyped == AllInv => ServicesTypeOK
BY LogTyped, PacksTyped, InvImplies, MapTyped
   DEF AllInv, ServicesTypeOK, CreationInv, TurnInv, AudioInv, CampaignsInv

\* Every variable of the services keeps its type, for any values of the
\* constants on a grid that has room for an arrival.
THEOREM ServicesTypeCorrect == ASSUME Roomy PROVE Spec => []ServicesTypeOK
<1>1. Init => AllInv
  BY AllStart
<1>2. AllInv /\ [Next]_vars => AllInv'
  BY AllStep
<1>3. AllInv => ServicesTypeOK
  BY AllTyped
<1>. QED
  BY <1>1, <1>2, <1>3, PTL DEF Spec
================================================================================
