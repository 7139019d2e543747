---------------------------------- MODULE Audio ----------------------------------
(***************************************************************************)
(* Push to talk (master/internal/server/audio.go).  A recording's chunks   *)
(* are buffered under its stream id until the final one arrives, which is  *)
(* transcribed on the connection's own goroutine; meanwhile one poller per *)
(* recording transcribes what there is every two seconds.  Both show the   *)
(* player the text, and a transcription takes any time and may fail.       *)
(*                                                                         *)
(* A client gives every recording a fresh stream id (web/app.js), and may  *)
(* stop sending without a final chunk.  A text is as long as the number of *)
(* chunks it was made from.                                                *)
(***************************************************************************)
EXTENDS Naturals

CONSTANTS
  Streams,
  MaxChunks   \* bound: chunks in a recording

ASSUME MaxChunksAssumption == MaxChunks \in Nat \ {0}

VARIABLES
  buffered,   \* audioStreams: how many chunks each holds; 0: there is no entry
  speaker,    \* recording, the final chunk being transcribed, or done
  poller,     \* runPartialTranscription
  box         \* the text in the player's input box

audioVars == <<buffered, speaker, poller, box>>

NoPoller == [pc |-> "none", heard |-> 0]

AudioInit ==
  /\ buffered = [s \in Streams |-> 0]
  /\ speaker = [s \in Streams |-> [pc |-> "recording", heard |-> 0]]
  /\ poller = [s \in Streams |-> NoPoller]
  /\ box = [s \in Streams |-> 0]

PollerAt(s, pc) == poller[s].pc = pc
PollerGoto(s, pc, n) == poller' = [poller EXCEPT ![s] = [pc |-> pc, heard |-> n]]

\* appendAudioChunk reports a new stream; its first chunk starts the poller.
AppendAudioChunk(s) ==
  /\ speaker[s].pc = "recording" /\ buffered[s] < MaxChunks
  /\ buffered' = [buffered EXCEPT ![s] = @ + 1]
  /\ IF buffered[s] = 0 THEN PollerGoto(s, "wait", 0) ELSE UNCHANGED poller
  /\ UNCHANGED <<speaker, box>>

\* The final chunk is appended and the whole recording taken out.  No lock is
\* held in between, but nobody else appends to this recording.
TakeAudioStream(s) ==
  /\ speaker[s].pc = "recording"
  /\ buffered' = [buffered EXCEPT ![s] = 0]
  /\ speaker' = [speaker EXCEPT ![s] = [pc |-> "transcribing", heard |-> buffered[s] + 1]]
  /\ UNCHANGED <<poller, box>>

\* The final text is sent, or an error.
SendFinal(s) ==
  /\ speaker[s].pc = "transcribing"
  /\ box' = [box EXCEPT ![s] = speaker[s].heard] \/ UNCHANGED box
  /\ speaker' = [speaker EXCEPT ![s].pc = "done"]
  /\ UNCHANGED <<buffered, poller>>

\* Mutant: the poller does not notice that its recording is over.
PeekForever(s) ==
  /\ PollerAt(s, "wait") /\ PollerGoto(s, "transcribe", buffered[s])
  /\ UNCHANGED <<buffered, speaker, box>>

\* A tick: peekAudioStream copies what there is.
PeekAudioStream(s) ==
  /\ PollerAt(s, "wait")
  /\ IF buffered[s] = 0 THEN PollerGoto(s, "none", 0) ELSE PollerGoto(s, "transcribe", buffered[s])
  /\ UNCHANGED <<buffered, speaker, box>>

\* A failed or empty transcription waits for the next tick.
TranscribePartial(s) ==
  /\ PollerAt(s, "transcribe")
  /\ PollerGoto(s, "send", poller[s].heard) \/ PollerGoto(s, "wait", 0)
  /\ UNCHANGED <<buffered, speaker, box>>

\* Mutant: sent without another look at the recording.
StillAssumed(s) == s \in Streams

StillRecording(s) == buffered[s] > 0

\* sendPartialTranscriptionIfStillRecording: looked up and sent under one lock.
SendPartial(s) ==
  /\ PollerAt(s, "send")
  /\ IF StillRecording(s) THEN box' = [box EXCEPT ![s] = poller[s].heard] ELSE UNCHANGED box
  /\ PollerGoto(s, "wait", 0)
  /\ UNCHANGED <<buffered, speaker>>

Poll(s) == PeekAudioStream(s) \/ TranscribePartial(s) \/ SendPartial(s)

AudioNext == \E s \in Streams : AppendAudioChunk(s) \/ TakeAudioStream(s) \/ SendFinal(s) \/ Poll(s)

AudioFairness == \A s \in Streams : WF_audioVars(Poll(s))

AudioSpec == AudioInit /\ [][AudioNext]_audioVars /\ AudioFairness

--------------------------------------------------------------------------------
(* Properties.                                                             *)

AudioTypeOK ==
  /\ buffered \in [Streams -> 0..MaxChunks]
  /\ speaker \in [Streams -> [pc : {"recording", "transcribing", "done"}, heard : 0..(MaxChunks + 1)]]
  /\ poller \in [Streams -> [pc : {"none", "wait", "transcribe", "send"}, heard : 0..MaxChunks]]
  /\ box \in [Streams -> 0..(MaxChunks + 1)]

\* The text the player sees never goes back to an earlier part of the recording:
\* no partial one follows the final one, however long its transcription took.
TextNeverShrinks == [][\A s \in Streams : box'[s] >= box[s]]_audioVars

\* The poller of a finished recording ends.
PollersEnd == \A s \in Streams : speaker[s].pc # "recording" ~> PollerAt(s, "none")
================================================================================
