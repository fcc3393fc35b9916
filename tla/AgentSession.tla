---------------------------- MODULE AgentSession ----------------------------
(***************************************************************************)
(* AgentSession::send_prompt, src/src/agent/session.rs: one process per    *)
(* prompt, whose events come over a broadcast channel, and the session id  *)
(* that makes the next process resume the conversation.                    *)
(*                                                                         *)
(* The process and the channel are gate4agent's, external.  The process    *)
(* emits `start` with its session id, then texts, then `end`, or it dies;  *)
(* or it hangs.  Between spawn and subscribe nobody listens, and a         *)
(* receiver that is Capacity events behind loses the oldest (Lagged); a    *)
(* channel whose sender is gone is Closed once it is read empty.           *)
(*                                                                         *)
(* Prompts are numbered.  A session id stands for the prompts of its       *)
(* conversation, and the one being answered.                               *)
(***************************************************************************)
EXTENDS Integers, Sequences

CONSTANTS
  Texts,     \* how many PipeText events make an answer
  Capacity,  \* of the broadcast channel
  MaxFaults  \* bound: events lost and processes that die, in all prompts

ASSUME SessionAssumption ==
  /\ {Texts, MaxFaults} \subseteq Nat
  /\ Capacity \in Nat \ {0}

VARIABLES
  turn,     \* "idle", "spawned", "receiving", or the result, "ok" or "err"
  sent,     \* prompts sent so far
  resume,   \* resume_session_id
  text,     \* the PipeText events collected for this prompt
  channel,  \* events emitted and not received yet
  process,  \* what the process has still to emit; <<>> when it is gone
  began,    \* history: prompts whose process has emitted `start`
  missed,   \* history: faults in all, `start` events lost in all, and texts
            \* lost of this prompt
  died,     \* history: the process of this prompt ended before `end`
  answered  \* history: prompts for which send_prompt returned Ok

session == <<turn, sent, resume, text, channel, process, began, missed, died,
             answered>>

Script == <<"start">> \o [i \in 1..Texts |-> "text"] \o <<"end">>

\* No conversation yet.
NoSession == {}

SessionInit ==
  /\ turn = "idle"
  /\ sent = 0
  /\ resume = NoSession
  /\ text = 0
  /\ channel = <<>>
  /\ process = <<>>
  /\ began = {}
  /\ missed = [faults |-> 0, start |-> 0, text |-> 0]
  /\ died = FALSE
  /\ answered = {}

\* A prompt is sent: PipeSession::spawn, which may fail.
SendPrompt ==
  /\ turn \in {"idle", "ok", "err"}
  /\ sent' = sent + 1
  /\ text' = 0
  /\ channel' = <<>>
  /\ died' = FALSE
  /\ \/ turn' = "spawned" /\ process' = Script
     \/ turn' = "err" /\ process' = <<>>
  /\ missed' = [missed EXCEPT !.text = 0]
  /\ UNCHANGED <<resume, began, answered>>

Miss(e) ==
  /\ missed.faults < MaxFaults
  /\ missed' = [faults |-> missed.faults + 1,
                start |-> missed.start + IF e = "start" THEN 1 ELSE 0,
                text |-> missed.text + IF e = "text" THEN 1 ELSE 0]

\* The process emits its next event: nobody listens yet, or the channel has
\* room, or the oldest event gives way.
Emit ==
  /\ turn \in {"spawned", "receiving"}
  /\ process # <<>>
  /\ process' = Tail(process)
  /\ began' = IF Head(process) = "start" THEN began \cup {sent} ELSE began
  /\ \/ /\ turn = "spawned"
        /\ Miss(Head(process))
        /\ UNCHANGED channel
     \/ /\ turn = "receiving"
        /\ Len(channel) < Capacity
        /\ channel' = Append(channel, Head(process))
        /\ UNCHANGED missed
     \/ /\ turn = "receiving"
        /\ Len(channel) = Capacity
        /\ Miss(Head(channel))
        /\ channel' = Append(Tail(channel), Head(process))
  /\ UNCHANGED <<turn, sent, resume, text, died, answered>>

\* The process ends before its time.
Dies ==
  /\ turn \in {"spawned", "receiving"}
  /\ process # <<>>
  /\ process' = <<>>
  /\ died' = TRUE
  /\ missed.faults < MaxFaults
  /\ missed' = [missed EXCEPT !.faults = @ + 1]
  /\ UNCHANGED <<turn, sent, resume, text, channel, began, answered>>

Subscribe ==
  /\ turn = "spawned"
  /\ turn' = "receiving"
  /\ UNCHANGED <<sent, resume, text, channel, process, began, missed, died,
                 answered>>

\* Mutant: the first session id is kept.
RecvKeepsFirst ==
  /\ turn = "receiving"
  /\ channel # <<>>
  /\ channel' = Tail(channel)
  /\ resume' = IF Head(channel) = "start" /\ resume = NoSession
                 THEN {sent} ELSE resume
  /\ text' = IF Head(channel) = "text" THEN text + 1 ELSE text
  /\ turn' = IF Head(channel) = "end" THEN "ok" ELSE turn
  /\ answered' = IF Head(channel) = "end" THEN answered \cup {sent} ELSE answered
  /\ UNCHANGED <<sent, process, began, missed, died>>

\* An event is received.  Lagged is only logged.
Recv ==
  /\ turn = "receiving"
  /\ channel # <<>>
  /\ channel' = Tail(channel)
  /\ resume' = IF Head(channel) = "start" THEN resume \cup {sent} ELSE resume
  /\ text' = IF Head(channel) = "text" THEN text + 1 ELSE text
  /\ turn' = IF Head(channel) = "end" THEN "ok" ELSE turn
  /\ answered' = IF Head(channel) = "end" THEN answered \cup {sent} ELSE answered
  /\ UNCHANGED <<sent, process, began, missed, died>>

\* Exited, or Closed: what was collected is the answer.
RecvClosed ==
  /\ turn = "receiving"
  /\ channel = <<>>
  /\ process = <<>>
  /\ turn' = "ok"
  /\ answered' = answered \cup {sent}
  /\ UNCHANGED <<sent, resume, text, channel, process, began, missed, died>>

\* Mutant: no deadline.
NoDeadline == FALSE /\ UNCHANGED session

\* The deadline passes; what is in the channel is not looked at any more.
\* The session id stays.
Deadline ==
  /\ turn = "receiving"
  /\ turn' = "err"
  /\ process' = <<>>
  /\ channel' = <<>>
  /\ IF channel # <<>> /\ Head(channel) = "start" THEN Miss("start")
                                                 ELSE UNCHANGED missed
  /\ UNCHANGED <<sent, resume, text, began, died, answered>>

Agent == Emit \/ Dies
Receiver == Subscribe \/ Recv \/ RecvClosed \/ Deadline

----------------------------------------------------------------------------
SessionTypeOK ==
  /\ turn \in {"idle", "spawned", "receiving", "ok", "err"}
  /\ sent \in Nat
  /\ resume \in SUBSET (1..sent)
  /\ text \in 0..Texts
  /\ Len(channel) <= Capacity
  /\ Len(process) <= Texts + 2
  /\ began \in SUBSET (1..sent)

(***************************************************************************)
(* An answer that is returned as Ok is whole if no text was lost on the    *)
(* way and the process lived to its end.  If not it is Ok as well, which   *)
(* the doc of send_prompt, "the full text response", does not say.         *)
(***************************************************************************)
OkIsWhole == turn = "ok" => text = Texts \/ missed.text > 0 \/ died

(***************************************************************************)
(* The conversation that the next prompt resumes has every prompt that was *)
(* answered, of those whose process got as far as its session id: context  *)
(* is lost only with a lost `start` event.  (It may also have prompts that *)
(* timed out, whose session ids are not those of the last successful call  *)
(* as the doc of session_id says.)                                         *)
(***************************************************************************)
ContextKept ==
  turn \in {"ok", "err"} => missed.start > 0 \/ answered \cap began \subseteq resume

\* What an answer and a conversation may lack.
AnswersKept == OkIsWhole /\ ContextKept

\* The texts among the first n events of a script.
TextsIn(n) == IF n = 0 THEN 0 ELSE IF n > Texts THEN Texts ELSE n - 1

\* The process has emitted the first `emitted` events, and `gone` of them
\* have left the channel, received or lost: the texts among these are
\* collected or missed, and a `start` that is not among them is in the
\* channel, with the one prompt the conversation still lacks.
Account(gone, emitted) ==
  /\ gone <= emitted /\ sent > 0
  /\ channel = SubSeq(Script, gone + 1, emitted)
  /\ process = IF died THEN <<>> ELSE SubSeq(Script, emitted + 1, Texts + 2)
  /\ text + missed.text = TextsIn(gone)
  /\ \/ missed.start > 0
     \/ began = resume \cup (IF gone = 0 /\ emitted > 0 THEN {sent} ELSE {})

\* While a prompt runs its events are accounted for; when it is over nothing
\* of it is left but what it may lack.
SessionInv ==
  /\ SessionTypeOK
  /\ missed \in [faults: Nat, start: Nat, text: Nat]
  /\ died \in BOOLEAN
  /\ IF turn \in {"spawned", "receiving"}
       THEN \E gone, emitted \in 0..Texts + 2 :
              Account(gone, emitted) /\ (turn = "spawned" => gone = emitted)
       ELSE missed.start > 0 \/ resume = began
  /\ OkIsWhole
=============================================================================
