--------------------------- MODULE CommandsProofs ---------------------------
(***************************************************************************)
(* The commands of the program for any length of answers, capacity of the  *)
(* channel, number of faults, limits, pages and sites.  The invariant IInv *)
(* is the conjunction of what the commands share and of each one's own     *)
(* part: the account of a prompt's events, the stages of discover, the     *)
(* pages of extract, the walk of collect-links, the file of fetch.         *)
(***************************************************************************)
EXTENDS Commands, SequenceTheorems, FiniteSetTheorems, WellFoundedInduction, TLAPS

-----------------------------------------------------------------------------
(* The script of an agent's process, and the pieces of it that are in the  *)
(* process and in the channel.                                             *)

Events == {"start", "text", "end"}

\* A script is `start`, the texts, `end`.
LEMMA ScriptIs ==
  /\ Script \in Seq(Events) /\ Len(Script) = Texts + 2
  /\ \A k \in 1..Texts + 2 :
       Script[k] = IF k = 1 THEN "start" ELSE IF k = Texts + 2 THEN "end" ELSE "text"
<1> DEFINE texts == [i \in 1..Texts |-> "text"]
<1>0. Texts \in Nat
  BY SessionAssumption
<1>1. texts \in Seq(Events) /\ Len(texts) = Texts /\ \A i \in 1..Texts : texts[i] = "text"
  BY <1>0, IsASeq DEF Events
<1>2. <<"start">> \in Seq(Events) /\ <<"end">> \in Seq(Events)
      /\ Len(<<"start">>) = 1 /\ Len(<<"end">>) = 1
  BY DEF Events
<1> HIDE DEF texts
<1> DEFINE front == <<"start">> \o texts
<1>3. /\ front \in Seq(Events) /\ Len(front) = Texts + 1
      /\ front[1] = "start" /\ \A i \in 2..Texts + 1 : front[i] = "text"
  BY <1>0, <1>1, <1>2, ConcatProperties
<1> HIDE DEF front
<1>4. Script = front \o <<"end">>
  BY DEF Script, front, texts
<1>5. QED
  BY <1>0, <1>2, <1>3, <1>4, ConcatProperties

\* The piece of a script between two places in it.
LEMMA PieceIs ==
  ASSUME NEW m \in 0..Texts + 2, NEW n \in 0..Texts + 2, m <= n
  PROVE  /\ SubSeq(Script, m + 1, n) \in Seq(Events)
         /\ Len(SubSeq(Script, m + 1, n)) = n - m
         /\ \A i \in 1..n - m : SubSeq(Script, m + 1, n)[i] = Script[m + i]
<1>1. Texts \in Nat /\ \A i \in m + 1..n : Script[i] \in Events
  BY SessionAssumption, ScriptIs, ElementOfSeq
<1>2. QED
  BY <1>1, SubSeqProperties

\* Its first event taken away,
LEMMA PieceTail ==
  ASSUME NEW m \in 0..Texts + 2, NEW n \in 0..Texts + 2, m < n
  PROVE  /\ SubSeq(Script, m + 1, n) # <<>>
         /\ Head(SubSeq(Script, m + 1, n)) = Script[m + 1]
         /\ Tail(SubSeq(Script, m + 1, n)) = SubSeq(Script, m + 2, n)
<1>1. Texts \in Nat /\ m + 1 \in 1..Texts + 2 /\ n \in m + 1..Texts + 2
  BY SessionAssumption
<1>2. QED
  BY <1>1, ScriptIs, PieceIs, HeadTailOfSubSeq

\* and the next one put behind it.
LEMMA PieceAppend ==
  ASSUME NEW m \in 0..Texts + 2, NEW n \in 0..Texts + 1, m <= n
  PROVE  Append(SubSeq(Script, m + 1, n), Script[n + 1]) = SubSeq(Script, m + 1, n + 1)
<1> DEFINE s == SubSeq(Script, m + 1, n)
           t == SubSeq(Script, m + 1, n + 1)
           a == Append(s, Script[n + 1])
<1>1. /\ Texts \in Nat /\ Script[n + 1] \in Events
      /\ n \in 0..Texts + 2 /\ n + 1 \in 0..Texts + 2 /\ m <= n + 1
  BY SessionAssumption, ScriptIs, ElementOfSeq
<1>2. s \in Seq(Events) /\ Len(s) = n - m /\ \A i \in 1..n - m : s[i] = Script[m + i]
  BY <1>1, PieceIs
<1>3. t \in Seq(Events) /\ Len(t) = n + 1 - m /\ \A i \in 1..n + 1 - m : t[i] = Script[m + i]
  <2>1. PICK k \in 0..Texts + 2 : k = n + 1 /\ m <= k
    BY <1>1
  <2>2. /\ SubSeq(Script, m + 1, k) \in Seq(Events)
        /\ Len(SubSeq(Script, m + 1, k)) = k - m
        /\ \A i \in 1..k - m : SubSeq(Script, m + 1, k)[i] = Script[m + i]
    BY <2>1, PieceIs
  <2>3. QED
    BY <2>1, <2>2
<1> HIDE DEF s, t
<1>4. /\ a \in Seq(Events) /\ Len(a) = n - m + 1
      /\ \A i \in 1..n - m : a[i] = s[i]
      /\ a[n - m + 1] = Script[n + 1]
  BY <1>1, <1>2, AppendProperties
<1> HIDE DEF a
<1>5. \A i \in 1..Len(a) : a[i] = t[i]
  BY <1>1, <1>2, <1>3, <1>4
<1>6. a = t
  <2>1. Len(a) = Len(t)
    BY <1>1, <1>3, <1>4
  <2>2. QED
    BY <1>3, <1>4, <1>5, <2>1, SeqEqual
<1>7. QED
  BY <1>6 DEF a, s, t

\* How many texts there are among one event more.
LEMMA OneMoreText ==
  ASSUME NEW n \in 0..Texts + 1
  PROVE  /\ TextsIn(n) \in 0..Texts /\ TextsIn(n + 1) \in 0..Texts
         /\ TextsIn(n + 1) = TextsIn(n) + (IF Script[n + 1] = "text" THEN 1 ELSE 0)
         /\ Script[n + 1] = "start" <=> n = 0
         /\ Script[n + 1] = "end" <=> n = Texts + 1
<1>1. Texts \in Nat /\ n + 1 \in 1..Texts + 2
  BY SessionAssumption
<1>2. Script[n + 1] = IF n = 0 THEN "start" ELSE IF n = Texts + 1 THEN "end" ELSE "text"
  BY <1>1, ScriptIs
<1>3. QED
  BY <1>1, <1>2 DEF TextsIn

-----------------------------------------------------------------------------
(* A prompt and the events of its process. *)

\* What is left to show when a prompt still runs after a step: the account,
\* and the types the account does not give.
LEMMA RunningInv ==
  ASSUME NEW g \in 0..Texts + 2, NEW e \in 0..Texts + 2, Account(g, e)',
         turn' \in {"spawned", "receiving"}, turn' = "spawned" => g = e,
         sent' \in Nat, text' \in Nat, died' \in BOOLEAN,
         missed' \in [faults: Nat, start: Nat, text: Nat],
         resume' \in SUBSET (1..sent'), began' \in SUBSET (1..sent'), e - g <= Capacity
  PROVE  SessionInv'
<1>1. Texts \in Nat
  BY SessionAssumption
<1>2. TextsIn(g) \in 0..Texts
  BY <1>1 DEF TextsIn
<1>3. text' \in 0..Texts
  BY <1>1, <1>2 DEF Account
<1>4. Len(channel') <= Capacity
  BY PieceIs DEF Account
<1>5. Len(process') <= Texts + 2
  <2>1. Len(SubSeq(Script, e + 1, Texts + 2)) = Texts + 2 - e
    BY <1>1, PieceIs
  <2>2. QED
    BY <1>1, <2>1, EmptySeq DEF Account
<1>6. SessionTypeOK'
  BY <1>3, <1>4, <1>5 DEF SessionTypeOK
<1>7. QED
  BY <1>6 DEF SessionInv, OkIsWhole

\* The facts a step of a running prompt starts from.
LEMMA RunningFacts ==
  ASSUME SessionInv, turn \in {"spawned", "receiving"}
  PROVE  /\ sent \in Nat /\ text \in Nat /\ died \in BOOLEAN
         /\ missed \in [faults: Nat, start: Nat, text: Nat]
         /\ resume \in SUBSET (1..sent) /\ began \in SUBSET (1..sent)
BY DEF SessionInv, SessionTypeOK

\* Its account has an entry for it.
LEMMA RunningAccount ==
  ASSUME SessionInv, turn \in {"spawned", "receiving"}
  PROVE  \E g \in 0..Texts + 2, e \in 0..Texts + 2 :
           Account(g, e) /\ (turn = "spawned" => g = e)
BY DEF SessionInv

\* What the account says of the prompt's number.
LEMMA AccountFacts ==
  ASSUME SessionInv, turn \in {"spawned", "receiving"},
         NEW g \in 0..Texts + 2, NEW e \in 0..Texts + 2, Account(g, e)
  PROVE  /\ Texts \in Nat /\ g <= e /\ sent > 0 /\ sent \in 1..sent
         /\ text + missed.text = TextsIn(g)
         /\ missed.start > 0 \/
              began = resume \cup (IF g = 0 /\ e > 0 THEN {sent} ELSE {})
         /\ channel = SubSeq(Script, g + 1, e) /\ Len(channel) = e - g
<1>1. /\ g <= e /\ sent > 0
      /\ text + missed.text = TextsIn(g)
      /\ missed.start > 0 \/
           began = resume \cup (IF g = 0 /\ e > 0 THEN {sent} ELSE {})
      /\ channel = SubSeq(Script, g + 1, e)
  BY DEF Account
<1>2. sent \in Nat /\ Texts \in Nat
  BY RunningFacts, SessionAssumption
<1>3. sent \in 1..sent
  BY <1>1, <1>2
<1>4. Len(channel) = e - g
  BY <1>1, PieceIs
<1>5. QED
  BY <1>1, <1>2, <1>3, <1>4

\* A lost event is counted.
LEMMA MissFacts ==
  ASSUME missed \in [faults: Nat, start: Nat, text: Nat], NEW n \in 0..Texts + 1,
         Miss(Script[n + 1])
  PROVE  /\ missed' \in [faults: Nat, start: Nat, text: Nat]
         /\ missed'.text = missed.text + (IF Script[n + 1] = "text" THEN 1 ELSE 0)
         /\ n = 0 => missed'.start > 0
         /\ missed.start > 0 => missed'.start > 0
<1> DEFINE ev == Script[n + 1]
<1>1. ev = "start" <=> n = 0
  BY OneMoreText
<1> HIDE DEF ev
<1>2. missed' = [faults |-> missed.faults + 1,
                 start |-> missed.start + (IF ev = "start" THEN 1 ELSE 0),
                 text |-> missed.text + (IF ev = "text" THEN 1 ELSE 0)]
  BY DEF Miss, ev
<1>3. missed.faults \in Nat /\ missed.start \in Nat /\ missed.text \in Nat
  OBVIOUS
<1>4. QED
  BY <1>1, <1>2, <1>3 DEF ev

\* A prompt begins with nothing emitted.
LEMMA SendKeeps ==
  ASSUME SessionInv, SendPrompt
  PROVE  SessionInv'
<1>1. /\ turn \in {"idle", "ok", "err"} /\ sent' = sent + 1 /\ text' = 0 /\ channel' = <<>>
      /\ died' = FALSE /\ missed' = [missed EXCEPT !.text = 0] /\ UNCHANGED <<resume, began>>
  BY DEF SendPrompt
<1>2. /\ sent \in Nat /\ missed' \in [faults: Nat, start: Nat, text: Nat]
      /\ missed'.text = 0 /\ missed'.start = missed.start
      /\ missed.start > 0 \/ resume = began
      /\ resume' \in SUBSET (1..sent') /\ began' \in SUBSET (1..sent')
      /\ Texts \in Nat /\ Capacity \in Nat \ {0}
  <2>1. /\ sent \in Nat /\ missed \in [faults: Nat, start: Nat, text: Nat]
        /\ resume \in SUBSET (1..sent) /\ began \in SUBSET (1..sent)
    BY DEF SessionInv, SessionTypeOK
  <2>2. missed.start > 0 \/ resume = began
    BY <1>1 DEF SessionInv
  <2>3. /\ missed' \in [faults: Nat, start: Nat, text: Nat]
        /\ missed'.text = 0 /\ missed'.start = missed.start
    BY <1>1, <2>1
  <2>4. resume' \in SUBSET (1..sent') /\ began' \in SUBSET (1..sent')
    <3>1. 1..sent \subseteq 1..sent'
      BY <1>1, <2>1
    <3>2. QED
      BY <1>1, <2>1, <3>1
  <2>5. QED
    BY <2>1, <2>2, <2>3, <2>4, SessionAssumption
<1>3. CASE turn' = "spawned" /\ process' = Script
  <2>1. SubSeq(Script, 1, 0) = <<>> /\ SubSeq(Script, 1, Texts + 2) = Script
    BY ScriptIs, SubSeqEmpty, SubSeqFull
  <2>2. Account(0, 0)'
    BY <1>1, <1>2, <1>3, <2>1 DEF Account, TextsIn
  <2>3. sent' \in Nat /\ text' \in Nat /\ 0 \in 0..Texts + 2 /\ 0 - 0 <= Capacity
    BY <1>1, <1>2
  <2>4. QED
    BY <1>1, <1>2, <1>3, <2>2, <2>3, RunningInv
<1>4. CASE turn' = "err" /\ process' = <<>>
  <2>1. SessionTypeOK'
    BY <1>1, <1>2, <1>4, EmptySeq DEF SessionTypeOK
  <2>2. QED
    BY <1>1, <1>2, <1>4, <2>1 DEF SessionInv, OkIsWhole
<1>5. QED
  BY <1>3, <1>4 DEF SendPrompt

\* An event emitted is heard, or lost to the account's knowledge.
LEMMA EmitKeeps ==
  ASSUME SessionInv, Emit
  PROVE  SessionInv'
<1>1. /\ turn \in {"spawned", "receiving"} /\ process # <<>> /\ process' = Tail(process)
      /\ began' = IF Head(process) = "start" THEN began \cup {sent} ELSE began
      /\ UNCHANGED <<turn, sent, resume, text, died>>
  BY DEF Emit
<1>2. PICK g \in 0..Texts + 2, e \in 0..Texts + 2 :
        Account(g, e) /\ (turn = "spawned" => g = e)
  BY <1>1, RunningAccount
<1>3. Texts \in Nat /\ Capacity \in Nat \ {0}
  BY SessionAssumption
<1>4. ~ died /\ process = SubSeq(Script, e + 1, Texts + 2) /\ e \in 0..Texts + 1
  <2>1. ~ died /\ process = SubSeq(Script, e + 1, Texts + 2)
    BY <1>1, <1>2 DEF Account
  <2>2. CASE e = Texts + 2
    BY <1>1, <1>3, <2>1, <2>2, SubSeqEmpty
  <2>3. QED
    BY <1>3, <2>1, <2>2
<1>5. Head(process) = Script[e + 1] /\ Tail(process) = SubSeq(Script, e + 2, Texts + 2)
  <2>1. Texts + 2 \in 0..Texts + 2 /\ e < Texts + 2
    BY <1>3, <1>4
  <2>2. QED
    BY <1>4, <2>1, PieceTail
<1>6. PICK f \in 0..Texts + 2 : f = e + 1 /\ f > 0
  BY <1>3, <1>4
<1>7. process' = IF died' THEN <<>> ELSE SubSeq(Script, f + 1, Texts + 2)
  <2>1. f + 1 = e + 2
    BY <1>3, <1>6
  <2>2. QED
    BY <1>1, <1>4, <1>5, <2>1
<1>8. began' = IF e = 0 THEN began \cup {sent} ELSE began
  BY <1>1, <1>3, <1>4, <1>5, OneMoreText
<1>9. /\ sent' \in Nat /\ text' \in Nat /\ died' \in BOOLEAN
      /\ resume' \in SUBSET (1..sent') /\ began' \in SUBSET (1..sent')
      /\ missed \in [faults: Nat, start: Nat, text: Nat]
  <2>1. sent \in 1..sent
    BY <1>1, <1>2, AccountFacts
  <2>2. QED
    BY <1>1, <1>8, RunningFacts, <2>1
<1>10. CASE turn = "spawned"
  <2>1. Miss(Script[e + 1]) /\ channel' = channel /\ g = e
    BY <1>2, <1>5, <1>10 DEF Emit
  <2>2. /\ missed' \in [faults: Nat, start: Nat, text: Nat]
        /\ missed'.text = missed.text + (IF Script[e + 1] = "text" THEN 1 ELSE 0)
        /\ e = 0 => missed'.start > 0
        /\ missed.start > 0 => missed'.start > 0
    BY <1>4, <1>9, <2>1, MissFacts
  <2>3. channel' = SubSeq(Script, f + 1, f)
    BY <1>2, <1>6, <2>1, SubSeqEmpty DEF Account
  <2>4. text' + missed'.text = TextsIn(f)
    <3>1. text + missed.text = TextsIn(e) /\ text \in Nat /\ missed.text \in Nat
      BY <1>1, <1>2, <1>9, <2>1, AccountFacts
    <3>2. TextsIn(f) = TextsIn(e) + (IF Script[e + 1] = "text" THEN 1 ELSE 0)
          /\ TextsIn(e) \in Nat
      BY <1>4, <1>6, OneMoreText
    <3> DEFINE more == IF Script[e + 1] = "text" THEN 1 ELSE 0
    <3>3. text' = text /\ missed'.text = missed.text + more /\ more \in Nat
      BY <1>1, <2>2
    <3>4. TextsIn(f) = TextsIn(e) + more
      BY <3>2
    <3> HIDE DEF more
    <3>5. QED
      BY <3>1, <3>3, <3>4
  <2>5. missed'.start > 0 \/ began' = resume' \cup (IF f = 0 /\ f > 0 THEN {sent'} ELSE {})
    <3>1. CASE e = 0
      BY <2>2, <3>1
    <3>2. CASE e # 0
      BY <1>1, <1>2, <1>6, <1>8, <2>1, <2>2, <3>2, AccountFacts
    <3>3. QED
      BY <3>1, <3>2
  <2>6. Account(f, f)'
    <3>1. sent' > 0
      BY <1>1, <1>2, AccountFacts
    <3>2. QED
      BY <1>6, <1>7, <2>3, <2>4, <2>5, <3>1 DEF Account
  <2>7. QED
    BY <1>1, <1>3, <1>6, <1>9, <2>2, <2>6, RunningInv
<1>11. CASE turn = "receiving" /\ Len(channel) < Capacity
  <2>1. channel' = Append(channel, Script[e + 1]) /\ missed' = missed
    BY <1>5, <1>11 DEF Emit
  <2>2. channel' = SubSeq(Script, g + 1, f)
    BY <1>2, <1>4, <1>6, <2>1, PieceAppend DEF Account
  <2>3. \/ missed'.start > 0
        \/ began' = resume' \cup (IF g = 0 /\ f > 0 THEN {sent'} ELSE {})
    BY <1>1, <1>2, <1>3, <1>6, <1>8, <2>1, AccountFacts
  <2>4. Account(g, f)'
    <3>1. sent' > 0 /\ g <= f /\ text' + missed'.text = TextsIn(g)
      BY <1>1, <1>2, <1>6, <2>1, AccountFacts
    <3>2. QED
      BY <1>7, <2>2, <2>3, <3>1 DEF Account
  <2>5. f - g <= Capacity
    BY <1>1, <1>2, <1>3, <1>6, <1>11, AccountFacts
  <2>6. QED
    BY <1>1, <1>9, <1>11, <2>1, <2>4, <2>5, RunningInv
<1>12. CASE turn = "receiving" /\ Len(channel) = Capacity
  <2>1. Miss(Head(channel)) /\ channel' = Append(Tail(channel), Script[e + 1])
    BY <1>3, <1>5, <1>12 DEF Emit
  <2>2. e - g = Capacity /\ g < e
    BY <1>1, <1>2, <1>3, <1>12, AccountFacts
  <2>3. PICK h \in 0..Texts + 2 : h = g + 1 /\ h > 0 /\ h <= e /\ g \in 0..Texts + 1
    BY <1>3, <1>4, <2>2
  <2>4. Head(channel) = Script[g + 1] /\ Tail(channel) = SubSeq(Script, h + 1, e)
    <3>1. h + 1 = g + 2
      BY <1>3, <2>3
    <3>2. QED
      BY <1>1, <1>2, <2>2, <3>1, PieceTail DEF Account
  <2>5. channel' = SubSeq(Script, h + 1, f)
    BY <1>4, <1>6, <2>1, <2>3, <2>4, PieceAppend
  <2>6. /\ missed' \in [faults: Nat, start: Nat, text: Nat]
        /\ missed'.text = missed.text + (IF Script[g + 1] = "text" THEN 1 ELSE 0)
        /\ g = 0 => missed'.start > 0
        /\ missed.start > 0 => missed'.start > 0
    BY <1>9, <2>1, <2>3, <2>4, MissFacts
  <2>7. text' + missed'.text = TextsIn(h)
    <3>1. text + missed.text = TextsIn(g) /\ text \in Nat /\ missed.text \in Nat
      BY <1>1, <1>2, <1>9, AccountFacts
    <3>2. TextsIn(h) = TextsIn(g) + (IF Script[g + 1] = "text" THEN 1 ELSE 0)
          /\ TextsIn(g) \in Nat
      BY <2>3, OneMoreText
    <3> DEFINE more == IF Script[g + 1] = "text" THEN 1 ELSE 0
    <3>3. text' = text /\ missed'.text = missed.text + more /\ more \in Nat
      BY <1>1, <2>6
    <3>4. TextsIn(h) = TextsIn(g) + more
      BY <3>2
    <3> HIDE DEF more
    <3>5. QED
      BY <3>1, <3>3, <3>4
  <2>8. missed'.start > 0 \/ began' = resume'
    <3>1. CASE g = 0
      BY <2>6, <3>1
    <3>2. CASE g # 0
      <4>1. e # 0 /\ (missed.start > 0 \/ began = resume)
        <5>1. missed.start > 0 \/
                began = resume \cup (IF g = 0 /\ e > 0 THEN {sent} ELSE {})
          BY <1>1, <1>2, AccountFacts
        <5>2. e # 0
          BY <1>3, <2>2
        <5>3. QED
          BY <3>2, <5>1, <5>2
      <4>2. QED
        BY <1>1, <1>8, <2>6, <4>1
    <3>3. QED
      BY <3>1, <3>2
  <2>9. Account(h, f)'
    <3>1. sent' > 0 /\ h <= f
      BY <1>1, <1>2, <1>6, <2>3, AccountFacts
    <3>2. QED
      BY <1>7, <2>3, <2>5, <2>7, <2>8, <3>1 DEF Account
  <2>10. f - h <= Capacity
    BY <1>3, <1>6, <2>2, <2>3
  <2>11. QED
    BY <1>1, <1>9, <1>12, <2>6, <2>9, <2>10, RunningInv
<1>13. QED
  BY <1>10, <1>11, <1>12 DEF Emit

\* A process that dies leaves the channel as it is.
LEMMA DiesKeeps ==
  ASSUME SessionInv, Dies
  PROVE  SessionInv'
<1>1. /\ turn \in {"spawned", "receiving"} /\ process' = <<>> /\ died' = TRUE
      /\ missed' = [missed EXCEPT !.faults = @ + 1]
      /\ UNCHANGED <<turn, sent, resume, text, channel, began>>
  BY DEF Dies
<1>2. PICK g \in 0..Texts + 2, e \in 0..Texts + 2 :
        Account(g, e) /\ (turn = "spawned" => g = e)
  BY <1>1, RunningAccount
<1>3. /\ missed' \in [faults: Nat, start: Nat, text: Nat]
      /\ missed'.text = missed.text /\ missed'.start = missed.start
  BY <1>1, RunningFacts
<1>4. Account(g, e)'
  BY <1>1, <1>2, <1>3 DEF Account
<1>5. e - g <= Capacity
  BY <1>2, PieceIs DEF Account, SessionInv, SessionTypeOK
<1>6. QED
  BY <1>1, <1>2, <1>3, <1>4, <1>5, RunningFacts, RunningInv

\* Subscribing changes nothing of the account.
LEMMA SubscribeKeeps ==
  ASSUME SessionInv, Subscribe
  PROVE  SessionInv'
<1>1. /\ turn = "spawned" /\ turn' = "receiving"
      /\ UNCHANGED <<sent, resume, text, channel, process, began, missed, died>>
  BY DEF Subscribe
<1>2. PICK g \in 0..Texts + 2, e \in 0..Texts + 2 : Account(g, e)
  BY <1>1, RunningAccount
<1>3. Account(g, e)'
  BY <1>1, <1>2 DEF Account
<1>4. e - g <= Capacity
  BY <1>2, PieceIs DEF Account, SessionInv, SessionTypeOK
<1>5. QED
  BY <1>1, <1>3, <1>4, RunningFacts, RunningInv

\* An event received is collected; with `end` the answer is whole.
LEMMA RecvKeeps ==
  ASSUME SessionInv, Recv
  PROVE  SessionInv'
<1>1. /\ turn = "receiving" /\ channel # <<>> /\ channel' = Tail(channel)
      /\ resume' = IF Head(channel) = "start" THEN resume \cup {sent} ELSE resume
      /\ text' = IF Head(channel) = "text" THEN text + 1 ELSE text
      /\ turn' = IF Head(channel) = "end" THEN "ok" ELSE turn
      /\ UNCHANGED <<sent, process, began, missed, died>>
  BY DEF Recv
<1>2. PICK g \in 0..Texts + 2, e \in 0..Texts + 2 : Account(g, e)
  BY <1>1, RunningAccount
<1>3. Texts \in Nat /\ Capacity \in Nat \ {0} /\ e - g <= Capacity
  BY <1>2, SessionAssumption, PieceIs DEF Account, SessionInv, SessionTypeOK
<1>4. g < e
  <2>1. CASE g = e
    BY <1>1, <1>2, <1>3, <2>1, SubSeqEmpty DEF Account
  <2>2. QED
    BY <1>2, <1>3, <2>1 DEF Account
<1>5. PICK h \in 0..Texts + 2 : h = g + 1 /\ h > 0 /\ h <= e /\ g \in 0..Texts + 1
  BY <1>3, <1>4
<1>6. Head(channel) = Script[g + 1] /\ channel' = SubSeq(Script, h + 1, e)
  <2>1. h + 1 = g + 2
    BY <1>3, <1>5
  <2>2. QED
    BY <1>1, <1>2, <1>4, <2>1, PieceTail DEF Account
<1>7. /\ resume' = IF g = 0 THEN resume \cup {sent} ELSE resume
      /\ text' + missed'.text = TextsIn(h)
      /\ turn' = IF g = Texts + 1 THEN "ok" ELSE turn
  <2>1. text + missed.text = TextsIn(g) /\ text \in Nat /\ missed.text \in Nat
    BY <1>1, <1>2, RunningFacts, AccountFacts
  <2>2. /\ TextsIn(h) = TextsIn(g) + (IF Script[g + 1] = "text" THEN 1 ELSE 0)
        /\ TextsIn(g) \in Nat
        /\ Script[g + 1] = "start" <=> g = 0
        /\ Script[g + 1] = "end" <=> g = Texts + 1
    BY <1>5, OneMoreText
  <2> DEFINE ev == Script[g + 1]
  <2>3. /\ resume' = IF ev = "start" THEN resume \cup {sent} ELSE resume
        /\ text' = IF ev = "text" THEN text + 1 ELSE text
        /\ turn' = IF ev = "end" THEN "ok" ELSE turn
        /\ missed' = missed
    BY <1>1, <1>6
  <2> HIDE DEF ev
  <2>4. text' + missed'.text = TextsIn(g) + (IF ev = "text" THEN 1 ELSE 0)
    BY <2>1, <2>3
  <2>5. QED
    BY <2>2, <2>3, <2>4 DEF ev
<1>8. missed'.start > 0 \/ began' = resume'
  <2>1. e > 0 /\ (missed.start > 0 \/
          began = resume \cup (IF g = 0 /\ e > 0 THEN {sent} ELSE {}))
    BY <1>1, <1>2, <1>4, AccountFacts
  <2>2. QED
    BY <1>1, <1>7, <2>1
<1>9. Account(h, e)'
  <2>1. sent' > 0 /\ process' = IF died' THEN <<>> ELSE SubSeq(Script, e + 1, Texts + 2)
    BY <1>1, <1>2 DEF Account
  <2>2. QED
    BY <1>5, <1>6, <1>7, <1>8, <2>1 DEF Account
<1>10. /\ sent' \in Nat /\ text' \in Nat /\ died' \in BOOLEAN
       /\ missed' \in [faults: Nat, start: Nat, text: Nat]
       /\ resume' \in SUBSET (1..sent') /\ began' \in SUBSET (1..sent')
  <2>1. sent \in 1..sent
    BY <1>1, <1>2, AccountFacts
  <2>2. /\ sent \in Nat /\ text \in Nat /\ died \in BOOLEAN
        /\ missed \in [faults: Nat, start: Nat, text: Nat]
        /\ resume \in SUBSET (1..sent) /\ began \in SUBSET (1..sent)
    BY <1>1, RunningFacts
  <2>3. /\ sent' \in Nat /\ died' \in BOOLEAN
        /\ missed' \in [faults: Nat, start: Nat, text: Nat]
    BY <1>1, <2>2
  <2>4. text' \in Nat
    BY <1>1, <2>2
  <2>5. resume' \in SUBSET (1..sent') /\ began' \in SUBSET (1..sent')
    BY <1>1, <1>7, <2>1, <2>2
  <2>6. QED
    BY <2>3, <2>4, <2>5
<1>11. CASE g # Texts + 1
  <2>1. e - h <= Capacity
    <3>1. e \in Nat /\ g \in Nat /\ Capacity \in Nat
      BY <1>3
    <3>2. h = g + 1 /\ e - g <= Capacity
      BY <1>3, <1>5
    <3>3. QED
      BY <3>1, <3>2
  <2>2. turn' \in {"spawned", "receiving"} /\ (turn' = "spawned" => h = e)
    BY <1>1, <1>7, <1>11
  <2>3. QED
    BY <1>9, <1>10, <2>1, <2>2, RunningInv
<1>12. CASE g = Texts + 1
  <2>1. turn' = "ok" /\ TextsIn(h) = Texts
    BY <1>3, <1>5, <1>7, <1>12 DEF TextsIn
  <2>2. text' \in 0..Texts /\ text' + missed'.text = Texts
    BY <1>3, <1>7, <1>10, <2>1
  <2>3. Len(channel') <= Capacity
    <3>1. Len(channel') = e - h
      BY <1>5, <1>6, PieceIs
    <3>2. e \in Nat /\ g \in Nat /\ Capacity \in Nat /\ h = g + 1 /\ e - g <= Capacity
      BY <1>3, <1>5
    <3>3. QED
      BY <3>1, <3>2
  <2>4. Len(process') <= Texts + 2
    BY <1>1 DEF SessionInv, SessionTypeOK
  <2>5. SessionTypeOK'
    BY <1>10, <2>1, <2>2, <2>3, <2>4 DEF SessionTypeOK
  <2>6. QED
    BY <1>8, <1>10, <2>1, <2>2, <2>5 DEF SessionInv, OkIsWhole
<1>13. QED
  BY <1>11, <1>12

\* When nothing more can come, nothing is lacking but what was lost.
LEMMA ClosedKeeps ==
  ASSUME SessionInv, RecvClosed
  PROVE  SessionInv'
<1>1. /\ turn = "receiving" /\ channel = <<>> /\ process = <<>> /\ turn' = "ok"
      /\ UNCHANGED <<sent, resume, text, channel, process, began, missed, died>>
  BY DEF RecvClosed
<1>2. PICK g \in 0..Texts + 2, e \in 0..Texts + 2 : Account(g, e)
  BY <1>1, RunningAccount
<1>3. Texts \in Nat
  BY SessionAssumption
<1>4. g = e
  BY <1>1, <1>2, <1>3, PieceTail DEF Account
<1>5. ~ died => e = Texts + 2
  <2>1. Texts + 2 \in 0..Texts + 2
    BY <1>3
  <2>2. ASSUME ~ died, e # Texts + 2 PROVE FALSE
    <3>1. e < Texts + 2 /\ SubSeq(Script, e + 1, Texts + 2) = <<>>
      BY <1>1, <1>2, <1>3, <2>2 DEF Account
    <3>2. QED
      BY <2>1, <3>1, PieceTail
  <2>3. QED
    BY <2>2
<1>6. ~ died => text + missed.text = Texts
  BY <1>2, <1>3, <1>4, <1>5 DEF Account, TextsIn
<1>7. missed.start > 0 \/ resume = began
  <2>1. missed.start > 0 \/ began = resume \cup (IF g = 0 /\ e > 0 THEN {sent} ELSE {})
    BY <1>1, <1>2, AccountFacts
  <2>2. CASE g = 0
    BY <1>4, <2>1, <2>2
  <2>3. CASE g # 0
    BY <2>1, <2>3
  <2>4. QED
    BY <2>2, <2>3
<1>8. SessionTypeOK'
  BY <1>1 DEF SessionInv, SessionTypeOK
<1>9. OkIsWhole'
  <2>1. text \in Nat /\ missed.text \in Nat /\ UNCHANGED <<text, missed, died>>
    BY <1>1, RunningFacts
  <2>2. ~ died => text = Texts \/ missed.text > 0
    BY <1>3, <1>6, <2>1
  <2>3. QED
    BY <2>1, <2>2 DEF OkIsWhole
<1>10. QED
  BY <1>1, <1>7, <1>8, <1>9 DEF SessionInv

\* A deadline drops what is in the channel, and counts a `start` there as lost.
LEMMA DeadlineKeeps ==
  ASSUME SessionInv, Deadline
  PROVE  SessionInv'
<1>1. /\ turn = "receiving" /\ turn' = "err" /\ process' = <<>> /\ channel' = <<>>
      /\ IF channel # <<>> /\ Head(channel) = "start" THEN Miss("start")
                                                     ELSE UNCHANGED missed
      /\ UNCHANGED <<sent, resume, text, began, died>>
  BY DEF Deadline
<1>2. PICK g \in 0..Texts + 2, e \in 0..Texts + 2 : Account(g, e)
  BY <1>1, RunningAccount
<1>3. Texts \in Nat /\ missed \in [faults: Nat, start: Nat, text: Nat]
  BY SessionAssumption DEF SessionInv
<1>4. g = 0 /\ e > 0 => channel # <<>> /\ Head(channel) = "start"
  <2>1. ASSUME g = 0, e > 0 PROVE channel # <<>> /\ Head(channel) = Script[1]
    <3>1. channel = SubSeq(Script, g + 1, e) /\ g < e
      BY <1>2, <2>1 DEF Account
    <3>2. channel # <<>> /\ Head(channel) = Script[g + 1]
      BY <3>1, PieceTail
    <3>3. g + 1 = 1
      BY <2>1
    <3>4. QED
      BY <3>2, <3>3
  <2>2. Script[1] = "start"
    BY <1>3, ScriptIs
  <2>3. QED
    BY <2>1, <2>2
<1>5. /\ missed' \in [faults: Nat, start: Nat, text: Nat]
      /\ missed'.start > 0 \/ resume' = began'
  <2>1. missed.start > 0 \/ began = resume \cup (IF g = 0 /\ e > 0 THEN {sent} ELSE {})
    BY <1>1, <1>2, AccountFacts
  <2>2. CASE missed' = missed
    <3>1. ~ (channel # <<>> /\ Head(channel) = "start") \/ missed.start > 0
      BY <1>1, <1>3, <2>2 DEF Miss
    <3>2. QED
      BY <1>1, <1>3, <1>4, <2>1, <2>2, <3>1
  <2>3. CASE Miss("start")
    BY <1>3, <2>3 DEF Miss
  <2>4. QED
    BY <1>1, <2>2, <2>3
<1>6. SessionTypeOK'
  BY <1>1, <1>3, EmptySeq, SessionAssumption DEF SessionInv, SessionTypeOK
<1>7. QED
  BY <1>1, <1>5, <1>6 DEF SessionInv, OkIsWhole

\* A step of the receiver or of the agent keeps the account.
LEMMA WaitingKeeps ==
  ASSUME SessionInv, Receiver \/ Agent
  PROVE  SessionInv'
BY EmitKeeps, DiesKeeps, SubscribeKeeps, RecvKeeps, ClosedKeeps, DeadlineKeeps DEF Receiver, Agent

\* Only SendPrompt numbers prompts.
LEMMA WaitingSendsNothing ==
  ASSUME Receiver \/ Agent
  PROVE  sent' = sent
BY DEF Receiver, Agent, Emit, Dies, Subscribe, Recv, RecvClosed, Deadline

-----------------------------------------------------------------------------
(* The stages of discover. *)

\* The verdict changes the profile's flags and nothing else.
LEMMA VerdictFacts ==
  ASSUME NEW p \in [from: 0..sent, confident: BOOLEAN, validated: BOOLEAN],
         NEW passed \in BOOLEAN, NEW conf, NEW q,
         q = [p EXCEPT !.validated = passed,
                !.confident = IF conf = "zero" THEN @ ELSE conf = "high"]
  PROVE  /\ q \in [from: 0..sent, confident: BOOLEAN, validated: BOOLEAN]
         /\ q.from = p.from /\ q.validated = passed
OBVIOUS

\* A prompt is one more, and with it the numbers a profile may come from.
LEMMA SendFacts ==
  ASSUME SendPrompt, DiscoverTypeOK
  PROVE  /\ sent \in Nat /\ sent' = sent + 1
         /\ profile \in [from: 0..sent', confident: BOOLEAN, validated: BOOLEAN]
         /\ judged \in 0..sent'
<1>1. sent' = sent + 1 /\ sent \in Nat
  BY DEF SendPrompt, DiscoverTypeOK, SessionTypeOK
<1> DEFINE m == sent
<1>2. profile \in [from: 0..m, confident: BOOLEAN, validated: BOOLEAN] /\ judged \in 0..m
  BY DEF DiscoverTypeOK
<1>3. m \in Nat
  BY <1>1
<1> HIDE DEF m
<1>4. 0..m \subseteq 0..m + 1
  BY <1>3
<1>5. /\ profile \in [from: 0..m + 1, confident: BOOLEAN, validated: BOOLEAN]
      /\ judged \in 0..m + 1
  BY <1>2, <1>4
<1>6. QED
  BY <1>1, <1>5 DEF m

\* A prompt sent from a step that counts fewer than it may is no harm.
LEMMA AskKeeps ==
  ASSUME DiscoverInv, SessionTypeOK',
         \/ AskDiscovery \/ AskAgain \/ AskValidation \/ AskActions
         \/ AskReextract \/ Ask("visual", "visual")
  PROVE  DiscoverInv'
<1> USE DEF D, At, Goto, Flags, Fetcher
<1>1. /\ SendPrompt /\ command = "discover" /\ exit = "running" /\ pc' = "answer"
      /\ UNCHANGED <<command, browser, handle, tabs, exit, maxLevel, jobDir, navs, records,
                     profile, saved, judged>>
      /\ \/ pc = "discovery" /\ asked' = "discovery" /\ level' = level
         \/ pc = "again" /\ asked' = "again" /\ level' = level
         \/ pc = "validate" /\ asked' = "validation" /\ level' = level
         \/ pc = "L2" /\ asked' = "actions" /\ level' = level \cup {2}
         \/ pc = "reextract" /\ asked' = "reextract" /\ level' = level
         \/ pc = "visual" /\ asked' = "visual" /\ level' = level
  BY DEF AskDiscovery, AskAgain, AskValidation, AskActions, AskReextract, Ask
<1>2. sent \in Nat /\ sent' = sent + 1 /\ navs \in Nat
  <2>1. DiscoverTypeOK
    BY DEF DiscoverInv
  <2>2. navs \in Nat
    BY <2>1, DiscoverAssumption DEF DiscoverTypeOK
  <2>3. QED
    BY <1>1, <2>1, <2>2, SendFacts
<1>3. DiscoverTypeOK'
  <2>1. /\ profile' \in [from: 0..sent', confident: BOOLEAN, validated: BOOLEAN]
        /\ judged' \in 0..sent'
    BY <1>1, SendFacts DEF DiscoverInv
  <2>2. level' \subseteq 1..3
    <3>1. level \subseteq 1..3 /\ 2 \in 1..3
      BY DEF DiscoverInv, DiscoverTypeOK
    <3>2. level' = level \/ level' = level \cup {2}
      BY <1>1
    <3>3. QED
      BY <3>1, <3>2
  <2>3. /\ maxLevel' \in 1..3 /\ jobDir' \in {"none", "there", "gone", "stuck"}
        /\ navs' \in 0..MaxNav /\ records' \in Found \cup {0}
        /\ saved' \in BOOLEAN
    BY <1>1 DEF DiscoverInv, DiscoverTypeOK
  <2>4. QED
    BY <2>1, <2>2, <2>3 DEF DiscoverTypeOK
<1>4. ShouldEscalate' = ShouldEscalate
  BY <1>1 DEF ShouldEscalate
<1>5. ValidatedWasJudged'
  BY <1>1 DEF DiscoverInv, ValidatedWasJudged
<1>6. PromptsSoFar'
  BY <1>1, <1>2 DEF DiscoverInv, PromptsSoFar, Between
<1>7. TabsSoFar'
  BY <1>1 DEF DiscoverInv, TabsSoFar, Between
<1>8. ProfileFound'
  BY <1>1 DEF DiscoverInv, ProfileFound, Between
<1>9. LevelsTried'
  BY <1>1, <1>4 DEF DiscoverInv, LevelsTried, Between
<1>10. Closing'
  BY <1>1 DEF DiscoverInv, Closing
<1>11. QED
  BY <1>1, <1>3, <1>5, <1>6, <1>7, <1>8, <1>9, <1>10 DEF DiscoverInv

\* A step that changes nothing of the discovery's state.
LEMMA SameFacts ==
  ASSUME DiscoverInv, SessionTypeOK', UNCHANGED sent, UNCHANGED discovery
  PROVE  /\ DiscoverTypeOK' /\ ValidatedWasJudged'
         /\ ShouldEscalate' = ShouldEscalate
BY DEF discovery, DiscoverInv, DiscoverTypeOK, ValidatedWasJudged, ShouldEscalate

\* The steps of level 1 that send no prompt.
LEMMA L1Keeps ==
  ASSUME DiscoverInv, CliInv, SessionTypeOK', L1
  PROVE  DiscoverInv'
<1> USE DiscoverAssumption
<1> USE DEF D, At, Goto, Exit, Flags, Fetcher, Same, Fetched, FetchFails, NewTab, session,
     discovery, Between, DiscoverInv, DiscoverTypeOK, ValidatedWasJudged, PromptsSoFar,
     TabsSoFar, ProfileFound, LevelsTried, Closing, CliInv, CliTypeOK, Answered, Unanswered
<1>1. CASE DiscoverStart
  BY <1>1 DEF DiscoverStart, MakeFetcher
<1>2. CASE DiscoverFetch
  BY <1>2 DEF DiscoverFetch
<1>3. CASE DiscoverFiles
  BY <1>3 DEF DiscoverFiles
<1>4. CASE DiscoveryFails \/ DiscoveryUnparsed \/ AgainFails \/ NotValidated
  <2>1. /\ pc = "answer" /\ command = "discover" /\ exit = "running"
        /\ \/ exit' = "err" /\ pc' = pc
           \/ exit' = exit /\ asked = "validation" /\ pc' = "L2"
        /\ UNCHANGED <<command, browser, handle, tabs, sent, discovery>>
    BY <1>4 DEF DiscoveryFails, DiscoveryUnparsed, AgainFails, NotValidated
  <2>2. DiscoverTypeOK' /\ ValidatedWasJudged'
        /\ ShouldEscalate' = ShouldEscalate
    BY <2>1, SameFacts
  <2>3. PromptsSoFar' /\ TabsSoFar'
    BY <2>1
  <2>4. ProfileFound' /\ LevelsTried' /\ Closing'
    BY <2>1, <2>2
  <2>5. QED
    BY <2>1, <2>2, <2>3, <2>4
<1>5. CASE Navigate
  <2>1. /\ pc = "answer" /\ asked \in {"discovery", "again"} /\ command = "discover"
        /\ exit = "running"
        /\ UNCHANGED <<command, browser, handle, tabs, session, maxLevel, jobDir, asked,
                       records, profile, level, saved, judged>>
        /\ \/ exit' = "err" /\ pc' = pc /\ navs' = navs
           \/ exit' = exit /\ pc' = "navigate" /\ navs' = navs + 1 /\ ~ navs >= MaxNav
    BY <1>5 DEF Navigate
  <2>2. navs \in Nat /\ MaxNav \in Nat /\ sent \in Nat /\ tabs \in Nat
    BY DEF SessionTypeOK
  <2>3. navs' \in 0..MaxNav
    BY <2>1, <2>2
  <2>4. DiscoverTypeOK'
    <3>1. navs' \in 0..MaxNav
      BY <2>1, <2>3
    <3>2. UNCHANGED <<sent, maxLevel, jobDir, records, profile, level, saved, judged>>
      BY <2>1
    <3>3. QED
      BY <3>1, <3>2
  <2>5. PromptsSoFar' /\ TabsSoFar'
    BY <2>1, <2>2
  <2>6. ProfileFound' /\ LevelsTried' /\ Closing' /\ ValidatedWasJudged'
    BY <2>1
  <2>7. QED
    BY <2>1, <2>4, <2>5, <2>6
<1>6. CASE NavFetch
  BY <1>6 DEF NavFetch
<1>7. ASSUME NEW n \in Found, NEW confident \in BOOLEAN, Discovered(n, confident)
      PROVE  DiscoverInv'
  <2>1. /\ pc = "answer" /\ asked \in {"discovery", "again"} /\ command = "discover"
        /\ exit = "running" /\ pc' \in {"validate", "L2"}
        /\ profile' = [from |-> sent, confident |-> confident, validated |-> FALSE]
        /\ records' = n /\ level' = {1}
        /\ UNCHANGED <<command, browser, handle, tabs, exit, session, maxLevel, jobDir, navs,
                       asked, saved, judged>>
    BY <1>7 DEF Discovered
  <2>2. sent \in Nat /\ sent \in 0..sent /\ navs \in Nat
    BY DEF SessionTypeOK
  <2>3. /\ profile' \in [from: 0..sent', confident: BOOLEAN, validated: BOOLEAN]
        /\ ~ profile'.validated
    BY <2>1, <2>2
  <2>4. DiscoverTypeOK'
    BY <2>1, <2>3
  <2>5. PromptsSoFar' /\ TabsSoFar'
    BY <2>1, <2>2
  <2>6. ProfileFound' /\ LevelsTried' /\ Closing' /\ ValidatedWasJudged'
    BY <2>1, <2>3
  <2>7. QED
    BY <2>1, <2>4, <2>5, <2>6
<1>8. ASSUME NEW passed \in BOOLEAN, NEW conf \in {"zero", "low", "high"},
             Validated(passed, conf)
      PROVE  DiscoverInv'
  <2> DEFINE q == [profile EXCEPT !.validated = passed,
                     !.confident = IF conf = "zero" THEN @ ELSE conf = "high"]
  <2>1. /\ pc = "answer" /\ asked = "validation" /\ command = "discover"
        /\ exit = "running" /\ pc' = "L2" /\ profile' = q
        /\ judged' = IF passed THEN profile.from ELSE judged
        /\ UNCHANGED <<command, browser, handle, tabs, exit, session, maxLevel, jobDir, navs,
                       asked, records, level, saved>>
    BY <1>8 DEF Validated
  <2>2. /\ profile \in [from: 0..sent, confident: BOOLEAN, validated: BOOLEAN]
        /\ sent \in Nat /\ navs \in Nat
    BY DEF SessionTypeOK
  <2>q. q = [profile EXCEPT !.validated = passed,
               !.confident = IF conf = "zero" THEN @ ELSE conf = "high"]
    OBVIOUS
  <2> HIDE DEF q
  <2>3. /\ q \in [from: 0..sent, confident: BOOLEAN, validated: BOOLEAN]
        /\ q.from = profile.from /\ q.validated = passed
    <3>1. passed \in BOOLEAN
      BY <1>8
    <3>2. profile \in [from: 0..sent, confident: BOOLEAN, validated: BOOLEAN]
      BY <2>2
    <3>3. QED
      BY <2>q, <3>1, <3>2, VerdictFacts
  <2>4. DiscoverTypeOK'
    <3>1. judged' \in 0..sent'
      BY <2>1, <2>2
    <3>2. /\ profile' \in [from: 0..sent', confident: BOOLEAN, validated: BOOLEAN]
          /\ UNCHANGED <<maxLevel, jobDir, navs, records, level, saved>>
      BY <2>1, <2>3
    <3>3. QED
      BY <3>1, <3>2
  <2>5. PromptsSoFar' /\ TabsSoFar'
    BY <2>1, <2>2
  <2>6. ProfileFound' /\ LevelsTried' /\ Closing'
    BY <2>1
  <2>7. ValidatedWasJudged'
    BY <2>1, <2>3
  <2>8. QED
    BY <2>1, <2>4, <2>5, <2>6, <2>7
<1>9. QED
  BY <1>1, <1>2, <1>3, <1>4, <1>5, <1>6, <1>7, <1>8, AskKeeps DEF L1

\* The steps of level 2 that send no prompt.
LEMMA L2Keeps ==
  ASSUME DiscoverInv, CliInv, SessionTypeOK', L2
  PROVE  DiscoverInv'
<1> USE DiscoverAssumption
<1> USE DEF D, At, Goto, Exit, Flags, Fetcher, Same, Fetched, FetchFails, NewTab, session,
     discovery, Between, DiscoverInv, DiscoverTypeOK, ValidatedWasJudged, PromptsSoFar,
     TabsSoFar, ProfileFound, LevelsTried, Closing, CliInv, CliTypeOK, Answered, Unanswered
<1>0. sent \in Nat /\ sent \in 0..sent /\ navs \in Nat /\ tabs \in Nat
  BY DEF SessionTypeOK
<1>1. CASE SkipL2
  <2>1. /\ pc = "L2" /\ pc' = "L3" /\ UNCHANGED <<handle, tabs, exit>>
        /\ ~ (browser /\ maxLevel >= 2 /\ ShouldEscalate)
        /\ command = "discover" /\ exit = "running"
        /\ UNCHANGED <<command, browser, sent, discovery>>
    BY <1>1 DEF SkipL2, MayActL2
  <2>2. DiscoverTypeOK' /\ ValidatedWasJudged'
        /\ ShouldEscalate' = ShouldEscalate
    BY <2>1, SameFacts
  <2>3. PromptsSoFar' /\ TabsSoFar'
    BY <1>0, <2>1
  <2>4. ProfileFound' /\ LevelsTried' /\ Closing'
    BY <2>1, <2>2
  <2>5. QED
    BY <2>1, <2>2, <2>3, <2>4
<1>2. CASE NoActions \/ NotReextracted
  <2>1. /\ pc = "answer" /\ asked \in {"actions", "reextract"} /\ UNCHANGED <<handle, tabs>>
        /\ \/ exit' = "running" /\ pc' = "L3"
           \/ exit' = "panic" /\ pc' = pc
        /\ command = "discover" /\ exit = "running"
        /\ UNCHANGED <<command, browser, sent, discovery>>
    BY <1>2 DEF NoActions, NotReextracted
  <2>2. DiscoverTypeOK' /\ ValidatedWasJudged'
        /\ ShouldEscalate' = ShouldEscalate
    BY <2>1, SameFacts
  <2>3. PromptsSoFar' /\ TabsSoFar'
    BY <1>0, <2>1
  <2>4. ProfileFound' /\ LevelsTried' /\ Closing'
    BY <2>1, <2>2
  <2>5. QED
    BY <2>1, <2>2, <2>3, <2>4
<1>3. CASE ActFails
  <2>1. /\ pc = "answer" /\ asked = "actions" /\ pc' = "L3" /\ UNCHANGED <<handle, exit>>
        /\ tabs' \in {tabs, tabs + 1}
        /\ command = "discover" /\ exit = "running"
        /\ UNCHANGED <<command, browser, sent, discovery>>
    BY <1>3 DEF ActFails
  <2>2. DiscoverTypeOK' /\ ValidatedWasJudged'
        /\ ShouldEscalate' = ShouldEscalate
    BY <2>1, SameFacts
  <2>3. PromptsSoFar' /\ TabsSoFar'
    BY <1>0, <2>1
  <2>4. ProfileFound' /\ LevelsTried' /\ Closing'
    BY <2>1, <2>2
  <2>5. QED
    BY <2>1, <2>2, <2>3, <2>4
<1>4. ASSUME NEW n \in Found, Act(n)
      PROVE  DiscoverInv'
  <2>1. /\ pc = "answer" /\ asked = "actions" /\ command = "discover"
        /\ exit = "running" /\ pc' \in {"L3", "reextract"}
        /\ tabs' \in {tabs, tabs + 1}
        /\ records' \in {n, records}
        /\ UNCHANGED <<command, browser, handle, exit, session, maxLevel, jobDir, navs,
                       asked, profile, level, saved, judged>>
    BY <1>4 DEF Act
  <2>2. DiscoverTypeOK'
    BY <2>1
  <2>3. PromptsSoFar' /\ TabsSoFar'
    BY <1>0, <2>1
  <2>4. ProfileFound' /\ LevelsTried' /\ Closing' /\ ValidatedWasJudged'
    BY <2>1
  <2>5. QED
    BY <2>1, <2>2, <2>3, <2>4
<1>5. ASSUME NEW n \in Found, NEW confident \in BOOLEAN, Reextracted(n, confident)
      PROVE  DiscoverInv'
  <2> DEFINE q == [from |-> sent, confident |-> confident, validated |-> FALSE]
  <2>1. /\ pc = "answer" /\ asked = "reextract" /\ command = "discover"
        /\ exit = "running" /\ pc' = "L3"
        /\ records' \in {n, records} /\ profile' \in {q, profile}
        /\ UNCHANGED <<command, browser, handle, tabs, exit, session, maxLevel, jobDir, navs,
                       asked, level, saved, judged>>
    BY <1>5 DEF Reextracted
  <2>2. q \in [from: 0..sent, confident: BOOLEAN, validated: BOOLEAN] /\ ~ q.validated
    BY <1>0
  <2> HIDE DEF q
  <2>3. DiscoverTypeOK'
    <3>1. profile' \in [from: 0..sent', confident: BOOLEAN, validated: BOOLEAN]
      BY <2>1, <2>2
    <3>2. records' \in Found \cup {0}
      BY <2>1
    <3>3. QED
      BY <2>1, <3>1, <3>2
  <2>4. PromptsSoFar' /\ TabsSoFar'
    BY <1>0, <2>1
  <2>5. ProfileFound' /\ LevelsTried' /\ Closing'
    BY <2>1
  <2>6. ValidatedWasJudged'
    BY <2>1, <2>2
  <2>7. QED
    BY <2>1, <2>3, <2>4, <2>5, <2>6
<1>6. QED
  BY <1>1, <1>2, <1>3, <1>4, <1>5, AskKeeps DEF L2

\* The steps of level 3 that send no prompt, and the end.
LEMMA L3Keeps ==
  ASSUME DiscoverInv, CliInv, SessionTypeOK', L3 \/ CloseAll \/ SaveProfile
  PROVE  DiscoverInv'
<1> USE DiscoverAssumption
<1> USE DEF D, At, Goto, Exit, Flags, Fetcher, Same, Fetched, FetchFails, NewTab, session,
     discovery, Between, DiscoverInv, DiscoverTypeOK, ValidatedWasJudged, PromptsSoFar,
     TabsSoFar, ProfileFound, LevelsTried, Closing, CliInv, CliTypeOK, Answered, Unanswered
<1>0. sent \in Nat /\ sent \in 0..sent /\ navs \in Nat /\ tabs \in Nat
  BY DEF SessionTypeOK
<1>1. CASE SkipL3
  <2>1. /\ pc = "L3" /\ pc' = "close" /\ UNCHANGED <<handle, tabs, exit>>
        /\ ~ (browser /\ maxLevel >= 3 /\ ShouldEscalate)
        /\ command = "discover" /\ exit = "running"
        /\ UNCHANGED <<command, browser, sent, discovery>>
    BY <1>1 DEF SkipL3, MayLook
  <2>2. DiscoverTypeOK' /\ ValidatedWasJudged'
        /\ ShouldEscalate' = ShouldEscalate
    BY <2>1, SameFacts
  <2>3. PromptsSoFar' /\ TabsSoFar'
    BY <1>0, <2>1
  <2>4. ProfileFound' /\ LevelsTried' /\ Closing'
    BY <2>1, <2>2
  <2>5. QED
    BY <2>1, <2>2, <2>3, <2>4
<1>2. CASE Look
  <2>1. /\ pc = "L3" /\ command = "discover" /\ exit = "running"
        /\ \/ exit' = "running" /\ pc' \in {"visual", "close"}
           \/ exit' = "err" /\ pc' = "L3"
        /\ tabs' \in {tabs, tabs + 1} /\ level' = level \cup {3}
        /\ UNCHANGED <<command, browser, handle, session, maxLevel, jobDir, navs,
                       asked, records, profile, saved, judged>>
    BY <1>2 DEF Look
  <2>2. ShouldEscalate' = ShouldEscalate
    BY <2>1 DEF ShouldEscalate
  <2>3. DiscoverTypeOK'
    BY <2>1
  <2>4. PromptsSoFar' /\ TabsSoFar'
    BY <1>0, <2>1
  <2>5. ProfileFound' /\ LevelsTried' /\ Closing' /\ ValidatedWasJudged'
    BY <2>1, <2>2
  <2>6. QED
    BY <2>1, <2>3, <2>4, <2>5
<1>3. ASSUME NEW n \in Found, ActVisually(n)
      PROVE  DiscoverInv'
  <2>1. /\ pc = "answer" /\ asked = "visual" /\ command = "discover"
        /\ exit = "running" /\ pc' = "close"
        /\ records' = IF n > records THEN n ELSE records
        /\ UNCHANGED <<command, browser, handle, tabs, exit, session, maxLevel, jobDir, navs,
                       asked, profile, level, saved, judged>>
    BY <1>3 DEF ActVisually
  <2>2. n \in Int /\ records \in Int
    OBVIOUS
  <2>3. ShouldEscalate' => ShouldEscalate
    BY <2>1, <2>2 DEF ShouldEscalate
  <2>4. DiscoverTypeOK'
    BY <2>1
  <2>5. PromptsSoFar' /\ TabsSoFar'
    BY <1>0, <2>1
  <2>6. ProfileFound' /\ LevelsTried' /\ Closing' /\ ValidatedWasJudged'
    BY <2>1, <2>3
  <2>7. QED
    BY <2>1, <2>4, <2>5, <2>6
<1>4. CASE NoVisual
  <2>1. /\ pc = "answer" /\ asked = "visual" /\ pc' = "close"
        /\ UNCHANGED <<handle, tabs, exit>>
        /\ command = "discover" /\ exit = "running"
        /\ UNCHANGED <<command, browser, sent, discovery>>
    BY <1>4 DEF NoVisual
  <2>2. DiscoverTypeOK' /\ ValidatedWasJudged'
        /\ ShouldEscalate' = ShouldEscalate
    BY <2>1, SameFacts
  <2>3. PromptsSoFar' /\ TabsSoFar'
    BY <1>0, <2>1
  <2>4. ProfileFound' /\ LevelsTried' /\ Closing'
    BY <2>1, <2>2
  <2>5. QED
    BY <2>1, <2>2, <2>3, <2>4
<1>5. CASE CloseAll
  <2>1. /\ pc = "close" /\ pc' = "save" /\ command = "discover" /\ exit = "running"
        /\ jobDir' \in {"gone", "stuck"} /\ handle' # "browser" /\ tabs' \in {0, tabs}
        /\ UNCHANGED <<command, browser, exit, sent, maxLevel, navs, asked,
                       records, profile, level, saved, judged>>
    BY <1>5 DEF CloseAll, Shutdown
  <2>2. ShouldEscalate' = ShouldEscalate
    BY <2>1 DEF ShouldEscalate
  <2>3. DiscoverTypeOK'
    <3>1. jobDir' \in {"none", "there", "gone", "stuck"}
      BY <2>1
    <3>2. QED
      BY <2>1, <3>1
  <2>4. PromptsSoFar' /\ TabsSoFar'
    BY <1>0, <2>1
  <2>5. ProfileFound' /\ LevelsTried' /\ Closing' /\ ValidatedWasJudged'
    BY <2>1, <2>2
  <2>6. QED
    BY <2>1, <2>3, <2>4, <2>5
<1>6. CASE SaveProfile
  <2>1. /\ pc = "save" /\ pc' = pc /\ command = "discover" /\ exit = "running"
        /\ \/ exit' = "ok" /\ saved' = TRUE
           \/ exit' = "err" /\ saved' = saved
        /\ UNCHANGED <<command, browser, handle, tabs, sent, maxLevel, jobDir, navs, asked,
                       records, profile, level, judged>>
    BY <1>6 DEF SaveProfile
  <2>2. ShouldEscalate' = ShouldEscalate
    BY <2>1 DEF ShouldEscalate
  <2>3. DiscoverTypeOK'
    <3>1. saved' \in BOOLEAN
      BY <2>1
    <3>2. QED
      BY <2>1, <3>1
  <2>4. PromptsSoFar' /\ TabsSoFar'
    BY <1>0, <2>1
  <2>5. ProfileFound' /\ LevelsTried' /\ Closing' /\ ValidatedWasJudged'
    BY <2>1, <2>2
  <2>6. QED
    BY <2>1, <2>3, <2>4, <2>5
<1>7. CASE D("visual") /\ Exit("panic") /\ Fetcher /\ Same
  <2>1. /\ pc = "visual" /\ pc' = pc /\ command = "discover" /\ exit = "running"
        /\ exit' = "panic" /\ UNCHANGED <<command, browser, handle, tabs, sent, discovery>>
    BY <1>7
  <2>2. DiscoverTypeOK' /\ ValidatedWasJudged'
        /\ ShouldEscalate' = ShouldEscalate
    BY <2>1, SameFacts
  <2>3. PromptsSoFar' /\ TabsSoFar'
    BY <1>0, <2>1
  <2>4. ProfileFound' /\ LevelsTried' /\ Closing'
    BY <2>1, <2>2
  <2>5. QED
    BY <2>1, <2>2, <2>3, <2>4
<1>8. AskVisual => Ask("visual", "visual") \/ (D("visual") /\ Exit("panic") /\ Fetcher /\ Same)
  BY DEF AskVisual
<1>9. QED
  BY <1>1, <1>2, <1>3, <1>4, <1>5, <1>6, <1>7, <1>8, AskKeeps DEF L3

\* A step that changes nothing of the command either.
LEMMA DiscoverSame ==
  ASSUME DiscoverInv, SessionTypeOK', UNCHANGED <<cli, discovery>>, UNCHANGED sent
  PROVE  DiscoverInv'
<1>1. UNCHANGED <<cli, discovery, sent>>
  OBVIOUS
<1>2. DiscoverTypeOK' /\ ValidatedWasJudged'
      /\ ShouldEscalate' = ShouldEscalate
  BY <1>1, SameFacts
<1>3. PromptsSoFar' <=> PromptsSoFar
  BY <1>1 DEF cli, discovery, PromptsSoFar, Between
<1>4. TabsSoFar' <=> TabsSoFar
  BY <1>1 DEF cli, discovery, TabsSoFar, Between
<1>5. (ProfileFound' <=> ProfileFound) /\ (Closing' <=> Closing)
  BY <1>1 DEF cli, discovery, ProfileFound, Closing, Between
<1>6. LevelsTried' <=> LevelsTried
  BY <1>1, <1>2 DEF cli, discovery, LevelsTried, Between
<1>7. QED
  BY <1>1, <1>2, <1>3, <1>4, <1>5, <1>6 DEF cli, discovery, DiscoverInv

\* While the command waits for an answer nothing of the discovery changes.
LEMMA WaitingSame ==
  ASSUME DiscoverInv, SessionTypeOK', Waiting(Receiver) \/ Waiting(Agent)
  PROVE  DiscoverInv'
<1>1. UNCHANGED <<cli, discovery>> /\ UNCHANGED sent
  BY WaitingSendsNothing DEF Waiting
<1>2. QED
  BY <1>1, DiscoverSame

\* The other commands do not touch it either.
LEMMA OthersSame ==
  ASSUME DiscoverInv, SessionTypeOK', command # "discover", UNCHANGED command,
         UNCHANGED sent, UNCHANGED discovery, pc = "navigate" => pc' = "navigate"
  PROVE  DiscoverInv'
<1>1. DiscoverTypeOK' /\ ValidatedWasJudged'
  BY SameFacts
<1>2. QED
  BY <1>1 DEF DiscoverInv, discovery

-----------------------------------------------------------------------------
(* The fetcher, and the other commands. *)

\* Every step of discover leaves the fetcher and the end as they must be.
LEMMA DiscoverCli ==
  ASSUME CliInv, DiscoverInv, DiscoverNext
  PROVE  CliInv' /\ command = "discover" /\ UNCHANGED command
<1> USE DEF D, At, Goto, Exit, Flags, Fetcher, Same, Fetched, FetchFails, NewTab, CliInv,
     CliTypeOK, Answered, Unanswered, Ask
<1>1. ASSUME L1 PROVE CliInv' /\ command = "discover" /\ UNCHANGED command
  <2>1. CASE DiscoverStart
    BY <2>1 DEF DiscoverStart, MakeFetcher
  <2>2. CASE DiscoverFetch \/ NavFetch
    BY <2>2 DEF DiscoverFetch, NavFetch
  <2>3. CASE DiscoverFiles
    BY <2>3 DEF DiscoverFiles
  <2>4. CASE AskDiscovery \/ AskAgain \/ AskValidation
    BY <2>4 DEF AskDiscovery, AskAgain, AskValidation
  <2>5. CASE DiscoveryFails \/ DiscoveryUnparsed \/ AgainFails \/ NotValidated \/ Navigate
    BY <2>5 DEF DiscoveryFails, DiscoveryUnparsed, AgainFails, NotValidated, Navigate
  <2>6. ASSUME NEW n, NEW confident, Discovered(n, confident)
        PROVE  CliInv' /\ command = "discover" /\ UNCHANGED command
    BY <2>6 DEF Discovered
  <2>7. ASSUME NEW passed, NEW conf, Validated(passed, conf)
        PROVE  CliInv' /\ command = "discover" /\ UNCHANGED command
    BY <2>7 DEF Validated
  <2>8. QED
    BY <1>1, <2>1, <2>2, <2>3, <2>4, <2>5, <2>6, <2>7 DEF L1
<1>2. ASSUME L2 PROVE CliInv' /\ command = "discover" /\ UNCHANGED command
  <2>1. CASE SkipL2 \/ NoActions \/ NotReextracted
    BY <2>1 DEF SkipL2, NoActions, NotReextracted
  <2>2. CASE AskActions \/ AskReextract
    BY <2>2 DEF AskActions, AskReextract
  <2>3. CASE ActFails
    BY <2>3 DEF ActFails
  <2>4. ASSUME NEW n, Act(n) PROVE CliInv' /\ command = "discover" /\ UNCHANGED command
    BY <2>4 DEF Act
  <2>5. ASSUME NEW n, NEW confident, Reextracted(n, confident)
        PROVE  CliInv' /\ command = "discover" /\ UNCHANGED command
    BY <2>5 DEF Reextracted
  <2>6. QED
    BY <1>2, <2>1, <2>2, <2>3, <2>4, <2>5 DEF L2
<1>3. ASSUME L3 PROVE CliInv' /\ command = "discover" /\ UNCHANGED command
  <2>1. CASE SkipL3 \/ NoVisual
    BY <2>1 DEF SkipL3, NoVisual
  <2>2. CASE Look
    BY <2>2 DEF Look
  <2>3. CASE AskVisual
    BY <2>3 DEF AskVisual
  <2>4. ASSUME NEW n, ActVisually(n) PROVE CliInv' /\ command = "discover" /\ UNCHANGED command
    BY <2>4 DEF ActVisually
  <2>5. QED
    BY <1>3, <2>1, <2>2, <2>3, <2>4 DEF L3
<1>4. CASE CloseAll
  BY <1>4 DEF CloseAll, Shutdown
<1>5. CASE SaveProfile
  <2>1. command = "discover" => (pc = "save" => handle # "browser")
    BY DEF DiscoverInv, Closing
  <2>2. QED
    BY <1>5, <2>1 DEF SaveProfile
<1>6. CASE Waiting(Receiver) \/ Waiting(Agent)
  BY <1>6 DEF Waiting, cli
<1>7. QED
  BY <1>1, <1>2, <1>3, <1>4, <1>5, <1>6 DEF DiscoverNext, DiscoverStep

\* extract reads the page it is sent to before it looks for the next, and
\* writes nothing before it has read the last.
LEMMA ExtractSteps ==
  ASSUME CliInv, ExtractInv, ExtractNext
  PROVE  /\ CliInv' /\ ExtractInv' /\ command = "extract" /\ UNCHANGED command
         /\ pc # "navigate"
<1> USE DEF X, At, Goto, Exit, Flags, Fetcher, Fetched, FetchFails, NewTab, CliInv, CliTypeOK,
     extraction, ExtractInv, ExtractReadsThenWrites
<1>1. CASE ExtractStart
  BY <1>1 DEF ExtractStart, MakeFetcher
<1>2. CASE ExtractPage
  <2>1. Len(Append(pages, nextPage)) = Len(pages) + 1 /\ Len(pages) \in Nat
        /\ Append(pages, nextPage) \in Seq(Pages)
    BY AppendProperties, LenProperties
  <2>2. written = 0 /\ written' = written /\ exit' # "ok" /\ pc' # "output"
    BY <1>2 DEF ExtractPage
  <2>3. CASE pages' = Append(pages, nextPage)
    <3>1. Append(pages, nextPage)[Len(Append(pages, nextPage))] = nextPage
      BY <2>1, AppendProperties
    <3>2. QED
      BY <1>2, <2>1, <2>2, <2>3, <3>1 DEF ExtractPage
  <2>4. CASE pages' = pages
    BY <1>2, <2>1, <2>2, <2>4 DEF ExtractPage
  <2>5. QED
    BY <1>2, <2>3, <2>4 DEF ExtractPage
<1>3. CASE FollowNext
  BY <1>3 DEF FollowNext
<1>4. CASE NoPages
  BY <1>4 DEF NoPages
<1>5. CASE ExtractOutput
  BY <1>5 DEF ExtractOutput, Shutdown
<1>6. QED
  BY <1>1, <1>2, <1>3, <1>4, <1>5 DEF ExtractNext

\* collect-links shuts its browser down on the way out.
LEMMA CollectSteps ==
  ASSUME CliInv, CollectNext
  PROVE  CliInv' /\ command = "collect-links" /\ UNCHANGED command /\ pc # "navigate"
<1> USE DEF K, At, Goto, Exit, Flags, Fetcher, Fetched, FetchFails, NewTab, CliInv, CliTypeOK
<1>1. CASE CollectStart
  BY <1>1 DEF CollectStart, MakeFetcher
<1>2. CASE CollectPage
  BY <1>2 DEF CollectPage
<1>3. CASE CollectFails
  BY <1>3 DEF CollectFails
<1>4. CASE CollectEnd
  BY <1>4 DEF CollectEnd, Shutdown
<1>5. QED
  BY <1>1, <1>2, <1>3, <1>4 DEF CollectNext

\* The commands that look at one page do so as well, and fetch has its file
\* written before.
LEMMA SingleSteps ==
  ASSUME CliInv, SingleInv, SingleNext
  PROVE  /\ CliInv' /\ SingleInv' /\ UNCHANGED command /\ pc # "navigate"
         /\ command \in {"fetch", "test-selector", "export-spec"}
<1> USE DEF F, T, At, Goto, Exit, Flags, Fetcher, Fetched, FetchFails, NewTab, CliInv, CliTypeOK,
     SingleInv, OkIsWritten, MakeFetcher, Shutdown
<1>1. CASE FetchStart \/ TestStart
  BY <1>1 DEF FetchStart, TestStart
<1>2. CASE FetchPage \/ TestPage
  BY <1>2 DEF FetchPage, TestPage
<1>3. CASE FetchWrite
  BY <1>3 DEF FetchWrite, WriteOutput
<1>4. CASE FetchEnd
  BY <1>4 DEF FetchEnd
<1>5. CASE TestMatches \/ TestRecords
  BY <1>5 DEF TestMatches, TestRecords
<1>6. CASE ExportSpec
  BY <1>6 DEF ExportSpec
<1>7. QED
  BY <1>1, <1>2, <1>3, <1>4, <1>5, <1>6 DEF SingleNext

\* A step of discover sends a prompt, waits for its answer, or leaves the
\* session alone.
LEMMA DiscoverSession ==
  ASSUME SessionInv, DiscoverNext
  PROVE  SessionInv'
<1>1. SendPrompt \/ Receiver \/ Agent \/ UNCHANGED session
  <2>1. ASSUME L1 PROVE SendPrompt \/ UNCHANGED session
    BY <2>1 DEF L1, DiscoverStart, DiscoverFetch, DiscoverFiles, AskDiscovery, AskAgain,
       AskValidation, Ask, DiscoveryFails, DiscoveryUnparsed, AgainFails, NotValidated, Navigate,
       NavFetch, Discovered, Validated, Same
  <2>2. ASSUME L2 PROVE SendPrompt \/ UNCHANGED session
    BY <2>2 DEF L2, SkipL2, AskActions, NoActions, ActFails, Act, AskReextract, Ask,
       NotReextracted, Reextracted, Same
  <2>3. ASSUME L3 PROVE SendPrompt \/ UNCHANGED session
    BY <2>3 DEF L3, SkipL3, Look, AskVisual, Ask, NoVisual, ActVisually, Same
  <2>4. ASSUME CloseAll \/ SaveProfile PROVE UNCHANGED session
    BY <2>4 DEF CloseAll, SaveProfile
  <2>5. ASSUME Waiting(Receiver) \/ Waiting(Agent) PROVE Receiver \/ Agent
    BY <2>5 DEF Waiting
  <2>6. QED
    BY <2>1, <2>2, <2>3, <2>4, <2>5 DEF DiscoverNext, DiscoverStep
<1>2. CASE UNCHANGED session
  BY <1>2 DEF session, SessionInv, SessionTypeOK, Account, OkIsWhole
<1>3. QED
  BY <1>1, <1>2, SendKeeps, WaitingKeeps

\* A step of the other commands leaves it alone.
LEMMA SessionSame ==
  ASSUME SessionInv, UNCHANGED session
  PROVE  SessionInv' /\ SessionTypeOK' /\ UNCHANGED sent
BY DEF session, SessionInv, SessionTypeOK, Account, OkIsWhole

-----------------------------------------------------------------------------
(* What a recursive definition computes.  The induction theorems of the    *)
(* library take an operator; with a set in its place, and the order of the *)
(* numbers well-founded, a property of every value is first-order.         *)

\* Induction on the members of a set of numbers, from the well-foundedness of
\* the order.
LEMMA SetInduction ==
  ASSUME NEW S, 0 \in S, \A n \in Nat : n \in S => n + 1 \in S
  PROVE  Nat \subseteq S
<1> DEFINE R == OpToRel(<, Nat)
<1>1. IsWellFoundedOn(R, Nat)
  BY NatLessThanWellFounded
<1>2. \A m, n \in Nat : m < n => <<m, n>> \in R
  BY DEF OpToRel
<1> HIDE DEF R
<1> SUFFICES ASSUME Nat \ S # {} PROVE FALSE
  OBVIOUS
<1>3. PICK x \in Nat \ S : \A y \in Nat \ S : ~ (<<y, x>> \in R)
  BY <1>1, WFMin
<1>4. x \in Nat /\ x # 0
  OBVIOUS
<1>5. x - 1 \in Nat /\ <<x - 1, x>> \in R
  BY <1>2, <1>4
<1>6. x - 1 \in S /\ x - 1 + 1 = x
  BY <1>3, <1>5
<1>7. QED
  BY <1>5, <1>6, <1>3

\* The values that begin with `first` and go on by N functions on the set Vs.
Steps(Vs, N) == [1..N -> [Vs -> Vs]]
Runs(Vs, first, N, next) ==
  {g \in [0..N -> Vs] : g[0] = first /\ \A n \in 1..N : g[n] = next[n][g[n - 1]]}

\* There are such values: what a recursive definition up to a bound needs.
LEMMA Recursion ==
  ASSUME NEW Vs, NEW first \in Vs, NEW N \in Nat, NEW next \in Steps(Vs, N)
  PROVE  Runs(Vs, first, N, next) # {}
<1> USE DEF Steps, Runs
<1> DEFINE Upto(k, g) == g[0] = first /\ \A n \in 1..k : g[n] = next[n][g[n - 1]]
           S == {k \in Nat : k <= N => \E g \in [0..k -> Vs] : Upto(k, g)}
<1>1. 0 \in S
  <2>1. [i \in 0..0 |-> first] \in [0..0 -> Vs] /\ Upto(0, [i \in 0..0 |-> first])
    OBVIOUS
  <2>2. QED
    BY <2>1
<1>2. ASSUME NEW k \in Nat, k \in S PROVE k + 1 \in S
  <2>1. SUFFICES ASSUME k + 1 <= N PROVE \E g \in [0..k + 1 -> Vs] : Upto(k + 1, g)
    OBVIOUS
  <2>2. PICK g \in [0..k -> Vs] : Upto(k, g)
    BY <1>2, <2>1
  <2> DEFINE h == [i \in 0..k + 1 |-> IF i = k + 1 THEN next[k + 1][g[k]] ELSE g[i]]
  <2>3. next[k + 1][g[k]] \in Vs
    BY <2>1, <2>2
  <2>4. h \in [0..k + 1 -> Vs]
    BY <2>2, <2>3
  <2>5. Upto(k + 1, h)
    <3>0. \A i \in 0..k + 1 : h[i] = IF i = k + 1 THEN next[k + 1][g[k]] ELSE g[i]
      OBVIOUS
    <3> HIDE DEF h
    <3>1. h[0] = first
      BY <2>2, <3>0
    <3>2. ASSUME NEW n \in 1..k + 1 PROVE h[n] = next[n][h[n - 1]]
      <4>0. n - 1 \in 0..k /\ n - 1 # k + 1 /\ h[n - 1] = g[n - 1]
        BY <3>0
      <4>1. CASE n = k + 1
        <5>1. n - 1 = k /\ h[n] = next[n][g[k]]
          BY <3>0, <4>1
        <5>2. QED
          BY <4>0, <4>1, <5>1
      <4>2. CASE n # k + 1
        <5>1. n \in 1..k
          BY <4>2
        <5>2. QED
          BY <2>2, <3>0, <4>0, <5>1
      <4>3. QED
        BY <4>1, <4>2
    <3>3. QED
      BY <3>1, <3>2
  <2>6. QED
    BY <2>4, <2>5
<1> HIDE DEF S
<1>3. Nat \subseteq S
  BY <1>1, <1>2, SetInduction
<1>4. QED
  BY <1>3 DEF S

-----------------------------------------------------------------------------
(* What collect-links sees: the new links of a page, the URLs within reach. *)

\* A new member behind a sequence that has each of its own once.
LEMMA AppendIsNew ==
  ASSUME NEW U, NEW s \in Seq(U), NEW x \in U, IsInjective(s), x \notin ToSet(s)
  PROVE  /\ Append(s, x) \in Seq(U) /\ IsInjective(Append(s, x))
         /\ ToSet(Append(s, x)) = ToSet(s) \cup {x}
<1> DEFINE n == Len(s)
           t == Append(s, x)
<1>1. /\ n \in Nat /\ DOMAIN s = 1..n
      /\ t \in Seq(U) /\ Len(t) = n + 1 /\ DOMAIN t = 1..n + 1
      /\ \A i \in 1..n : t[i] = s[i]
      /\ t[n + 1] = x
  BY AppendProperties, LenProperties
<1> HIDE DEF n, t
<1>2. \A i \in 1..n + 1 : i \in 1..n \/ i = n + 1
  BY <1>1
<1>3. \A i \in 1..n : s[i] # x
  BY <1>1 DEF ToSet
<1>4. IsInjective(t)
  BY <1>1, <1>2, <1>3 DEF IsInjective
<1>5. ToSet(t) = ToSet(s) \cup {x}
  BY <1>1, <1>2 DEF ToSet
<1>6. QED
  BY <1>1, <1>4, <1>5 DEF t

\* The links of a page that are new are those not seen yet, each once.
LEMMA NewLinksAre ==
  ASSUME NEW url, NEW list \in Seq(Links), site[url] = list
  PROVE  /\ NewLinks(url) \in Seq(Links \ visited) /\ IsInjective(NewLinks(url))
         /\ ToSet(NewLinks(url)) = ToSet(list) \ visited
<1> DEFINE n == Len(list)
           Is(f) == f = [i \in 0..n |->
                      IF i = 0 THEN <<>>
                      ELSE IF list[i] \in visited \cup ToSet(f[i - 1]) THEN f[i - 1]
                      ELSE Append(f[i - 1], list[i])]
           next == [i \in 1..n |-> [new \in Seq(Links) |->
                      IF list[i] \in visited \cup ToSet(new) THEN new
                      ELSE Append(new, list[i])]]
           seen == CHOOSE f : Is(f)
<1>1. n \in Nat /\ \A i \in 1..n : list[i] \in Links
  BY LenProperties, ElementOfSeq
<1>2. <<>> \in Seq(Links)
  BY EmptySeq
<1>3. next \in [1..n -> [Seq(Links) -> Seq(Links)]]
  BY <1>1, AppendProperties
<1>4. \E g \in [0..n -> Seq(Links)] :
        g[0] = <<>> /\ \A i \in 1..n : g[i] = next[i][g[i - 1]]
  <2> DEFINE Vs == Seq(Links)
             first == <<>>
  <2>1. n \in Nat /\ first \in Vs /\ next \in Steps(Vs, n)
    BY <1>1, <1>2, <1>3 DEF Steps
  <2> HIDE DEF next, n, Vs, first
  <2>2. Runs(Vs, first, n, next) # {}
    BY <2>1, Recursion
  <2>3. QED
    BY <2>2 DEF Runs, Vs, first
<1>5. PICK g \in [0..n -> Seq(Links)] :
        g[0] = <<>> /\ \A i \in 1..n : g[i] = next[i][g[i - 1]]
  BY <1>4
<1>6. ASSUME NEW i \in 1..n
      PROVE  g[i] = IF list[i] \in visited \cup ToSet(g[i - 1]) THEN g[i - 1]
                    ELSE Append(g[i - 1], list[i])
  <2>1. g[i - 1] \in Seq(Links)
    BY <1>1, <1>5
  <2>2. QED
    BY <1>5, <2>1
<1>7. Is(g)
  <2> DEFINE body(i) == IF i = 0 THEN <<>>
                        ELSE IF list[i] \in visited \cup ToSet(g[i - 1]) THEN g[i - 1]
                        ELSE Append(g[i - 1], list[i])
  <2>1. ASSUME NEW i \in 0..n PROVE g[i] = body(i)
    <3>1. i = 0 \/ i \in 1..n
      BY <1>1
    <3>2. QED
      BY <1>5, <1>6, <3>1
  <2> HIDE DEF body
  <2>2. g = [i \in 0..n |-> body(i)]
    BY <1>5, <2>1
  <2>3. QED
    BY <2>2 DEF body
<1>8. Is(seen)
  BY <1>7
<1>9. NewLinks(url) = seen[n]
  BY DEF NewLinks
<1> HIDE DEF Is
<1>10. /\ seen[0] = <<>>
       /\ \A i \in 1..n : seen[i] = IF list[i] \in visited \cup ToSet(seen[i - 1]) THEN seen[i - 1]
                                   ELSE Append(seen[i - 1], list[i])
  <2>1. 0 \in 0..n /\ \A i \in 1..n : i \in 0..n /\ i # 0
    BY <1>1
  <2> HIDE DEF seen
  <2>2. seen = [i \in 0..n |->
          IF i = 0 THEN <<>>
          ELSE IF list[i] \in visited \cup ToSet(seen[i - 1]) THEN seen[i - 1]
          ELSE Append(seen[i - 1], list[i])]
    BY <1>8 DEF Is
  <2> HIDE DEF n
  <2>3. QED
    BY <2>1, <2>2
<1> HIDE DEF seen
<1> DEFINE Right(i) ==
             /\ seen[i] \in Seq(Links \ visited) /\ IsInjective(seen[i])
             /\ ToSet(seen[i]) = {list[j] : j \in 1..i} \ visited
           S == {i \in Nat : i <= n => Right(i)}
<1>11. 0 \in S
  <2>1. DOMAIN <<>> = {} /\ <<>> \in Seq(Links \ visited)
    BY EmptySeq
  <2>2. IsInjective(<<>>) /\ ToSet(<<>>) = {}
    BY <2>1 DEF IsInjective, ToSet
  <2>3. {list[j] : j \in 1..0} = {}
    OBVIOUS
  <2>4. QED
    BY <1>10, <2>1, <2>2, <2>3
<1>12. ASSUME NEW i \in Nat, i \in S PROVE i + 1 \in S
  <2> SUFFICES ASSUME i + 1 <= n PROVE Right(i + 1)
    OBVIOUS
  <2> DEFINE s == seen[i]
             x == list[i + 1]
  <2>1. /\ s \in Seq(Links \ visited) /\ IsInjective(s)
        /\ ToSet(s) = {list[j] : j \in 1..i} \ visited
    BY <1>12
  <2>2. x \in Links /\ seen[i + 1] = IF x \in visited \cup ToSet(s) THEN s ELSE Append(s, x)
    <3>1. i + 1 \in 1..n /\ i + 1 - 1 = i
      BY <1>1
    <3>2. PICK k \in 1..n : k = i + 1 /\ k - 1 = i
      BY <3>1
    <3> HIDE DEF n
    <3>3. QED
      BY <1>1, <1>10, <3>2
  <2>3. {list[j] : j \in 1..i + 1} = {list[j] : j \in 1..i} \cup {x}
    OBVIOUS
  <2> HIDE DEF s, x
  <2>4. CASE x \in visited \cup ToSet(s)
    BY <2>1, <2>2, <2>3, <2>4
  <2>5. CASE x \notin visited \cup ToSet(s)
    <3>1. x \in Links \ visited /\ seen[i + 1] = Append(s, x)
      BY <2>2, <2>5
    <3>2. Append(s, x) \in Seq(Links \ visited) /\ IsInjective(Append(s, x))
          /\ ToSet(Append(s, x)) = ToSet(s) \cup {x}
      BY <2>1, <2>5, <3>1, AppendIsNew
    <3>3. QED
      BY <2>1, <2>3, <2>5, <3>1, <3>2
  <2>6. QED
    BY <2>4, <2>5
<1> HIDE DEF S
<1>13. n \in S
  BY <1>1, <1>11, <1>12, SetInduction
<1>14. ToSet(list) = {list[j] : j \in 1..n}
  BY LenProperties DEF ToSet
<1>15. QED
  BY <1>9, <1>13, <1>14 DEF S

\* The URLs within reach by their definition.
LEMMA WithinIs ==
  ASSUME site \in Sites
  PROVE  /\ Within[0] = {Seed}
         /\ \A k \in 1..MaxDepth + 1 :
              Within[k] = Within[k - 1] \cup UNION {ToSet(site[u]) : u \in Within[k - 1] \ failed}
<1> DEFINE n == MaxDepth + 1
           Vs == SUBSET (Links \cup {Seed})
           first == {Seed}
           More(W) == W \cup UNION {ToSet(site[u]) : u \in W \ failed}
           Is(w) == w = [k \in 0..n |-> IF k = 0 THEN {Seed} ELSE
                      w[k - 1] \cup UNION {ToSet(site[u]) : u \in w[k - 1] \ failed}]
           next == [k \in 1..n |-> [W \in Vs |-> More(W)]]
           reach == CHOOSE w : Is(w)
<1>1. n \in Nat /\ first \in Vs
  BY CollectAssumption
<1>2. ASSUME NEW W \in Vs PROVE More(W) \in Vs
  <2>1. ASSUME NEW u \in W PROVE ToSet(site[u]) \subseteq Links
    <3>1. site[u] \in Seq(Links)
      BY <1>2, CollectAssumption
    <3>2. QED
      BY <3>1, LenProperties, ElementOfSeq DEF ToSet
  <2>2. QED
    BY <2>1
<1> HIDE DEF More
<1>3. next \in Steps(Vs, n)
  BY <1>2 DEF Steps
<1>4. Runs(Vs, first, n, next) # {}
  <2> HIDE DEF n, Vs, first, next
  <2>1. QED
    BY <1>1, <1>3, Recursion
<1>5. PICK g \in [0..n -> Vs] : g[0] = {Seed} /\ \A k \in 1..n : g[k] = next[k][g[k - 1]]
  BY <1>4 DEF Runs
<1>6. ASSUME NEW k \in 1..n PROVE g[k] = More(g[k - 1])
  <2>1. k - 1 \in 0..n
    BY <1>1
  <2>2. g[k - 1] \in Vs
    BY <1>5, <2>1
  <2>3. QED
    BY <1>5, <2>2
<1>7. Is(g)
  <2> DEFINE body(k) == IF k = 0 THEN {Seed} ELSE More(g[k - 1])
  <2>1. ASSUME NEW k \in 0..n PROVE g[k] = body(k)
    <3>1. k = 0 \/ k \in 1..n
      BY <1>1
    <3>2. QED
      BY <1>5, <1>6, <3>1
  <2> HIDE DEF body
  <2>2. g = [k \in 0..n |-> body(k)]
    BY <1>5, <2>1
  <2>3. QED
    BY <2>2 DEF body, More
<1>8. Is(reach)
  BY <1>7
<1>9. Within = reach
  BY DEF Within
<1>10. reach = [k \in 0..n |-> IF k = 0 THEN {Seed} ELSE More(reach[k - 1])]
  <2> HIDE DEF reach
  <2>1. QED
    BY <1>8 DEF Is, More
<1> HIDE DEF reach, Is
<1>11. reach[0] = {Seed} /\ \A k \in 1..n : reach[k] = More(reach[k - 1])
  <2>1. 0 \in 0..n /\ \A k \in 1..n : k \in 0..n /\ k # 0
    BY <1>1
  <2>2. QED
    BY <1>10, <2>1
<1>12. QED
  BY <1>9, <1>11 DEF More

\* When nothing waits any more, what was seen within k links is what is within
\* k links: a breadth-first walk never finds a URL later than it has to.
LEMMA SeenIsReached ==
  ASSUME WalkInv, queue = <<>>
  PROVE  \A k \in 0..depth + 1 : Within[k] = {u \in visited : dist[u] <= k}
<1> DEFINE V(k) == {u \in visited : dist[u] <= k}
           S == {k \in Nat : k <= depth + 1 => Within[k] = V(k)}
<1>1. /\ site \in Sites /\ depth \in 0..MaxDepth /\ MaxDepth \in Nat /\ depth \in Nat
      /\ Seed \in visited /\ dist[Seed] = 0 /\ \A u \in visited : dist[u] \in Nat
      /\ EachOnce /\ LinkedTo /\ InOrder(fetched)
  BY CollectAssumption DEF WalkInv
<1>2. Urls(fetched) \subseteq visited /\ Urls(queue) = {}
  <2>1. Urls(fetched) \subseteq visited
    <3>1. ASSUME NEW i \in DOMAIN fetched PROVE fetched[i][1] \in visited
      BY <1>1, LenProperties, ElementOfSeq DEF InOrder
    <3>2. QED
      BY <3>1 DEF Urls
  <2>2. DOMAIN queue = {}
    BY EmptySeq
  <2>3. QED
    BY <2>1, <2>2 DEF Urls
<1>3. /\ Within[0] = {Seed}
      /\ \A k \in 1..MaxDepth + 1 :
           Within[k] = Within[k - 1] \cup UNION {ToSet(site[u]) : u \in Within[k - 1] \ failed}
  BY <1>1, WithinIs
<1>4. \A u \in visited \ {Seed} : \E p \in Urls(fetched) :
        u \in ToSet(site[p]) /\ dist[u] = dist[p] + 1
  BY <1>1 DEF LinkedTo
<1>5. \A p \in Urls(fetched) : \A u \in ToSet(site[p]) : u \in visited /\ dist[u] <= dist[p] + 1
  BY <1>1 DEF LinkedTo
<1>6. 0 \in S
  <2>1. ASSUME NEW u \in visited \ {Seed} PROVE dist[u] > 0
    BY <1>1, <1>2, <1>4
  <2>2. V(0) = {Seed}
    BY <1>1, <2>1
  <2>3. QED
    BY <1>3, <2>2
<1>7. ASSUME NEW k \in Nat, k \in S PROVE k + 1 \in S
  <2>1. SUFFICES ASSUME k + 1 <= depth + 1 PROVE Within[k + 1] = V(k + 1)
    OBVIOUS
  <2>2. Within[k + 1] = V(k) \cup UNION {ToSet(site[u]) : u \in V(k) \ failed}
    <3>1. k + 1 \in 1..MaxDepth + 1 /\ k + 1 - 1 = k /\ Within[k] = V(k)
      BY <1>1, <1>7, <2>1
    <3> HIDE DEF V
    <3>2. QED
      BY <1>3, <3>1
  <2>3. ASSUME NEW u \in V(k) \ failed, NEW v \in ToSet(site[u]) PROVE v \in V(k + 1)
    <3>1. u \in Urls(fetched) /\ dist[u] <= k /\ dist[u] \in Nat
      BY <1>1, <1>2, <2>1, <2>3 DEF EachOnce
    <3>2. v \in visited /\ dist[v] <= dist[u] + 1 /\ dist[v] \in Nat
      BY <1>1, <1>5, <2>3, <3>1
    <3>3. QED
      BY <3>1, <3>2
  <2>4. ASSUME NEW v \in V(k + 1), v \notin V(k)
        PROVE  \E u \in V(k) \ failed : v \in ToSet(site[u])
    <3>1. v \in visited \ {Seed} /\ dist[v] <= k + 1 /\ dist[v] \in Nat
      BY <1>1, <2>4
    <3>2. PICK p \in Urls(fetched) : v \in ToSet(site[p]) /\ dist[v] = dist[p] + 1
      BY <1>4, <3>1
    <3>3. p \in visited /\ dist[p] \in Nat /\ p \notin failed
      BY <1>1, <1>2 DEF EachOnce
    <3>4. QED
      BY <3>1, <3>2, <3>3
  <2>5. V(k) \subseteq V(k + 1)
    BY <1>1
  <2> HIDE DEF V
  <2>6. QED
    BY <2>2, <2>3, <2>4, <2>5
<1> HIDE DEF S, V
<1>8. Nat \subseteq S
  BY <1>6, <1>7, SetInduction
<1>9. QED
  BY <1>1, <1>8 DEF S, V

-----------------------------------------------------------------------------
(* The pairs of the queue and of the pages fetched. *)

\* Pairs in the order of their second members, each first member once, and
\* each second member what f has for the first: InOrder, of any set and map.
Sorted(pairs, V, Ds, f) ==
  /\ pairs \in Seq(V \X Ds)
  /\ \A i \in DOMAIN pairs : pairs[i][2] = f[pairs[i][1]]
  /\ \A i, j \in DOMAIN pairs : i < j =>
       pairs[i][1] # pairs[j][1] /\ pairs[i][2] <= pairs[j][2]

\* What is known of a sequence of pairs.
LEMMA PairsAre ==
  ASSUME NEW V, NEW Ds, NEW s \in Seq(V \X Ds)
  PROVE  /\ Len(s) \in Nat /\ DOMAIN s = 1..Len(s)
         /\ \A i \in 1..Len(s) : s[i] \in V \X Ds /\ s[i][1] \in V /\ s[i][2] \in Ds
         /\ Urls(s) = {s[i][1] : i \in 1..Len(s)} /\ Urls(s) \subseteq V
<1>1. Len(s) \in Nat /\ DOMAIN s = 1..Len(s) /\ \A i \in 1..Len(s) : s[i] \in V \X Ds
  BY LenProperties, ElementOfSeq
<1>2. QED
  BY <1>1 DEF Urls

\* There are as many URLs as pairs.
LEMMA SortedCount ==
  ASSUME NEW V, NEW Ds, NEW f, NEW s, Sorted(s, V, Ds, f)
  PROVE  IsFiniteSet(Urls(s)) /\ Cardinality(Urls(s)) = Len(s)
<1> DEFINE n == Len(s)
           h == [i \in 1..n |-> s[i][1]]
<1>1. n \in Nat /\ DOMAIN s = 1..n /\ Urls(s) = {s[i][1] : i \in 1..n}
  <2>1. n \in Nat /\ DOMAIN s = 1..n
    BY LenProperties DEF Sorted
  <2> HIDE DEF n
  <2>2. QED
    BY <2>1 DEF Urls
<1>2. \A i, j \in 1..n : i # j => s[i][1] # s[j][1]
  <2>1. ASSUME NEW i \in 1..n, NEW j \in 1..n, i # j PROVE s[i][1] # s[j][1]
    <3>1. i < j \/ j < i
      BY <1>1, <2>1
    <3>2. QED
      BY <1>1, <3>1 DEF Sorted
  <2>2. QED
    BY <2>1
<1> HIDE DEF n
<1>3. h \in Surjection(1..n, Urls(s)) /\ h \in Injection(1..n, Urls(s))
  BY <1>1, <1>2 DEF Surjection, Injection, IsInjective
<1>4. IsFiniteSet(1..n) /\ Cardinality(1..n) = n
  BY <1>1, FS_Interval
<1>5. IsFiniteSet(Urls(s)) /\ Cardinality(Urls(s)) = Cardinality(1..n)
  BY <1>3, <1>4, FS_Surjection
<1>6. QED
  BY <1>4, <1>5 DEF n

\* The first pair taken away,
LEMMA SortedTail ==
  ASSUME NEW V, NEW Ds \in SUBSET Int, NEW f, NEW s, Sorted(s, V, Ds, f), s # <<>>
  PROVE  /\ Sorted(Tail(s), V, Ds, f)
         /\ Head(s) = s[1] /\ s[1][1] \in V /\ s[1][2] \in Ds /\ s[1][2] = f[s[1][1]]
         /\ s[1][1] \in Urls(s) /\ Urls(Tail(s)) = Urls(s) \ {s[1][1]}
         /\ \A i \in DOMAIN Tail(s) : s[1][2] <= Tail(s)[i][2]
<1> DEFINE n == Len(s)
           t == Tail(s)
<1>1. /\ n \in Nat \ {0} /\ DOMAIN s = 1..n
      /\ \A i \in 1..n : s[i] \in V \X Ds /\ s[i][1] \in V /\ s[i][2] \in Ds
      /\ Urls(s) = {s[i][1] : i \in 1..n}
  BY PairsAre, EmptySeq DEF Sorted
<1>2. t \in Seq(V \X Ds) /\ Len(t) = n - 1 /\ \A i \in 1..n - 1 : t[i] = s[i + 1]
  BY HeadTailProperties DEF Sorted
<1>3. DOMAIN t = 1..n - 1 /\ Urls(t) = {t[i][1] : i \in 1..n - 1}
  <2>1. DOMAIN t = 1..n - 1
    BY <1>2, LenProperties
  <2> HIDE DEF t
  <2>2. QED
    BY <2>1 DEF Urls
<1>4. /\ \A i \in 1..n : s[i][2] = f[s[i][1]]
      /\ \A i, j \in 1..n : i < j => s[i][1] # s[j][1] /\ s[i][2] <= s[j][2]
  BY <1>1 DEF Sorted
<1>5. Head(s) = s[1]
  BY <1>1 DEF Sorted
<1> HIDE DEF n, t
<1>6. Sorted(t, V, Ds, f)
  <2>1. \A i \in 1..n - 1 : i + 1 \in 1..n
    BY <1>1
  <2>2. \A i, j \in 1..n - 1 : i < j => i + 1 < j + 1
    BY <1>1
  <2>3. QED
    <3>1. \A i \in 1..n - 1 : t[i][2] = f[t[i][1]]
      BY <1>2, <1>4, <2>1
    <3>2. ASSUME NEW i \in 1..n - 1, NEW j \in 1..n - 1, i < j
          PROVE  t[i][1] # t[j][1] /\ t[i][2] <= t[j][2]
      <4>1. PICK k \in 1..n, l \in 1..n : k = i + 1 /\ l = j + 1 /\ k < l
        BY <2>1, <2>2, <3>2
      <4>2. t[i] = s[k] /\ t[j] = s[l]
        BY <1>2, <4>1
      <4>3. QED
        BY <1>4, <4>1, <4>2
    <3>3. QED
      BY <1>2, <1>3, <3>1, <3>2 DEF Sorted
<1>7. \A i \in 1..n - 1 : i + 1 \in 1..n /\ 1 < i + 1 /\ 1 \in 1..n
  BY <1>1
<1>8. \A i \in DOMAIN t : s[1][2] <= t[i][2] /\ s[1][1] # t[i][1]
  BY <1>2, <1>3, <1>4, <1>7
<1>9. Urls(t) = Urls(s) \ {s[1][1]}
  <2>1. Urls(t) \subseteq Urls(s) \ {s[1][1]}
    <3>1. ASSUME NEW i \in 1..n - 1 PROVE t[i][1] \in Urls(s) /\ t[i][1] # s[1][1]
      <4>1. i + 1 \in 1..n /\ t[i] = s[i + 1]
        BY <1>2, <1>7
      <4>2. QED
        BY <1>1, <1>3, <1>8, <4>1
    <3>2. QED
      BY <1>3, <3>1
  <2>2. ASSUME NEW i \in 1..n, s[i][1] # s[1][1] PROVE s[i][1] \in Urls(t)
    <3>1. PICK k \in 1..n - 1 : k + 1 = i
      <4>1. i # 1
        BY <2>2
      <4>2. i - 1 \in 1..n - 1 /\ i - 1 + 1 = i
        BY <1>1, <4>1
      <4>3. QED
        BY <4>2
    <3>2. QED
      BY <1>2, <1>3, <3>1
  <2>3. QED
    BY <1>1, <2>1, <2>2
<1>10. 1 \in 1..n
  BY <1>1
<1>11. QED
  BY <1>1, <1>4, <1>5, <1>6, <1>8, <1>9, <1>10 DEF t

\* more seen,
LEMMA SortedGrows ==
  ASSUME NEW V, NEW Ds, NEW f, NEW s, Sorted(s, V, Ds, f),
         NEW W, NEW g, V \subseteq W, \A u \in V : g[u] = f[u]
  PROVE  Sorted(s, W, Ds, g)
<1>1. DOMAIN s = 1..Len(s) /\ \A i \in 1..Len(s) : s[i][1] \in V
  BY PairsAre DEF Sorted
<1>2. s \in Seq(W \X Ds)
  <2>1. s \in Seq(V \X Ds) /\ V \X Ds \subseteq W \X Ds
    BY DEF Sorted
  <2>2. QED
    BY <2>1, SeqMonotonic
<1>3. QED
  BY <1>1, <1>2 DEF Sorted

\* and further ones put behind.
LEMMA SortedConcat ==
  ASSUME NEW V, NEW Ds \in SUBSET Int, NEW f, NEW s, Sorted(s, V, Ds, f),
         NEW t, Sorted(t, V, Ds, f), Urls(s) \cap Urls(t) = {},
         \A i \in DOMAIN s, j \in DOMAIN t : s[i][2] <= t[j][2]
  PROVE  Sorted(s \o t, V, Ds, f) /\ Urls(s \o t) = Urls(s) \cup Urls(t)
<1> DEFINE m == Len(s)
           n == Len(t)
           c == s \o t
<1>1. m \in Nat /\ n \in Nat /\ DOMAIN s = 1..m /\ DOMAIN t = 1..n
      /\ Urls(s) = {s[i][1] : i \in 1..m} /\ Urls(t) = {t[i][1] : i \in 1..n}
  <2>1. s \in Seq(V \X Ds) /\ t \in Seq(V \X Ds)
    BY DEF Sorted
  <2>2. m \in Nat /\ DOMAIN s = 1..m /\ Urls(s) = {s[i][1] : i \in 1..m}
    BY <2>1, PairsAre
  <2>3. n \in Nat /\ DOMAIN t = 1..n /\ Urls(t) = {t[i][1] : i \in 1..n}
    BY <2>1, PairsAre
  <2>4. QED
    BY <2>2, <2>3
<1>2. /\ c \in Seq(V \X Ds) /\ Len(c) = m + n
      /\ \A i \in 1..m + n : c[i] = IF i <= m THEN s[i] ELSE t[i - m]
  BY ConcatProperties DEF Sorted
<1>3. DOMAIN c = 1..m + n /\ Urls(c) = {c[i][1] : i \in 1..m + n}
  <2>1. DOMAIN c = 1..m + n
    BY <1>2, LenProperties
  <2> HIDE DEF c
  <2>2. QED
    BY <2>1 DEF Urls
<1> HIDE DEF m, n, c
<1>4. \A i \in 1..m + n : IF i <= m THEN i \in 1..m ELSE i - m \in 1..n
  BY <1>1
<1>5. ASSUME NEW i \in 1..m + n, NEW j \in 1..m + n, i < j
      PROVE  c[i][1] # c[j][1] /\ c[i][2] <= c[j][2]
  <2>1. CASE j <= m
    <3>1. c[i] = s[i] /\ c[j] = s[j] /\ i \in 1..m /\ j \in 1..m
      BY <1>1, <1>2, <1>5, <2>1
    <3>2. QED
      BY <1>1, <1>5, <3>1 DEF Sorted
  <2>2. CASE m < i
    <3>0. i - m \in 1..n /\ j - m \in 1..n /\ i - m < j - m /\ ~ i <= m /\ ~ j <= m
      BY <1>1, <1>5, <2>2
    <3>1. c[i] = t[i - m]
      BY <1>2, <3>0
    <3>2. c[j] = t[j - m]
      BY <1>2, <3>0
    <3>3. t[i - m][1] # t[j - m][1] /\ t[i - m][2] <= t[j - m][2]
      BY <1>1, <3>0 DEF Sorted
    <3>4. QED
      BY <3>1, <3>2, <3>3
  <2>3. CASE i <= m /\ m < j
    <3>1. c[i] = s[i] /\ c[j] = t[j - m] /\ i \in 1..m /\ j - m \in 1..n
      BY <1>1, <1>2, <2>3
    <3>2. QED
      BY <1>1, <3>1
  <2>4. QED
    BY <1>1, <2>1, <2>2, <2>3
<1>6. ASSUME NEW i \in 1..m + n PROVE c[i][2] = f[c[i][1]] /\ c[i][1] \in Urls(s) \cup Urls(t)
  <2>1. CASE i <= m
    <3>1. i \in 1..m /\ c[i] = s[i]
      BY <1>2, <1>4, <2>1
    <3>2. QED
      BY <1>1, <3>1 DEF Sorted
  <2>2. CASE ~ i <= m
    <3>1. i - m \in 1..n /\ c[i] = t[i - m]
      BY <1>2, <1>4, <2>2
    <3>2. QED
      BY <1>1, <3>1 DEF Sorted
  <2>3. QED
    BY <2>1, <2>2
<1>7. Sorted(c, V, Ds, f)
  BY <1>2, <1>3, <1>5, <1>6 DEF Sorted
<1>8. Urls(s) \cup Urls(t) \subseteq Urls(c)
  <2>1. ASSUME NEW i \in 1..m PROVE s[i][1] \in Urls(c)
    <3>1. i \in 1..m + n /\ c[i] = s[i]
      BY <1>1, <1>2
    <3>2. QED
      BY <1>3, <3>1
  <2>2. ASSUME NEW i \in 1..n PROVE t[i][1] \in Urls(c)
    <3>1. PICK k \in 1..m + n : k = i + m /\ ~ k <= m /\ k - m = i
      BY <1>1
    <3>2. c[k] = t[i]
      BY <1>2, <3>1
    <3>3. QED
      BY <1>3, <3>2
  <2>3. QED
    BY <1>1, <2>1, <2>2
<1>9. Urls(c) = Urls(s) \cup Urls(t)
  BY <1>3, <1>6, <1>8
<1>10. QED
  BY <1>7, <1>9 DEF c

\* New links, all at one distance, each once.
Level(new, k) == [i \in 1..Len(new) |-> <<new[i], k>>]

\* They are in order, and the function that gives each its distance fits them.
LEMMA SortedLevel ==
  ASSUME NEW V, NEW Ds \in SUBSET Int, NEW f, NEW new \in Seq(V), IsInjective(new), NEW k \in Ds,
         \A u \in ToSet(new) : f[u] = k
  PROVE  /\ Sorted(Level(new, k), V, Ds, f) /\ Urls(Level(new, k)) = ToSet(new)
         /\ \A i \in DOMAIN Level(new, k) : Level(new, k)[i][2] = k
<1> DEFINE n == Len(new)
           t == Level(new, k)
<1>1. n \in Nat /\ DOMAIN new = 1..n /\ \A i \in 1..n : new[i] \in V
  BY LenProperties, ElementOfSeq
<1>2. DOMAIN t = 1..n /\ \A i \in 1..n : t[i] = <<new[i], k>>
  BY DEF Level
<1>3. t \in Seq(V \X Ds)
  <2>1. t \in [1..n -> V \X Ds]
    BY <1>1 DEF Level
  <2>2. QED
    BY <1>1, <2>1, SeqDef
<1> HIDE DEF n, t
<1>4. \A i \in 1..n : t[i][1] = new[i] /\ t[i][2] = k
  BY <1>2
<1>5. ToSet(new) = {new[i] : i \in 1..n} /\ Urls(t) = {t[i][1] : i \in 1..n}
  BY <1>1, <1>2 DEF ToSet, Urls
<1>6. Urls(t) = ToSet(new)
  BY <1>4, <1>5
<1>7. \A i, j \in 1..n : i < j => t[i][1] # t[j][1] /\ t[i][2] <= t[j][2]
  BY <1>1, <1>4 DEF IsInjective
<1>8. \A i \in 1..n : t[i][2] = f[t[i][1]]
  BY <1>4, <1>5
<1>9. QED
  BY <1>2, <1>3, <1>4, <1>6, <1>7, <1>8 DEF Sorted, t

\* One pair behind the others.
LEMMA SortedAppend ==
  ASSUME NEW V, NEW Ds \in SUBSET Int, NEW f, NEW s, Sorted(s, V, Ds, f),
         NEW u \in V, NEW k \in Ds, f[u] = k, u \notin Urls(s), \A i \in DOMAIN s : s[i][2] <= k
  PROVE  Sorted(Append(s, <<u, k>>), V, Ds, f) /\ Urls(Append(s, <<u, k>>)) = Urls(s) \cup {u}
<1> DEFINE n == Len(s)
           x == <<u, k>>
           t == Append(s, x)
<1>1. /\ n \in Nat /\ DOMAIN s = 1..n /\ s \in Seq(V \X Ds) /\ x \in V \X Ds
  BY LenProperties DEF Sorted
<1>2. /\ t \in Seq(V \X Ds) /\ Len(t) = n + 1 /\ \A i \in 1..n : t[i] = s[i]
      /\ t[n + 1] = x
  BY <1>1, AppendProperties
<1>3. DOMAIN t = 1..n + 1 /\ x[1] = u /\ x[2] = k
  BY <1>2, LenProperties
<1> HIDE DEF n, x, t
<1>4. Urls(s) = {s[i][1] : i \in 1..n} /\ Urls(t) = {t[i][1] : i \in 1..n + 1}
  BY <1>1, <1>3 DEF Urls
<1>5. \A i \in 1..n + 1 : i \in 1..n \/ i = n + 1
  BY <1>1
<1>6. Urls(t) = Urls(s) \cup {u}
  <2>1. n + 1 \in 1..n + 1 /\ 1..n \subseteq 1..n + 1
    BY <1>1
  <2>2. ASSUME NEW i \in 1..n + 1 PROVE t[i][1] \in Urls(s) \cup {u}
    BY <1>2, <1>3, <1>4, <1>5
  <2>3. ASSUME NEW i \in 1..n PROVE s[i][1] \in Urls(t)
    <3>1. i \in 1..n + 1 /\ t[i] = s[i]
      BY <1>2, <2>1
    <3>2. QED
      BY <1>4, <3>1
  <2>4. u \in Urls(t)
    <3>1. t[n + 1][1] = u
      BY <1>2, <1>3
    <3>2. QED
      BY <1>4, <2>1, <3>1
  <2>5. Urls(t) \subseteq Urls(s) \cup {u}
    BY <1>4, <2>2
  <2>6. Urls(s) \subseteq Urls(t)
    BY <1>4, <2>3
  <2>7. QED
    BY <2>4, <2>5, <2>6
<1>7. \A i \in 1..n + 1 : t[i][2] = f[t[i][1]]
  BY <1>1, <1>2, <1>3, <1>5 DEF Sorted
<1>8. ASSUME NEW i \in 1..n + 1, NEW j \in 1..n + 1, i < j
      PROVE  t[i][1] # t[j][1] /\ t[i][2] <= t[j][2]
  <2>1. i \in 1..n /\ t[i] = s[i]
    BY <1>1, <1>2, <1>8
  <2>2. CASE j \in 1..n
    <3>1. t[j] = s[j]
      BY <1>2, <2>2
    <3>2. s[i][1] # s[j][1] /\ s[i][2] <= s[j][2]
      BY <1>1, <1>8, <2>1, <2>2 DEF Sorted
    <3>3. QED
      BY <2>1, <3>1, <3>2
  <2>3. CASE j = n + 1
    <3>1. t[j][1] = u /\ t[j][2] = k
      BY <1>2, <1>3, <2>3
    <3>2. s[i][1] \in Urls(s) /\ s[i][2] <= k
      BY <1>1, <1>4, <2>1
    <3>3. QED
      BY <2>1, <3>1, <3>2
  <2>4. QED
    BY <1>5, <2>2, <2>3
<1>9. QED
  BY <1>2, <1>3, <1>6, <1>7, <1>8 DEF Sorted, t, x

-----------------------------------------------------------------------------
(* The steps of the walk. *)

\* The invariant of the walk, part by part.
LEMMA WalkFacts ==
  ASSUME WalkInv
  PROVE  /\ site \in [Links \cup {Seed} -> Seq(Links)] /\ depth \in Nat /\ MaxDepth \in Nat
         /\ Seed \in visited /\ visited \subseteq Links \cup {Seed}
         /\ dist \in [visited -> 0..depth + 1] /\ dist[Seed] = 0
         /\ \A u \in visited : dist[u] \in 0..depth + 1 /\ dist[u] \in Nat
         /\ Sorted(queue, visited, 0..depth, dist) /\ Sorted(fetched, visited, 0..depth, dist)
         /\ Urls(queue) \subseteq visited /\ Urls(fetched) \subseteq visited
         /\ EachOnce /\ Frontier /\ LinkedTo
         /\ allLinks \in Seq(visited) /\ IsInjective(allLinks)
         /\ ToSet(allLinks) = visited \ {Seed}
<1>1. Sorted(queue, visited, 0..depth, dist) /\ Sorted(fetched, visited, 0..depth, dist)
  BY DEF WalkInv, InOrder, Sorted
<1>2. queue \in Seq(visited \X (0..depth)) /\ fetched \in Seq(visited \X (0..depth))
  BY <1>1 DEF Sorted
<1>3. Urls(queue) \subseteq visited /\ Urls(fetched) \subseteq visited
  BY <1>2, PairsAre
<1>4. depth \in Nat /\ MaxDepth \in Nat
  BY CollectAssumption DEF WalkInv
<1>5. \A u \in visited : dist[u] \in 0..depth + 1 /\ dist[u] \in Nat
  BY <1>4 DEF WalkInv
<1>6. QED
  BY <1>1, <1>3, <1>4, <1>5, CollectAssumption DEF WalkInv

\* At the end the walk is exact.
LEMMA WalkExact ==
  ASSUME WalkInv
  PROVE  WalkIsExact
<1> DEFINE V(k) == {u \in visited : dist[u] <= k}
<1>1. FetchedByDepth
  <2> SUFFICES ASSUME NEW i \in DOMAIN fetched, NEW j \in DOMAIN fetched, i <= j
               PROVE  fetched[i][2] <= fetched[j][2]
    BY DEF FetchedByDepth
  <2>1. /\ \A k \in DOMAIN fetched : fetched[k][2] \in 0..depth
        /\ DOMAIN fetched = 1..Len(fetched)
    BY PairsAre DEF WalkInv, InOrder
  <2>2. CASE i < j
    BY <2>2 DEF WalkInv, InOrder
  <2>3. CASE i = j
    BY <2>1, <2>3
  <2>4. QED
    BY <2>1, <2>2, <2>3
<1>2. CollectsWhatIsInReach
  <2> SUFFICES ASSUME command = "collect-links", exit = "ok"
               PROVE  /\ ToSet(allLinks) = Within[depth + 1] \ {Seed}
                      /\ IsInjective(allLinks)
                      /\ Urls(fetched) \cup failed = Within[depth]
                      /\ Len(fetched) + Cardinality(failed) = Cardinality(Within[depth])
    BY DEF CollectsWhatIsInReach, Urls
  <2>1. queue = <<>>
    BY DEF WalkInv
  <2>2. /\ depth \in Nat /\ \A u \in visited : dist[u] \in 0..depth + 1
        /\ Sorted(fetched, visited, 0..depth, dist) /\ Urls(fetched) \subseteq visited
        /\ EachOnce /\ IsInjective(allLinks) /\ ToSet(allLinks) = visited \ {Seed}
    BY WalkFacts
  <2>3. Within[depth + 1] = V(depth + 1) /\ Within[depth] = V(depth)
    <3>1. depth \in 0..depth + 1 /\ depth + 1 \in 0..depth + 1
      BY <2>2
    <3>2. QED
      BY <2>1, <3>1, SeenIsReached
  <2>4. V(depth + 1) = visited
    BY <2>2
  <2>5. Urls(fetched) \cup failed = V(depth)
    <3>1. Urls(queue) = {}
      BY <2>1, EmptySeq DEF Urls
    <3>2. ASSUME NEW u \in Urls(fetched) PROVE dist[u] <= depth
      <4>1. PICK i \in DOMAIN fetched : u = fetched[i][1]
        BY DEF Urls
      <4>2. fetched[i][2] \in 0..depth /\ fetched[i][2] = dist[u]
        BY <2>2, <4>1, PairsAre DEF Sorted
      <4>3. QED
        BY <2>2, <4>2
    <3>3. QED
      BY <2>2, <3>1, <3>2 DEF EachOnce
  <2>6. Len(fetched) + Cardinality(failed) = Cardinality(V(depth))
    <3>1. IsFiniteSet(Urls(fetched)) /\ Cardinality(Urls(fetched)) = Len(fetched)
      BY <2>2, SortedCount
    <3>2. IsFiniteSet(failed) /\ Urls(fetched) \cap failed = {}
      BY <2>2 DEF EachOnce
    <3>3. Cardinality({}) = 0
      BY FS_EmptySet
    <3>4. Cardinality(Urls(fetched) \cup failed)
            = Cardinality(Urls(fetched)) + Cardinality(failed) - Cardinality(Urls(fetched) \cap failed)
      BY <3>1, <3>2, FS_Union
    <3>5. Cardinality(Urls(fetched)) \in Nat /\ Cardinality(failed) \in Nat
      BY <3>1, <3>2, FS_CardinalityType
    <3>6. Cardinality(Urls(fetched) \cup failed) = Len(fetched) + Cardinality(failed)
      <4>1. Cardinality(Urls(fetched) \cap failed) = 0
        BY <3>2, <3>3
      <4>2. QED
        BY <3>1, <3>4, <3>5, <4>1
    <3> HIDE DEF V
    <3>7. QED
      BY <2>5, <3>6
  <2>7. QED
    BY <2>2, <2>3, <2>4, <2>5, <2>6
<1>3. QED
  BY <1>1, <1>2 DEF WalkIsExact

\* New members behind a sequence that has each of its own once.
LEMMA ConcatIsNew ==
  ASSUME NEW U, NEW s \in Seq(U), NEW t \in Seq(U), IsInjective(s), IsInjective(t),
         ToSet(s) \cap ToSet(t) = {}
  PROVE  /\ s \o t \in Seq(U) /\ IsInjective(s \o t)
         /\ ToSet(s \o t) = ToSet(s) \cup ToSet(t)
<1> DEFINE m == Len(s)
           n == Len(t)
           c == s \o t
<1>1. /\ m \in Nat /\ n \in Nat /\ DOMAIN s = 1..m /\ DOMAIN t = 1..n
      /\ c \in Seq(U) /\ Len(c) = m + n /\ DOMAIN c = 1..m + n
      /\ \A i \in 1..m + n : c[i] = IF i <= m THEN s[i] ELSE t[i - m]
  BY ConcatProperties, LenProperties
<1> HIDE DEF m, n, c
<1>2. /\ ToSet(s) = {s[i] : i \in 1..m} /\ ToSet(t) = {t[i] : i \in 1..n}
      /\ ToSet(c) = {c[i] : i \in 1..m + n}
  BY <1>1 DEF ToSet
<1>3. ASSUME NEW i \in 1..m + n
      PROVE  \/ i \in 1..m /\ c[i] = s[i]
             \/ i - m \in 1..n /\ c[i] = t[i - m]
  BY <1>1
<1>4. \A i \in 1..m, j \in 1..n : s[i] # t[j]
  BY <1>2
<1>5. ASSUME NEW i \in 1..m + n, NEW j \in 1..m + n, c[i] = c[j] PROVE i = j
  <2>1. CASE i <= m /\ j <= m
    <3>1. i \in 1..m /\ j \in 1..m /\ s[i] = s[j]
      BY <1>1, <1>5, <2>1
    <3>2. QED
      BY <1>1, <3>1 DEF IsInjective
  <2>2. CASE m < i /\ m < j
    <3>1. i - m \in 1..n /\ j - m \in 1..n /\ t[i - m] = t[j - m]
      BY <1>1, <1>5, <2>2
    <3>2. i - m = j - m
      BY <1>1, <3>1 DEF IsInjective
    <3>3. QED
      BY <1>1, <3>2
  <2>3. CASE i <= m /\ m < j
    <3>1. i \in 1..m /\ j - m \in 1..n /\ s[i] = t[j - m]
      BY <1>1, <1>5, <2>3
    <3>2. QED
      BY <1>4, <3>1
  <2>4. CASE j <= m /\ m < i
    <3>1. j \in 1..m /\ i - m \in 1..n /\ s[j] = t[i - m]
      BY <1>1, <1>5, <2>4
    <3>2. QED
      BY <1>4, <3>1
  <2>5. QED
    BY <1>1, <2>1, <2>2, <2>3, <2>4
<1>6. IsInjective(c)
  BY <1>1, <1>5 DEF IsInjective
<1>7. ToSet(c) \subseteq ToSet(s) \cup ToSet(t)
  BY <1>2, <1>3
<1>8. ASSUME NEW i \in 1..m PROVE s[i] \in ToSet(c)
  <2>1. i \in 1..m + n /\ c[i] = s[i]
    BY <1>1
  <2>2. QED
    BY <1>2, <2>1
<1>9. ASSUME NEW i \in 1..n PROVE t[i] \in ToSet(c)
  <2>1. PICK k \in 1..m + n : k = i + m /\ ~ k <= m /\ k - m = i
    BY <1>1
  <2>2. c[k] = t[i]
    BY <1>1, <2>1
  <2>3. QED
    BY <1>2, <2>1, <2>2
<1>10. ToSet(c) = ToSet(s) \cup ToSet(t)
  <2>1. ToSet(s) \subseteq ToSet(c)
    BY <1>2, <1>8
  <2>2. ToSet(t) \subseteq ToSet(c)
    BY <1>2, <1>9
  <2>3. QED
    BY <1>7, <2>1, <2>2
<1>11. QED
  BY <1>1, <1>6, <1>10 DEF c

\* A page that was fetched puts its new links one link further than itself,
\* behind everything that is as far.
LEMMA PageKeeps ==
  ASSUME WalkInv, CollectPage
  PROVE  WalkInv'
<1> DEFINE url == queue[1][1]
           d == queue[1][2]
           new == NewLinks(url)
           Ds == 0..depth
           more == [i \in 1..Len(new) |-> <<new[i], d + 1>>]
<1>1. /\ site \in [Links \cup {Seed} -> Seq(Links)] /\ depth \in Nat
      /\ Seed \in visited /\ visited \subseteq Links \cup {Seed}
      /\ dist \in [visited -> 0..depth + 1] /\ dist[Seed] = 0
      /\ \A u \in visited : dist[u] \in 0..depth + 1 /\ dist[u] \in Nat
      /\ Sorted(queue, visited, Ds, dist) /\ Sorted(fetched, visited, Ds, dist)
      /\ Urls(queue) \subseteq visited /\ Urls(fetched) \subseteq visited
      /\ allLinks \in Seq(visited) /\ IsInjective(allLinks)
      /\ ToSet(allLinks) = visited \ {Seed}
  BY WalkFacts
<1>2. EachOnce /\ LinkedTo /\ Frontier
  BY WalkFacts
<1>3. queue # <<>>
  BY DEF CollectPage
<1>4. /\ Sorted(Tail(queue), visited, Ds, dist)
      /\ Head(queue) = queue[1] /\ url \in visited /\ d \in Ds /\ d = dist[url]
      /\ url \in Urls(queue) /\ Urls(Tail(queue)) = Urls(queue) \ {url}
      /\ \A i \in DOMAIN Tail(queue) : d <= Tail(queue)[i][2]
  <2>1. Ds \in SUBSET Int
    BY <1>1
  <2> HIDE DEF Ds
  <2>2. QED
    BY <1>1, <1>3, <2>1, SortedTail
<1>5. /\ new \in Seq(Links \ visited) /\ IsInjective(new)
      /\ ToSet(new) = ToSet(site[url]) \ visited
  <2>1. url \in Links \cup {Seed} /\ site[url] \in Seq(Links)
    BY <1>1, <1>4
  <2> HIDE DEF url
  <2>2. QED
    BY <2>1, NewLinksAre
<1>6. /\ allLinks' = allLinks \o new /\ visited' = visited \cup ToSet(new)
      /\ queue' = IF d < depth THEN Tail(queue) \o more ELSE Tail(queue)
      /\ fetched' = Append(fetched, <<url, d>>)
      /\ dist' = [u \in visited' |-> IF u \in visited THEN dist[u] ELSE d + 1]
      /\ site' = site /\ depth' = depth /\ failed' = failed
      /\ exit' = "running"
  <2>1. Head(queue) = queue[1]
    BY <1>4
  <2>2. QED
    BY <2>1 DEF CollectPage, EnqueueLinks, K, At, Goto
<1>7. /\ d \in Nat /\ d <= depth /\ d + 1 \in Nat
      /\ \A u \in visited : dist[u] <= d + 1
      /\ \A u \in Urls(fetched) : dist[u] <= d
  <2>1. d \in Nat /\ d <= depth /\ d + 1 \in Nat
    BY <1>1, <1>4
  <2>2. QED
    BY <1>2, <1>3, <2>1 DEF Frontier
<1>8. ToSet(new) \subseteq Links \ visited
  BY <1>5, LenProperties, ElementOfSeq DEF ToSet
<1> DEFINE W == visited \cup ToSet(new)
           g == [u \in W |-> IF u \in visited THEN dist[u] ELSE d + 1]
<1>9. /\ g \in [W -> 0..depth + 1]
      /\ \A u \in visited : g[u] = dist[u]
      /\ \A u \in ToSet(new) : g[u] = d + 1
  BY <1>1, <1>7, <1>8
<1>10. visited' = W /\ dist' = g
  BY <1>6
<1> HIDE DEF url, d, new, Ds, W, g
<1>11. /\ W \subseteq Links \cup {Seed} /\ Seed \in W /\ visited \subseteq W
       /\ W = visited \cup ToSet(new) /\ url \in W /\ Ds \in SUBSET Int /\ Ds = 0..depth
       /\ \A u \in W : g[u] \in Nat
       /\ \A u \in visited : g[u] <= d + 1
       /\ \A u \in W : g[u] <= d + 1
  <2>1. /\ W \subseteq Links \cup {Seed} /\ Seed \in W /\ visited \subseteq W
        /\ W = visited \cup ToSet(new) /\ url \in W
    BY <1>1, <1>4, <1>8 DEF W
  <2>2. Ds \in SUBSET Int /\ Ds = 0..depth
    BY <1>1 DEF Ds
  <2>3. \A u \in W : g[u] \in Nat
    BY <1>1, <1>9
  <2>4. \A u \in visited : g[u] <= d + 1
    BY <1>7, <1>9
  <2>5. \A u \in W : g[u] <= d + 1
    BY <1>7, <1>9, <2>1, <2>4
  <2>6. QED
    BY <2>1, <2>2, <2>3, <2>4, <2>5
<1>12. Sorted(Tail(queue), W, Ds, g) /\ Sorted(fetched, W, Ds, g)
  <2>1. Sorted(Tail(queue), visited, Ds, dist) /\ Sorted(fetched, visited, Ds, dist)
    BY <1>1, <1>4
  <2>2. visited \subseteq W /\ \A u \in visited : g[u] = dist[u]
    BY <1>9, <1>11
  <2>3. Sorted(Tail(queue), W, Ds, g)
    BY <2>1, <2>2, SortedGrows
  <2>4. Sorted(fetched, W, Ds, g)
    BY <2>1, <2>2, SortedGrows
  <2>5. QED
    BY <2>3, <2>4
<1>13. /\ Urls(queue) \cap (Urls(fetched) \cup failed) = {}
       /\ failed \subseteq visited /\ IsFiniteSet(failed) /\ Urls(fetched) \cap failed = {}
       /\ \A u \in failed : dist[u] <= depth
       /\ \A u \in visited : dist[u] <= depth => u \in Urls(queue) \cup Urls(fetched) \cup failed
  BY <1>2 DEF EachOnce
<1>14. Sorted(fetched', W, Ds, g) /\ Urls(fetched') = Urls(fetched) \cup {url}
  <2>1. \A i \in DOMAIN fetched : fetched[i][2] <= d
    <3>1. ASSUME NEW i \in DOMAIN fetched PROVE fetched[i][2] <= d
      <4>1. fetched[i][1] \in Urls(fetched) /\ fetched[i][2] = dist[fetched[i][1]]
        BY <1>1 DEF Urls, Sorted
      <4>2. QED
        BY <1>7, <4>1
    <3>2. QED
      BY <3>1
  <2>2. url \notin Urls(fetched) /\ g[url] = d
    BY <1>4, <1>9, <1>13
  <2>3. Ds \in SUBSET Int /\ url \in W /\ d \in Ds /\ Sorted(fetched, W, Ds, g)
    BY <1>4, <1>11, <1>12
  <2>4. /\ Sorted(Append(fetched, <<url, d>>), W, Ds, g)
        /\ Urls(Append(fetched, <<url, d>>)) = Urls(fetched) \cup {url}
    BY <2>1, <2>2, <2>3, SortedAppend
  <2>5. QED
    BY <1>6, <2>4
<1>15. \A u \in Urls(Tail(queue)) : d <= g[u]
  <2>1. ASSUME NEW i \in DOMAIN Tail(queue) PROVE d <= g[Tail(queue)[i][1]]
    BY <1>4, <1>12, <2>1 DEF Sorted
  <2>2. QED
    BY <2>1 DEF Urls
<1>16. /\ Sorted(queue', W, Ds, g)
       /\ Urls(queue') = (Urls(queue) \ {url}) \cup (IF d < depth THEN ToSet(new) ELSE {})
  <2>1. CASE ~ (d < depth)
    BY <1>4, <1>6, <1>12, <2>1
  <2>2. CASE d < depth
    <3>1. new \in Seq(W)
      <4>1. new \in [1..Len(new) -> ToSet(new)] /\ Len(new) \in Nat
        BY <1>5, LenProperties DEF ToSet
      <4>2. new \in [1..Len(new) -> W]
        BY <1>11, <4>1
      <4>3. QED
        BY <4>1, <4>2, SeqDef
    <3>2. d + 1 \in Ds
      BY <1>1, <1>7, <1>11, <2>2
    <3>3. Sorted(more, W, Ds, g) /\ Urls(more) = ToSet(new) /\ \A i \in DOMAIN more : more[i][2] = d + 1
      <4>1. Ds \in SUBSET Int /\ IsInjective(new) /\ \A u \in ToSet(new) : g[u] = d + 1
        BY <1>5, <1>9, <1>11
      <4> DEFINE k == d + 1
      <4>2. k \in Ds /\ (\A u \in ToSet(new) : g[u] = k)
            /\ more = Level(new, k)
        BY <3>2, <4>1 DEF Level
      <4> HIDE DEF k, more
      <4>3. Sorted(more, W, Ds, g) /\ Urls(more) = ToSet(new) /\ \A i \in DOMAIN more : more[i][2] = k
        BY <3>1, <4>1, <4>2, SortedLevel
      <4>4. QED
        BY <4>3 DEF k
    <3> HIDE DEF more
    <3>4. ASSUME NEW i \in DOMAIN Tail(queue), NEW j \in DOMAIN more
          PROVE  Tail(queue)[i][2] <= more[j][2]
      <4>1. Tail(queue)[i][1] \in Urls(Tail(queue))
        BY DEF Urls
      <4>2. Tail(queue)[i][1] \in visited
        BY <1>1, <1>4, <4>1
      <4>3. Tail(queue)[i][2] = g[Tail(queue)[i][1]]
        BY <1>12 DEF Sorted
      <4>4. QED
        BY <1>11, <3>3, <4>2, <4>3
    <3>5. Urls(Tail(queue)) \cap Urls(more) = {}
      BY <1>1, <1>4, <1>8, <3>3
    <3>6. Sorted(Tail(queue) \o more, W, Ds, g)
          /\ Urls(Tail(queue) \o more) = Urls(Tail(queue)) \cup Urls(more)
      <4>1. Ds \in SUBSET Int /\ Sorted(Tail(queue), W, Ds, g) /\ Sorted(more, W, Ds, g)
        BY <1>11, <1>12, <3>3
      <4> DEFINE s == Tail(queue)
      <4>2. Sorted(s, W, Ds, g) /\ \A i \in DOMAIN s, j \in DOMAIN more : s[i][2] <= more[j][2]
        BY <3>4, <4>1
      <4>3. Urls(s) \cap Urls(more) = {}
        BY <3>5
      <4> HIDE DEF s
      <4>4. Sorted(s \o more, W, Ds, g) /\ Urls(s \o more) = Urls(s) \cup Urls(more)
        BY <4>1, <4>2, <4>3, SortedConcat
      <4>5. QED
        BY <4>4 DEF s
    <3>7. QED
      BY <1>4, <1>6, <2>2, <3>3, <3>6
  <2>3. QED
    BY <2>1, <2>2
<1>17. allLinks' \in Seq(W) /\ IsInjective(allLinks') /\ ToSet(allLinks') = W \ {Seed}
  <2>1. allLinks \in Seq(W) /\ new \in Seq(W)
    <3>1. Seq(visited) \subseteq Seq(W)
      BY <1>11, SeqMonotonic
    <3>2. new \in [1..Len(new) -> ToSet(new)] /\ Len(new) \in Nat
      BY <1>5, LenProperties DEF ToSet
    <3>3. new \in [1..Len(new) -> W]
      BY <1>11, <3>2
    <3>4. new \in Seq(W)
      BY <3>2, <3>3, SeqDef
    <3>5. QED
      BY <1>1, <3>1, <3>4
  <2>2. ToSet(allLinks) \cap ToSet(new) = {}
    BY <1>1, <1>8
  <2>3. /\ allLinks \o new \in Seq(W) /\ IsInjective(allLinks \o new)
        /\ ToSet(allLinks \o new) = ToSet(allLinks) \cup ToSet(new)
    BY <1>1, <1>5, <2>1, <2>2, ConcatIsNew
  <2>4. QED
    BY <1>1, <1>6, <1>8, <1>11, <2>3
<1>18. EachOnce'
  <2>1. failed \subseteq W /\ \A u \in failed : g[u] <= depth
    BY <1>9, <1>11, <1>13
  <2>2. Urls(queue') \cap (Urls(fetched') \cup failed) = {}
    BY <1>1, <1>4, <1>8, <1>13, <1>14, <1>16
  <2>3. Urls(fetched') \cap failed = {}
    BY <1>4, <1>13, <1>14
  <2>4. ASSUME NEW u \in W, g[u] <= depth
        PROVE  u \in Urls(queue') \cup Urls(fetched') \cup failed
    <3>1. CASE u \in visited
      BY <1>9, <1>13, <1>14, <1>16, <2>4, <3>1
    <3>2. CASE u \in ToSet(new)
      <4>1. d < depth
        BY <1>1, <1>7, <1>9, <2>4, <3>2
      <4>2. QED
        BY <1>16, <3>2, <4>1
    <3>3. QED
      BY <1>11, <3>1, <3>2
  <2>5. QED
    BY <1>6, <1>10, <1>13, <2>1, <2>2, <2>3, <2>4 DEF EachOnce
<1>19. Frontier'
  <2> SUFFICES ASSUME queue' # <<>>
               PROVE  /\ \A u \in W : g[u] <= queue'[1][2] + 1
                      /\ \A u \in Urls(fetched') : g[u] <= queue'[1][2]
    BY <1>10 DEF Frontier
  <2>1. 1 \in DOMAIN queue' /\ queue'[1][1] \in Urls(queue') /\ queue'[1][2] \in Ds
        /\ queue'[1][2] = g[queue'[1][1]]
    <3>1. queue' \in Seq(W \X Ds)
      BY <1>16 DEF Sorted
    <3>2. Len(queue') \in Nat \ {0} /\ DOMAIN queue' = 1..Len(queue')
          /\ \A i \in 1..Len(queue') : queue'[i][2] \in Ds
      BY <3>1, PairsAre, EmptySeq
    <3>3. QED
      BY <1>16, <3>2 DEF Urls, Sorted
  <2>2. d <= queue'[1][2] /\ queue'[1][2] \in Nat
    <3>1. queue'[1][1] \in Urls(Tail(queue)) \/ queue'[1][1] \in ToSet(new)
      BY <1>4, <1>16, <2>1
    <3>2. QED
      BY <1>7, <1>9, <1>11, <1>15, <2>1, <3>1
  <2>3. ASSUME NEW u \in W PROVE g[u] <= queue'[1][2] + 1
    BY <1>7, <1>11, <2>2
  <2>4. ASSUME NEW u \in Urls(fetched') PROVE g[u] <= queue'[1][2]
    <3>1. g[u] <= d /\ g[u] \in Nat
      BY <1>1, <1>4, <1>7, <1>9, <1>11, <1>14
    <3>2. QED
      BY <1>7, <2>2, <3>1
  <2>5. QED
    BY <2>3, <2>4
<1>20. LinkedTo'
  <2>1. ASSUME NEW u \in W \ {Seed}
        PROVE  \E p \in Urls(fetched') : u \in ToSet(site[p]) /\ g[u] = g[p] + 1
    <3>1. CASE u \in visited
      <4>1. PICK p \in Urls(fetched) : u \in ToSet(site[p]) /\ dist[u] = dist[p] + 1
        BY <1>2, <2>1, <3>1 DEF LinkedTo
      <4>2. QED
        BY <1>1, <1>9, <1>14, <3>1, <4>1
    <3>2. CASE u \in ToSet(new)
      BY <1>4, <1>5, <1>9, <1>14, <3>2
    <3>3. QED
      BY <1>11, <2>1, <3>1, <3>2
  <2>2. ASSUME NEW p \in Urls(fetched'), NEW u \in ToSet(site[p])
        PROVE  u \in W /\ g[u] <= g[p] + 1
    <3>1. CASE p \in Urls(fetched)
      <4>1. u \in visited /\ dist[u] <= dist[p] + 1
        BY <1>2, <2>2, <3>1 DEF LinkedTo
      <4>2. QED
        BY <1>1, <1>9, <1>11, <3>1, <4>1
    <3>2. CASE p = url
      <4>1. u \in W
        BY <1>5, <1>11, <2>2, <3>2
      <4>2. g[p] = d
        BY <1>4, <1>9, <3>2
      <4>3. QED
        BY <1>11, <4>1, <4>2
    <3>3. QED
      BY <1>14, <2>2, <3>1, <3>2
  <2>3. QED
    BY <1>6, <1>10, <2>1, <2>2 DEF LinkedTo
<1>21. InOrder(queue)' /\ InOrder(fetched)'
  <2>1. depth' = depth /\ visited' = W /\ dist' = g /\ Ds = 0..depth
    BY <1>6, <1>10, <1>11
  <2>2. InOrder(queue)'
    BY <1>16, <2>1 DEF InOrder, Sorted
  <2>3. InOrder(fetched)'
    BY <1>14, <2>1 DEF InOrder, Sorted
  <2>4. QED
    BY <2>2, <2>3
<1>22. dist' \in [visited' -> 0..depth' + 1] /\ dist'[Seed] = 0
  BY <1>1, <1>6, <1>9, <1>10
<1>23. site' \in Sites /\ depth' \in 0..MaxDepth
  BY <1>6 DEF WalkInv
<1>24. QED
  BY <1>6, <1>10, <1>11, <1>17, <1>18, <1>19, <1>20, <1>21, <1>22, <1>23 DEF WalkInv

\* One that could not be fetched is not met again.
LEMMA FailsKeeps ==
  ASSUME WalkInv, CollectFails
  PROVE  WalkInv'
<1> DEFINE url == queue[1][1]
           d == queue[1][2]
           Ds == 0..depth
<1>1. /\ depth \in Nat /\ \A u \in visited : dist[u] \in Nat
      /\ Sorted(queue, visited, Ds, dist) /\ Urls(queue) \subseteq visited
  BY WalkFacts
<1>2. EachOnce /\ LinkedTo /\ Frontier
  BY WalkFacts
<1>3. queue # <<>>
  BY DEF CollectFails
<1>4. /\ Sorted(Tail(queue), visited, Ds, dist)
      /\ Head(queue) = queue[1] /\ url \in visited /\ d \in Ds /\ d = dist[url]
      /\ url \in Urls(queue) /\ Urls(Tail(queue)) = Urls(queue) \ {url}
      /\ \A i \in DOMAIN Tail(queue) : d <= Tail(queue)[i][2]
  <2>1. Ds \in SUBSET Int
    BY <1>1
  <2> HIDE DEF Ds
  <2>2. QED
    BY <1>1, <1>3, <2>1, SortedTail
<1>5. /\ queue' = Tail(queue) /\ failed' = failed \cup {url}
      /\ site' = site /\ depth' = depth /\ visited' = visited /\ allLinks' = allLinks
      /\ fetched' = fetched /\ dist' = dist /\ exit' = "running"
  BY <1>4 DEF CollectFails, K, At, Goto
<1>6. d \in Nat /\ d <= depth
  BY <1>1, <1>4
<1> HIDE DEF url, d, Ds
<1>7. EachOnce'
  <2>1. IsFiniteSet(failed \cup {url})
    BY <1>2, FS_AddElement DEF EachOnce
  <2>2. QED
    BY <1>2, <1>4, <1>5, <1>6, <2>1 DEF EachOnce
<1>8. Frontier'
  <2> SUFFICES ASSUME Tail(queue) # <<>>
               PROVE  /\ \A u \in visited : dist[u] <= Tail(queue)[1][2] + 1
                      /\ \A u \in Urls(fetched) : dist[u] <= Tail(queue)[1][2]
    BY <1>5 DEF Frontier
  <2>1. d <= Tail(queue)[1][2] /\ Tail(queue)[1][2] \in Nat
    <3>1. Tail(queue) \in Seq(visited \X Ds)
      BY <1>4 DEF Sorted
    <3>2. Len(Tail(queue)) \in Nat \ {0} /\ DOMAIN Tail(queue) = 1..Len(Tail(queue))
          /\ \A i \in 1..Len(Tail(queue)) : Tail(queue)[i][2] \in Ds
      <4> DEFINE t == Tail(queue)
      <4>1. t \in Seq(visited \X Ds) /\ t # <<>>
        BY <3>1
      <4> HIDE DEF t
      <4>2. Len(t) \in Nat /\ DOMAIN t = 1..Len(t) /\ \A i \in 1..Len(t) : t[i][2] \in Ds
        BY <4>1, PairsAre
      <4>3. Len(t) # 0
        BY <4>1, EmptySeq
      <4>4. QED
        BY <4>2, <4>3 DEF t
    <3>3. 1 \in 1..Len(Tail(queue))
      BY <3>2
    <3>4. d <= Tail(queue)[1][2] /\ Tail(queue)[1][2] \in Ds
      BY <1>4, <3>2, <3>3
    <3>5. QED
      BY <1>1, <3>4 DEF Ds
  <2>2. /\ \A u \in visited : dist[u] <= d + 1
        /\ \A u \in Urls(fetched) : dist[u] <= d
    BY <1>2, <1>3 DEF Frontier, d
  <2>3. Urls(fetched) \subseteq visited
    BY WalkFacts
  <2>4. QED
    BY <1>1, <1>6, <2>1, <2>2, <2>3
<1>9. LinkedTo'
  BY <1>2, <1>5 DEF LinkedTo
<1>10. InOrder(queue)'
  BY <1>4, <1>5 DEF InOrder, Sorted, Ds
<1>11. InOrder(fetched)'
  BY <1>5 DEF WalkInv, InOrder
<1>12. /\ site \in Sites /\ depth \in 0..MaxDepth
       /\ Seed \in visited /\ visited \subseteq Links \cup {Seed}
       /\ dist \in [visited -> 0..depth + 1] /\ dist[Seed] = 0
       /\ allLinks \in Seq(visited) /\ IsInjective(allLinks)
       /\ ToSet(allLinks) = visited \ {Seed}
  BY DEF WalkInv
<1>13. QED
  BY <1>5, <1>7, <1>8, <1>9, <1>10, <1>11, <1>12 DEF WalkInv

\* A step that leaves the walk alone does not disturb it, unless it says
\* before its end that it ended well.
LEMMA WalkSame ==
  ASSUME WalkInv, UNCHANGED collection,
         (command = "collect-links" /\ exit = "ok")' => queue = <<>>
  PROVE  WalkInv'
<1>1. /\ site' = site /\ depth' = depth /\ visited' = visited /\ queue' = queue
      /\ allLinks' = allLinks /\ fetched' = fetched /\ failed' = failed /\ dist' = dist
  BY DEF collection
<1>2. EachOnce' /\ Frontier' /\ LinkedTo'
  BY <1>1 DEF WalkInv, EachOnce, Frontier, LinkedTo
<1>3. InOrder(queue)' /\ InOrder(fetched)'
  BY <1>1 DEF WalkInv, InOrder
<1>4. /\ site \in Sites /\ depth \in 0..MaxDepth
      /\ Seed \in visited /\ visited \subseteq Links \cup {Seed}
      /\ dist \in [visited -> 0..depth + 1] /\ dist[Seed] = 0
      /\ allLinks \in Seq(visited) /\ IsInjective(allLinks)
      /\ ToSet(allLinks) = visited \ {Seed}
  BY DEF WalkInv
<1>5. QED
  BY <1>1, <1>2, <1>3, <1>4 DEF WalkInv

\* The steps of collect-links keep it.
LEMMA WalkSteps ==
  ASSUME WalkInv, CollectNext
  PROVE  WalkInv'
<1>1. CASE CollectStart
  <2>1. UNCHANGED collection /\ exit' # "ok"
    BY <1>1 DEF CollectStart, K, At, MakeFetcher, Goto, Exit
  <2>2. QED
    BY <2>1, WalkSame
<1>2. CASE CollectEnd
  <2>1. UNCHANGED collection /\ queue = <<>>
    BY <1>2 DEF CollectEnd
  <2>2. QED
    BY <2>1, WalkSame
<1>3. QED
  BY <1>1, <1>2, PageKeeps, FailsKeeps DEF CollectNext

\* The walk begins at the seed.
LEMMA InitWalk == Init => WalkInv
<1> SUFFICES ASSUME Init PROVE WalkInv
  OBVIOUS
<1>1. /\ site \in Sites /\ depth \in 0..MaxDepth /\ visited = {Seed}
      /\ queue = << <<Seed, 0>> >> /\ allLinks = <<>> /\ fetched = <<>> /\ failed = {}
      /\ dist = [u \in {Seed} |-> 0] /\ exit = "running" /\ MaxDepth \in Nat
  BY CollectAssumption DEF Init, CliInit, CollectInit
<1>2. depth \in Nat /\ dist \in [visited -> 0..depth + 1] /\ dist[Seed] = 0
  BY <1>1
<1>3. /\ DOMAIN queue = {1} /\ queue[1] = <<Seed, 0>> /\ queue \in Seq(visited \X (0..depth))
      /\ queue[1][1] = Seed /\ queue[1][2] = 0
  BY <1>1, <1>2
<1>4. DOMAIN <<>> = {} /\ <<>> \in Seq(visited \X (0..depth)) /\ <<>> \in Seq(visited)
  BY EmptySeq
<1>5. Urls(queue) = {Seed} /\ Urls(fetched) = {}
  <2>1. Urls(queue) = {Seed}
    BY <1>3 DEF Urls
  <2>2. DOMAIN fetched = {}
    BY <1>1, <1>4
  <2>3. QED
    BY <2>1, <2>2 DEF Urls
<1>6. InOrder(queue)
  BY <1>1, <1>2, <1>3 DEF InOrder
<1>7. InOrder(fetched)
  BY <1>1, <1>4 DEF InOrder
<1>8. EachOnce /\ Frontier /\ LinkedTo
  <2>1. IsFiniteSet({})
    BY FS_EmptySet
  <2>2. QED
    BY <1>1, <1>2, <1>3, <1>5, <2>1 DEF EachOnce, Frontier, LinkedTo
<1>9. IsInjective(allLinks) /\ ToSet(allLinks) = {}
  BY <1>1, <1>4 DEF IsInjective, ToSet
<1>10. QED
  BY <1>1, <1>2, <1>4, <1>6, <1>7, <1>8, <1>9 DEF WalkInv

-----------------------------------------------------------------------------
(* The commands together. *)

\* The types, and the bounds on the prompts discover sends and on the pages it
\* opens: five prompts and three pages besides those for navigation, of which
\* there are at most MaxNav.
LEMMA TypesHold ==
  ASSUME CliInv, DiscoverInv
  PROVE  TypeOK
<1>1. CliTypeOK /\ DiscoverTypeOK
  BY DEF CliInv, DiscoverInv
<1>2. sent \in Nat /\ navs \in 0..MaxNav /\ MaxNav \in Nat /\ tabs \in Nat
  BY <1>1, DiscoverAssumption DEF CliTypeOK, DiscoverTypeOK, SessionTypeOK
<1>3. command = "discover" => sent <= navs + 5 /\ tabs <= navs + 3
  BY DEF DiscoverInv, PromptsSoFar, TabsSoFar
<1>4. QED
  BY <1>1, <1>2, <1>3 DEF TypeOK, BoundedWork

\* The commands begin with the invariant.
LEMMA InitIInv == Init => IInv
<1> SUFFICES ASSUME Init PROVE IInv
  OBVIOUS
<1>1. CliInv
  BY DEF Init, CliInit, CliInv, CliTypeOK, CommandNames
<1>2. SessionInv
  <2>1. Len(channel) <= Capacity /\ Len(process) <= Texts + 2 /\ text \in 0..Texts
    BY SessionAssumption, EmptySeq DEF Init, DiscoverInit, SessionInit
  <2>2. SessionTypeOK
    BY <2>1 DEF Init, DiscoverInit, SessionInit, SessionTypeOK, NoSession
  <2>3. QED
    BY <2>2 DEF Init, DiscoverInit, SessionInit, SessionInv, NoSession, OkIsWhole
<1>3. DiscoverInv
  <2>1. SessionTypeOK
    BY <1>2 DEF SessionInv
  <2>2. profile.from = 0 /\ ~ profile.validated /\ records = 0 /\ sent = 0 /\ navs = 0
        /\ level = {} /\ judged = 0 /\ tabs = 0 /\ pc = "start"
        /\ exit = "running" /\ asked = "nothing"
    BY DEF Init, CliInit, DiscoverInit, SessionInit, NoProfile
  <2>3. profile \in [from: 0..sent, confident: BOOLEAN, validated: BOOLEAN]
    BY <2>2 DEF Init, DiscoverInit, NoProfile
  <2>4. DiscoverTypeOK
    <3>1. /\ maxLevel \in 1..3 /\ jobDir \in {"none", "there", "gone", "stuck"}
          /\ saved \in BOOLEAN
      BY DEF Init, DiscoverInit
    <3>2. navs \in 0..MaxNav /\ judged \in 0..sent
      BY <2>2, DiscoverAssumption
    <3>3. QED
      BY <2>1, <2>2, <2>3, <3>1, <3>2 DEF DiscoverTypeOK
  <2>5. PromptsSoFar /\ TabsSoFar /\ ProfileFound /\ LevelsTried /\ Closing
    BY <2>2 DEF PromptsSoFar, TabsSoFar, ProfileFound, LevelsTried, Closing, Between
  <2>6. QED
    BY <2>2, <2>4, <2>5 DEF DiscoverInv, ValidatedWasJudged
<1>4. ExtractInv
  <2>1. maxPages \in Nat /\ pages = <<>> /\ nextPage \in Pages /\ written = 0
    BY ExtractAssumption DEF Init, ExtractInit
  <2>2. exit = "running" /\ Len(pages) = 0 /\ pages \in Seq(Pages)
    BY <2>1, EmptySeq DEF Init, CliInit
  <2>3. QED
    BY <2>1, <2>2 DEF ExtractInv, ExtractReadsThenWrites
<1>5. SingleInv
  BY DEF Init, CliInit, SingleInit, SingleInv, OkIsWritten
<1>6. WalkInv
  BY InitWalk
<1>7. TypeOK
  BY <1>1, <1>3, TypesHold
<1>8. QED
  BY <1>1, <1>2, <1>3, <1>4, <1>5, <1>6, <1>7 DEF IInv

\* Every step of a command keeps each part,
LEMMA NextParts ==
  ASSUME IInv, [Next]_vars
  PROVE  CliInv' /\ SessionInv' /\ DiscoverInv' /\ ExtractInv' /\ WalkInv' /\ SingleInv'
<1>1. CliInv /\ SessionInv /\ DiscoverInv /\ ExtractInv /\ WalkInv /\ SingleInv
  BY DEF IInv
<1>2. ASSUME command \notin {"fetch", "export-spec"}, UNCHANGED command PROVE SingleInv'
  BY <1>2 DEF SingleInv, OkIsWritten
<1>3. ASSUME command # "extract", UNCHANGED command, UNCHANGED extraction PROVE ExtractInv'
  <2>1. ~ written > 0
    BY <1>1, <1>3 DEF ExtractInv
  <2>2. QED
    BY <1>1, <1>3, <2>1 DEF ExtractInv, ExtractReadsThenWrites, extraction
<1>4. ASSUME UNCHANGED command, command # "collect-links", UNCHANGED collection PROVE WalkInv'
  BY <1>1, <1>4, WalkSame
<1>5. CASE Discovering(DiscoverNext)
  <2>1. DiscoverNext /\ UNCHANGED extraction /\ UNCHANGED collection
    BY <1>5 DEF Discovering
  <2>2. CliInv' /\ command = "discover" /\ UNCHANGED command
    BY <1>1, <2>1, DiscoverCli
  <2>3. SessionInv' /\ SessionTypeOK'
    BY <1>1, <2>1, DiscoverSession DEF SessionInv
  <2>4. DiscoverInv'
    BY <1>1, <2>1, <2>3, L1Keeps, L2Keeps, L3Keeps, WaitingSame DEF DiscoverNext, DiscoverStep
  <2>5. QED
    BY <1>2, <1>3, <1>4, <2>1, <2>2, <2>3, <2>4
<1>6. CASE Extracting
  <2>1. ExtractNext /\ UNCHANGED <<session, discovery>> /\ UNCHANGED collection
    BY <1>6 DEF Extracting
  <2>2. CliInv' /\ ExtractInv' /\ command = "extract" /\ UNCHANGED command /\ pc # "navigate"
    BY <1>1, <2>1, ExtractSteps
  <2>3. SessionInv' /\ DiscoverInv'
    BY <1>1, <2>1, <2>2, SessionSame, OthersSame
  <2>4. QED
    BY <1>2, <1>4, <2>1, <2>2, <2>3
<1>7. CASE Collecting
  <2>1. CollectNext /\ UNCHANGED <<session, discovery>> /\ UNCHANGED extraction
    BY <1>7 DEF Collecting
  <2>2. CliInv' /\ command = "collect-links" /\ UNCHANGED command /\ pc # "navigate"
    BY <1>1, <2>1, CollectSteps
  <2>3. SessionInv' /\ DiscoverInv'
    BY <1>1, <2>1, <2>2, SessionSame, OthersSame
  <2>4. WalkInv'
    BY <1>1, <2>1, WalkSteps
  <2>5. QED
    BY <1>2, <1>3, <2>1, <2>2, <2>3, <2>4
<1>8. CASE Single
  <2>1. /\ SingleNext /\ UNCHANGED <<session, discovery>> /\ UNCHANGED extraction
        /\ UNCHANGED collection
    BY <1>8 DEF Single
  <2>2. /\ CliInv' /\ SingleInv' /\ UNCHANGED command /\ pc # "navigate"
        /\ command \in {"fetch", "test-selector", "export-spec"}
    BY <1>1, <2>1, SingleSteps
  <2>3. SessionInv' /\ DiscoverInv'
    BY <1>1, <2>1, <2>2, SessionSame, OthersSame
  <2>4. QED
    BY <1>3, <1>4, <2>1, <2>2, <2>3
<1>9. CASE UNCHANGED vars
  <2>1. UNCHANGED <<cli, discovery>> /\ UNCHANGED session /\ UNCHANGED extraction
        /\ UNCHANGED output /\ UNCHANGED collection
    BY <1>9 DEF vars
  <2>2. SessionInv' /\ SessionTypeOK' /\ UNCHANGED sent
    BY <1>1, <2>1, SessionSame
  <2>3. CliInv'
    BY <1>1, <2>1 DEF CliInv, CliTypeOK, cli
  <2>4. ExtractInv'
    BY <1>1, <2>1 DEF ExtractInv, ExtractReadsThenWrites, extraction, cli
  <2>5. SingleInv'
    BY <1>1, <2>1 DEF SingleInv, OkIsWritten, cli
  <2>6. DiscoverInv'
    BY <1>1, <2>1, <2>2, DiscoverSame
  <2>7. WalkInv'
    <3>1. (command = "collect-links" /\ exit = "ok")' => queue = <<>>
      BY <1>1, <2>1 DEF cli, WalkInv
    <3>2. QED
      BY <1>1, <2>1, <3>1, WalkSame
  <2>8. QED
    BY <2>2, <2>3, <2>4, <2>5, <2>6, <2>7
<1>10. QED
  BY <1>5, <1>6, <1>7, <1>8, <1>9 DEF Next, Command, Discovering, DiscoverNext, Done

\* A bound that rests on another.
LEMMA StaysBelow ==
  ASSUME NEW m \in Nat, NEW n \in 0..m, NEW c \in Nat, NEW k \in Nat, k <= n + c
  PROVE  k <= m + c
OBVIOUS

\* and so the invariant.
LEMMA NextIInv == IInv /\ [Next]_vars => IInv'
<1> SUFFICES ASSUME IInv, [Next]_vars PROVE IInv'
  OBVIOUS
<1>1. CliInv' /\ SessionInv' /\ DiscoverInv' /\ ExtractInv' /\ WalkInv' /\ SingleInv'
  BY NextParts
<1>2. TypeOK'
  <2>1. CliTypeOK' /\ DiscoverTypeOK'
    BY <1>1 DEF CliInv, DiscoverInv
  <2>2. sent' \in Nat /\ navs' \in 0..MaxNav /\ MaxNav \in Nat /\ tabs' \in Nat
    BY <2>1, DiscoverAssumption DEF CliTypeOK, DiscoverTypeOK, SessionTypeOK
  <2>3. command' = "discover" => sent' <= navs' + 5 /\ tabs' <= navs' + 3
    BY <1>1 DEF DiscoverInv, PromptsSoFar, TabsSoFar
  <2>4. BoundedWork'
    <3>1. ASSUME command' = "discover" PROVE sent' <= MaxNav + 5 /\ tabs' <= MaxNav + 3
      <4>1. sent' <= navs' + 5 /\ tabs' <= navs' + 3
        BY <2>3, <3>1
      <4>2. navs' \in 0..MaxNav /\ 5 \in Nat /\ 3 \in Nat
        BY <2>2
      <4>3. QED
        BY <2>2, <4>1, <4>2, StaysBelow
    <3>2. QED
      BY <3>1 DEF BoundedWork
  <2>5. QED
    BY <2>1, <2>4 DEF TypeOK
<1>3. QED
  BY <1>1, <1>2 DEF IInv

-----------------------------------------------------------------------------
(* What holds of every run of a command. *)

\* The account of the events, the stages of discover and the rest hold
\* whatever the agent, the browser and the file system do.
THEOREM CommandsInvariant == Spec => []IInv
<1>1. Init => IInv
  BY InitIInv
<1>2. IInv /\ [Next]_vars => IInv'
  BY NextIInv
<1>3. QED
  BY <1>1, <1>2, PTL DEF Spec

\* Types, and the bounds on the prompts discover sends and the pages it opens:
\* five prompts and three pages besides those for navigation, of which there
\* are at most MaxNav.
THEOREM WorkIsBounded == Spec => []TypeOK
<1>1. IInv => TypeOK
  BY DEF IInv
<1>2. QED
  BY <1>1, CommandsInvariant, PTL

\* A command that ends well has asked its browser to close, and discover for
\* its job directory to be removed; discover has saved its profile, extract has
\* read every page it was sent to, fetch and export-spec have written theirs.
THEOREM OkIsDone == Spec => []OkMeansDone
<1>1. IInv => OkMeansDone
  <2> SUFFICES ASSUME IInv PROVE OkMeansDone
    OBVIOUS
  <2>1. OkAsksToClose
    BY DEF IInv, CliInv, OkAsksToClose
  <2>2. OkIsSaved
    BY DEF IInv, DiscoverInv, Closing, OkIsSaved
  <2>3. ExtractReadsThenWrites /\ OkIsWritten
    BY DEF IInv, ExtractInv, SingleInv
  <2>4. QED
    BY <2>1, <2>2, <2>3 DEF OkMeansDone
<1>2. QED
  BY <1>1, CommandsInvariant, PTL

\* An answer lacks texts only when some were lost or its process died, and a
\* conversation an answered prompt only when a `start` was lost, in whatever
\* order the events, the deadlines, the losses and the deaths come.
THEOREM AnswersAreKept == Spec => []AnswersKept
<1>1. IInv => AnswersKept
  <2> SUFFICES ASSUME IInv PROVE AnswersKept
    OBVIOUS
  <2>1. SessionInv
    BY DEF IInv
  <2>2. OkIsWhole
    BY <2>1 DEF SessionInv
  <2>3. turn \in {"ok", "err"} => missed.start > 0 \/ resume = began
    BY <2>1 DEF SessionInv
  <2>4. QED
    BY <2>2, <2>3 DEF AnswersKept, ContextKept
<1>2. QED
  BY <1>1, CommandsInvariant, PTL

\* A profile that says it is validated is the one whose records the agent was
\* shown and passed, whatever replaced it afterwards.
THEOREM VerdictIsOwn == Spec => []ValidatedWasJudged
<1>1. IInv => ValidatedWasJudged
  BY DEF IInv, DiscoverInv
<1>2. QED
  BY <1>1, CommandsInvariant, PTL

\* discover ends well with a poor result only when every level was tried.
THEOREM PoorResultTried == Spec => []PoorResultTriedAll
<1>1. IInv => PoorResultTriedAll
  <2> SUFFICES ASSUME IInv, command = "discover", exit = "ok", browser, ShouldEscalate,
                      NEW l \in 1..3, l <= maxLevel
               PROVE  l \in level
    BY DEF PoorResultTriedAll
  <2>1. pc = "save" /\ maxLevel \in 1..3
    BY DEF IInv, DiscoverInv, DiscoverTypeOK, Closing
  <2>2. 1 \in level
    BY <2>1 DEF IInv, DiscoverInv, ProfileFound, Between
  <2>3. maxLevel >= 2 => 2 \in level
    BY <2>1 DEF IInv, DiscoverInv, LevelsTried, Between
  <2>4. maxLevel >= 3 => 3 \in level
    BY <2>1 DEF IInv, DiscoverInv, LevelsTried
  <2>5. l = 1 \/ l = 2 \/ l = 3
    OBVIOUS
  <2>6. QED
    BY <2>1, <2>2, <2>3, <2>4, <2>5
<1>2. QED
  BY <1>1, CommandsInvariant, PTL

\* What collect-links prints is exactly the links at most --depth links below
\* the seed through the pages that could be fetched, each once; it has tried
\* every page up to that depth once, nearest first.  For every site, every
\* --depth and every choice of the pages that fail.
THEOREM WalkIsAlwaysExact == Spec => []WalkIsExact
<1>1. IInv => WalkIsExact
  BY WalkExact DEF IInv
<1>2. QED
  BY <1>1, CommandsInvariant, PTL

=============================================================================
