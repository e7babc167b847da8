-------------------------- MODULE SerialLinkProofs --------------------------
(***************************************************************************)
(* Proofs about SerialLink, for every script, every typed byte, every      *)
(* number of retries and a backlog of any length.                          *)
(*                                                                         *)
(* First what the parser does with a line (Run, Firing, FirstFired), by    *)
(* induction over the line; then the types, the invariants and the action  *)
(* properties; at the end that over a settled line each step is a step of  *)
(* the abstract port or leaves it as it was.                               *)
(***************************************************************************)
EXTENDS SerialLink, Induction, SequenceTheorems

\* Every byte the model names is a byte, and so is every command.
LEMMA ByteFacts ==
  /\ Cmd \subseteq Bytes /\ Newlines \subseteq Bytes /\ Cmd \cap Newlines = {}
  /\ {"m", "c"} \subseteq Bytes /\ {"m", "c"} \cap (Cmd \cup Newlines) = {}
  /\ Off \in Bytes /\ None \notin Cmd /\ Foreign \notin Cmd
BY DEF Cmd, Off, On, Ping, Bytes, Newlines, None, Foreign

\* A byte takes the parser to a parser.
LEMMA ParseType ==
  ASSUME NEW p \in Parser, NEW b \in Bytes
  PROVE  Parse(p, b) \in Parser
<1>1. p.state \in 0..3 /\ p.cmd \in Bytes /\ Len(Magic) = 2
  BY DEF Parser, Magic
<1>2. [p EXCEPT !.state = 0] \in Parser
  BY DEF Parser
<1>3. CASE p.state < Len(Magic)
  <2>1. (IF b = Magic[p.state + 1] THEN p.state + 1 ELSE 0) \in 0..3
    BY <1>1, <1>3
  <2> QED
    BY <1>3, <2>1 DEF Parse, Parser
<1>4. CASE p.state = Len(Magic)
  BY <1>1, <1>4 DEF Parse, Parser
<1>5. CASE ~(p.state < Len(Magic)) /\ p.state # Len(Magic)
  BY <1>2, <1>5 DEF Parse
<1> QED
  BY <1>3, <1>4, <1>5

\* What is on the line are bytes.
LEMMA BytesOfLine ==
  ASSUME NEW line \in Seq(Sent)
  PROVE  \A k \in 1..Len(line) : line[k].b \in Bytes
<1>1. \A k \in 1..Len(line) : line[k] \in Sent
  OBVIOUS
<1> QED
  BY <1>1 DEF Sent

\* Run is what its equation says.
LEMMA RunWorks ==
  ASSUME NEW p \in Parser, NEW line \in Seq(Sent)
  PROVE  /\ Run(p, line) \in [0..Len(line) -> Parser]
         /\ Run(p, line)[0] = p
         /\ \A k \in 1..Len(line) :
              Run(p, line)[k] = Parse(Run(p, line)[k - 1], line[k].b)
<1> DEFINE n == Len(line)
           G == [k \in 1..n |-> [q \in Parser |-> Parse(q, line[k].b)]]
           Eq(f) == f = [k \in 0..n |-> IF k = 0 THEN p ELSE Parse(f[k - 1], line[k].b)]
<1>1. n \in Nat
  OBVIOUS
<1>2. \A k \in 1..n : line[k].b \in Bytes
  BY BytesOfLine
<1>3. G \in [1..n -> [Parser -> Parser]]
  BY <1>2, ParseType
<1>4. PICK f \in [0..n -> Parser] : f[0] = p /\ \A k \in 1..n : f[k] = G[k][f[k - 1]]
  <2> HIDE DEF n, G
  <2> QED
    BY <1>1, <1>3, IterationExists
<1>5. \A k \in 1..n : f[k] = Parse(f[k - 1], line[k].b)
  <2>1. \A k \in 1..n, q \in Parser : G[k][q] = Parse(q, line[k].b)
    OBVIOUS
  <2>2. \A k \in 1..n : f[k - 1] \in Parser
    BY <1>1
  <2> HIDE DEF G
  <2> QED
    BY <1>4, <2>1, <2>2
<1>6. Eq(f)
  BY <1>1, <1>4, <1>5
<1>7. Eq(Run(p, line))
  <2>1. Run(p, line) = CHOOSE g : Eq(g)
    BY DEF Run
  <2> HIDE DEF Eq
  <2> QED
    BY <1>6, <2>1
<1>8. \A g : Eq(g) => g[0] = p /\ \A k \in 1..n : g[k] = Parse(g[k - 1], line[k].b)
  BY <1>1
<1>9. \A g : Eq(g) => \A k \in 0..n : g[k] = f[k]
  <2> SUFFICES ASSUME NEW g, Eq(g) PROVE \A k \in 0..n : g[k] = f[k]
    OBVIOUS
  <2> DEFINE T == {k \in Nat : k <= n => g[k] = f[k]}
  <2>1. 0 \in T
    BY <1>4, <1>8
  <2>2. ASSUME NEW k \in T PROVE k + 1 \in T
    <3> SUFFICES ASSUME k + 1 <= n PROVE g[k + 1] = f[k + 1]
      OBVIOUS
    <3>1. k + 1 \in 1..n /\ k + 1 - 1 = k /\ g[k] = f[k]
      BY <1>1
    <3> QED
      BY <1>5, <1>8, <3>1
  <2>3. T = Nat
    <3>1. T \subseteq Nat
      OBVIOUS
    <3> HIDE DEF T
    <3> QED
      BY <2>1, <2>2, <3>1, NatSetInduction
  <2>4. \A k \in 0..n : k \in Nat /\ k <= n
    BY <1>1
  <2>5. \A k \in Nat : k <= n => g[k] = f[k]
    BY <2>3
  <2> HIDE DEF n, T
  <2> QED
    BY <2>4, <2>5
<1>10. Run(p, line) = f
  <2>1. \A g : Eq(g) => g = [k \in 0..n |-> g[k]]
    OBVIOUS
  <2>2. f = [k \in 0..n |-> f[k]]
    BY <1>4
  <2> HIDE DEF Eq, n
  <2> QED
    BY <1>7, <1>9, <2>1, <2>2
<1> QED
  BY <1>4, <1>5, <1>10

\* Runs with the same beginning over the same bytes are the same.
LEMMA RunsAgree ==
  ASSUME NEW n \in Nat, NEW b \in [1..n -> Bytes],
         NEW f \in [0..n -> Parser], NEW g \in [0..n -> Parser], f[0] = g[0],
         \A k \in 1..n : f[k] = Parse(f[k - 1], b[k]),
         \A k \in 1..n : g[k] = Parse(g[k - 1], b[k])
  PROVE  \A k \in 0..n : f[k] = g[k]
<1> DEFINE T == {k \in Nat : k <= n => f[k] = g[k]}
<1>1. 0 \in T
  OBVIOUS
<1>2. ASSUME NEW k \in T PROVE k + 1 \in T
  <2> SUFFICES ASSUME k + 1 <= n PROVE f[k + 1] = g[k + 1]
    OBVIOUS
  <2>1. k + 1 \in 1..n /\ k + 1 - 1 = k /\ f[k] = g[k]
    OBVIOUS
  <2> QED
    BY <2>1
<1>3. T = Nat
  <2>1. T \subseteq Nat
    OBVIOUS
  <2> HIDE DEF T
  <2> QED
    BY <1>1, <1>2, <2>1, NatSetInduction
<1>4. \A k \in Nat : k <= n => f[k] = g[k]
  BY <1>3
<1>5. \A k \in 0..n : k \in Nat /\ k <= n
  OBVIOUS
<1> HIDE DEF T
<1> QED
  BY <1>4, <1>5

\* What is behind a byte does not change how the parser comes to it.
LEMMA RunOfPrefix ==
  ASSUME NEW p \in Parser, NEW line \in Seq(Sent), NEW short \in Seq(Sent),
         Len(short) <= Len(line), \A k \in 1..Len(short) : short[k] = line[k]
  PROVE  /\ \A k \in 0..Len(short) : Run(p, short)[k] = Run(p, line)[k]
         /\ Firing(p, short) = Firing(p, line) \cap (1..Len(short))
<1> DEFINE n == Len(short)
           b == [k \in 1..n |-> short[k].b]
           f == Run(p, short)
           g == [k \in 0..n |-> Run(p, line)[k]]
<1>1. n \in Nat /\ Len(line) \in Nat /\ n <= Len(line)
  OBVIOUS
<1>2. f[0] = g[0]
  BY RunWorks
<1>3. \A k \in 1..n : f[k] = Parse(f[k - 1], b[k])
  BY RunWorks
<1>4. \A k \in 1..n : g[k] = Parse(g[k - 1], b[k])
  <2>1. \A k \in 1..n : k \in 1..Len(line) /\ b[k] = line[k].b
    BY <1>1
  <2>2. \A k \in 1..Len(line) :
          Run(p, line)[k] = Parse(Run(p, line)[k - 1], line[k].b)
    BY RunWorks
  <2>3. \A k \in 1..n : k - 1 \in 0..n /\ k \in 0..n
    BY <1>1
  <2> QED
    BY <2>1, <2>2, <2>3
<1>5. \A k \in 0..n : f[k] = g[k]
  <2>1. b \in [1..n -> Bytes]
    BY BytesOfLine
  <2>2. f \in [0..n -> Parser]
    BY RunWorks
  <2>3. g \in [0..n -> Parser]
    <3>1. 0..n \subseteq 0..Len(line)
      BY <1>1
    <3> QED
      BY <3>1, RunWorks
  <2> HIDE DEF f, g, b, n
  <2> QED
    BY <1>1, <1>2, <1>3, <1>4, <2>1, <2>2, <2>3, RunsAgree
<1>6. \A k \in 1..n :
        Fires(f[k - 1], short[k].b) <=> Fires(Run(p, line)[k - 1], line[k].b)
  <2>1. \A k \in 1..n : k - 1 \in 0..n /\ short[k] = line[k]
    OBVIOUS
  <2> QED
    BY <1>5, <2>1
<1>7. Firing(p, short) = Firing(p, line) \cap (1..n)
  <2>1. 1..n \subseteq 1..Len(line)
    BY <1>1
  <2> QED
    BY <1>6, <2>1 DEF Firing
<1> QED
  BY <1>5, <1>7

\* Reading the first byte leaves the run over the rest.
LEMMA RunOfTail ==
  ASSUME NEW p \in Parser, NEW line \in Seq(Sent), line # <<>>
  PROVE  /\ Parse(p, Head(line).b) \in Parser
         /\ \A k \in 0..Len(Tail(line)) :
              Run(Parse(p, Head(line).b), Tail(line))[k] = Run(p, line)[k + 1]
<1> DEFINE n == Len(Tail(line))
           q == Parse(p, Head(line).b)
           b == [k \in 1..n |-> Tail(line)[k].b]
           f == Run(q, Tail(line))
           g == [k \in 0..n |-> Run(p, line)[k + 1]]
<1>1. /\ Len(line) \in Nat /\ Len(line) = n + 1 /\ n \in Nat /\ Tail(line) \in Seq(Sent)
      /\ Head(line) = line[1] /\ \A k \in 1..n : Tail(line)[k] = line[k + 1]
  OBVIOUS
<1>2. q \in Parser
  <2>1. Head(line) \in Sent
    OBVIOUS
  <2>2. Head(line).b \in Bytes
    BY <2>1 DEF Sent
  <2> QED
    BY <2>2, ParseType
<1>3. \A k \in 1..Len(line) : Run(p, line)[k] = Parse(Run(p, line)[k - 1], line[k].b)
  BY RunWorks
<1>4. f[0] = g[0]
  <2>1. f[0] = q
    BY <1>1, <1>2, RunWorks
  <2>2. Run(p, line)[1] = Parse(Run(p, line)[0], line[1].b)
    BY <1>1, <1>3
  <2> QED
    BY <1>1, <2>1, <2>2, RunWorks
<1>5. \A k \in 1..n : f[k] = Parse(f[k - 1], b[k])
  BY <1>1, <1>2, RunWorks
<1>6. \A k \in 1..n : g[k] = Parse(g[k - 1], b[k])
  <2> SUFFICES ASSUME NEW k \in 1..n PROVE g[k] = Parse(g[k - 1], b[k])
    OBVIOUS
  <2>1. k + 1 \in 1..Len(line) /\ k + 1 - 1 = k /\ k - 1 + 1 = k
        /\ k \in 0..n /\ k - 1 \in 0..n
    BY <1>1
  <2>2. Run(p, line)[k + 1] = Parse(Run(p, line)[k], line[k + 1].b)
    BY <1>3, <2>1
  <2>3. b[k] = line[k + 1].b
    BY <1>1
  <2> QED
    BY <2>1, <2>2, <2>3
<1>7. \A k \in 0..n : f[k] = g[k]
  <2>1. b \in [1..n -> Bytes]
    BY <1>1, BytesOfLine
  <2>2. f \in [0..n -> Parser]
    BY <1>1, <1>2, RunWorks
  <2>3. g \in [0..n -> Parser]
    <3>1. \A k \in 0..n : k + 1 \in 0..Len(line)
      BY <1>1
    <3> QED
      BY <3>1, RunWorks
  <2> HIDE DEF f, g, b, n
  <2> QED
    BY <1>1, <1>4, <1>5, <1>6, <2>1, <2>2, <2>3, RunsAgree
<1> QED
  BY <1>2, <1>7

-----------------------------------------------------------------------------
(* The first command on a line *)

\* FirstOf is the least element.
LEMMA FirstOfWorks ==
  ASSUME NEW ks, ks \subseteq Nat, ks # {}
  PROVE  /\ FirstOf(ks) \in ks
         /\ \A x \in ks : (\A j \in ks : x <= j) => x = FirstOf(ks)
<1> DEFINE P(x) == x \in ks /\ \A j \in ks : x <= j
<1>1. \E x : P(x)
  BY LeastExists
<1>2. P(CHOOSE x : P(x))
  <2> HIDE DEF P
  <2> QED
    BY <1>1
<1>3. FirstOf(ks) = CHOOSE x : P(x)
  BY DEF FirstOf
<1>4. \A x, y \in ks : x <= y /\ y <= x => x = y
  OBVIOUS
<1>5. P(FirstOf(ks))
  <2> HIDE DEF P
  <2> QED
    BY <1>2, <1>3
<1> QED
  BY <1>4, <1>5

\* A line without a newline runs nothing.
LEMMA NoNewlineNoFire ==
  ASSUME NEW p \in Parser, NEW line \in Seq(Sent),
         \A k \in 1..Len(line) : line[k].b \notin Newlines
  PROVE  FirstFired(p, line) = None
BY DEF FirstFired, Firing, Fires

\* A byte that runs a command is the first on its line that does.
LEMMA HeadFires ==
  ASSUME NEW p \in Parser, NEW line \in Seq(Sent), line # <<>>, Fires(p, Head(line).b)
  PROVE  FirstFired(p, line) = p.cmd
<1>1. Head(line) = line[1] /\ 1 \in 1..Len(line)
  OBVIOUS
<1>2. Run(p, line)[0] = p
  BY RunWorks
<1>3. 1 \in Firing(p, line)
  BY <1>1, <1>2 DEF Firing
<1>4. Firing(p, line) \subseteq Nat /\ \A j \in Firing(p, line) : 1 <= j
  BY DEF Firing
<1>5. FirstOf(Firing(p, line)) = 1
  BY <1>3, <1>4, FirstOfWorks
<1> QED
  BY <1>2, <1>3, <1>5 DEF FirstFired

\* A byte that runs nothing leaves the first command to the rest of the line.
LEMMA HeadPasses ==
  ASSUME NEW p \in Parser, NEW line \in Seq(Sent), line # <<>>, ~Fires(p, Head(line).b)
  PROVE  FirstFired(Parse(p, Head(line).b), Tail(line)) = FirstFired(p, line)
<1> DEFINE q == Parse(p, Head(line).b)
           ks == Firing(p, line)
           ts == Firing(q, Tail(line))
<1>1. /\ Len(line) \in Nat /\ Len(Tail(line)) = Len(line) - 1 /\ Tail(line) \in Seq(Sent)
      /\ Head(line) = line[1] /\ \A k \in 1..Len(Tail(line)) : Tail(line)[k] = line[k + 1]
  OBVIOUS
<1>2. \A k \in 0..Len(Tail(line)) : Run(q, Tail(line))[k] = Run(p, line)[k + 1]
  BY RunOfTail
<1>3. 1 \notin ks
  <2>1. Run(p, line)[0] = p
    BY RunWorks
  <2> QED
    BY <1>1, <2>1 DEF Firing
<1>4. \A k \in 1..Len(Tail(line)) : k \in ts <=> k + 1 \in ks
  <2> SUFFICES ASSUME NEW k \in 1..Len(Tail(line)) PROVE k \in ts <=> k + 1 \in ks
    OBVIOUS
  <2>1. k - 1 \in 0..Len(Tail(line)) /\ k - 1 + 1 = k /\ k + 1 - 1 = k
        /\ k + 1 \in 1..Len(line)
    BY <1>1
  <2>2. Run(q, Tail(line))[k - 1] = Run(p, line)[k]
    BY <1>2, <2>1
  <2>3. Tail(line)[k] = line[k + 1]
    BY <1>1
  <2> QED
    BY <2>1, <2>2, <2>3 DEF Firing
<1>5. ks \subseteq 2..Len(line) /\ ts \subseteq 1..Len(Tail(line))
  BY <1>1, <1>3 DEF Firing
<1>6. CASE ts = {}
  <2>1. ks = {}
    <3> SUFFICES ASSUME NEW j \in ks PROVE FALSE
      OBVIOUS
    <3>1. j - 1 \in 1..Len(Tail(line)) /\ j - 1 + 1 = j
      BY <1>1, <1>5
    <3> QED
      BY <1>4, <1>6, <3>1
  <2> QED
    BY <1>6, <2>1 DEF FirstFired
<1>7. CASE ts # {}
  <2> DEFINE t == FirstOf(ts)
  <2>1. t \in ts /\ \A x \in ts : t <= x
    <3>1. ts \subseteq Nat
      BY <1>5
    <3>2. PICK x \in ts : \A j \in ts : x <= j
      BY <1>7, <3>1, LeastExists
    <3> QED
      BY <1>7, <3>1, <3>2, FirstOfWorks
  <2>2. t \in 1..Len(Tail(line)) /\ t + 1 \in ks
    BY <1>4, <1>5, <2>1
  <2>3. ASSUME NEW j \in ks PROVE t + 1 <= j
    <3>1. j - 1 \in 1..Len(Tail(line)) /\ j - 1 + 1 = j
      BY <1>1, <1>5
    <3>2. j - 1 \in ts
      BY <1>4, <3>1
    <3> QED
      BY <2>1, <2>2, <3>1, <3>2
  <2>4. FirstOf(ks) = t + 1
    <3>1. ks \subseteq Nat
      BY <1>5
    <3> QED
      BY <2>2, <2>3, <3>1, FirstOfWorks
  <2>5. FirstFired(p, line) = Run(p, line)[t].cmd
    BY <2>2, <2>4 DEF FirstFired
  <2>6. FirstFired(q, Tail(line)) = Run(q, Tail(line))[t - 1].cmd
    BY <1>7 DEF FirstFired
  <2>7. t - 1 \in 0..Len(Tail(line)) /\ t - 1 + 1 = t
    BY <2>2
  <2> QED
    BY <1>2, <2>5, <2>6, <2>7
<1> QED
  BY <1>6, <1>7

\* What is cut off a line can only take its first command away ...
LEMMA CutFires ==
  ASSUME NEW p \in Parser, NEW line \in Seq(Sent), NEW n \in 0..Len(line)
  PROVE  FirstFired(p, SubSeq(line, 1, n)) \in {FirstFired(p, line), None}
<1> DEFINE short == SubSeq(line, 1, n)
           ks == Firing(p, line)
           ss == Firing(p, short)
<1>1. short \in Seq(Sent) /\ Len(short) = n /\ Len(line) \in Nat
      /\ \A k \in 1..n : short[k] = line[k]
  OBVIOUS
<1>2. /\ \A k \in 0..n : Run(p, short)[k] = Run(p, line)[k]
      /\ ss = ks \cap (1..n)
  <2> HIDE DEF short
  <2> QED
    BY <1>1, RunOfPrefix
<1>3. CASE ss = {}
  BY <1>3 DEF FirstFired
<1>4. CASE ss # {}
  <2>1. ss \subseteq Nat /\ ks \subseteq Nat /\ ss \subseteq ks /\ ks # {} /\ ss \subseteq 1..n
    BY <1>2, <1>4 DEF Firing
  <2>2. PICK x \in ss : \A j \in ss : x <= j
    BY <1>4, <2>1, LeastExists
  <2>3. \A j \in ks : x <= j
    <3> SUFFICES ASSUME NEW j \in ks, ~(x <= j) PROVE FALSE
      OBVIOUS
    <3>1. j \in 1..n
      BY <1>1, <2>1 DEF Firing
    <3> QED
      BY <1>2, <2>2, <3>1
  <2>4. x = FirstOf(ss) /\ x = FirstOf(ks)
    <3> HIDE DEF ss, ks
    <3> QED
      BY <1>4, <2>1, <2>2, <2>3, FirstOfWorks
  <2>5. x - 1 \in 0..n
    BY <2>1
  <2>6. FirstFired(p, short) = Run(p, short)[x - 1].cmd
        /\ FirstFired(p, line) = Run(p, line)[x - 1].cmd
    BY <1>4, <2>1, <2>4 DEF FirstFired
  <2> QED
    BY <1>2, <2>5, <2>6
<1> QED
  BY <1>3, <1>4

\* ... and what is typed behind it changes nothing without a newline.
LEMMA TypedFires ==
  ASSUME NEW p \in Parser, NEW line \in Seq(Sent), NEW x \in Sent, x.b \notin Newlines
  PROVE  FirstFired(p, line \o <<x>>) = FirstFired(p, line)
<1> DEFINE long == line \o <<x>>
<1>1. long \in Seq(Sent) /\ Len(line) \in Nat /\ Len(long) = Len(line) + 1
      /\ long[Len(line) + 1] = x /\ \A k \in 1..Len(line) : line[k] = long[k]
  OBVIOUS
<1>2. /\ \A k \in 0..Len(line) : Run(p, line)[k] = Run(p, long)[k]
      /\ Firing(p, line) = Firing(p, long) \cap (1..Len(line))
  <2> HIDE DEF long
  <2> QED
    BY <1>1, RunOfPrefix
<1>3. Len(line) + 1 \notin Firing(p, long)
  <2> HIDE DEF long
  <2> QED
    BY <1>1 DEF Firing, Fires
<1>4. Firing(p, line) = Firing(p, long)
  <2> HIDE DEF long
  <2>1. Firing(p, long) \subseteq 1..(Len(line) + 1)
    BY <1>1 DEF Firing
  <2> QED
    BY <1>1, <1>2, <1>3, <2>1
<1>5. CASE Firing(p, line) = {}
  BY <1>4, <1>5 DEF FirstFired
<1>6. CASE Firing(p, line) # {}
  <2>1. Firing(p, line) \subseteq 1..Len(line)
    BY DEF Firing
  <2>2. FirstOf(Firing(p, line)) \in 1..Len(line)
    <3>1. Firing(p, line) \subseteq Nat
      BY <2>1
    <3> QED
      BY <1>6, <2>1, <3>1, FirstOfWorks
  <2>3. FirstOf(Firing(p, line)) - 1 \in 0..Len(line)
    BY <1>1, <2>2
  <2> QED
    BY <1>2, <1>4, <1>6, <2>3 DEF FirstFired
<1> QED
  BY <1>5, <1>6

-----------------------------------------------------------------------------
(* Frames and answers *)

\* The letter of a frame never leaves the parser in a magic, and makes it hold
\* that letter or nothing.
LEMMA ParseLetter ==
  ASSUME NEW p \in Parser, NEW c \in Cmd
  PROVE  /\ Parse(p, c).state \in {0, 3}
         /\ Parse(p, c).state = 3 => Parse(p, c).cmd = c
<1>1. p.state \in 0..3 /\ Len(Magic) = 2 /\ Magic[1] = "m" /\ Magic[2] = "c"
  BY DEF Parser, Magic
<1>2. c # "m" /\ c # "c"
  BY ByteFacts
<1>3. CASE p.state < 2
  <2>1. Parse(p, c) = [p EXCEPT !.state = IF c = Magic[p.state + 1] THEN p.state + 1 ELSE 0]
    BY <1>1, <1>3 DEF Parse
  <2>2. c # Magic[p.state + 1]
    BY <1>1, <1>2, <1>3
  <2> QED
    BY <2>1, <2>2 DEF Parser
<1>4. CASE p.state = 2
  BY <1>1, <1>4 DEF Parse
<1>5. CASE p.state = 3
  BY <1>1, <1>5 DEF Parse, Parser
<1> QED
  BY <1>1, <1>3, <1>4, <1>5

\* A newline leaves the parser waiting for a magic, unless it is taken for the
\* letter.
LEMMA ParseNewline ==
  ASSUME NEW p \in Parser, NEW b \in Newlines, p.state # 2
  PROVE  Parse(p, b).state = 0
<1>1. p.state \in 0..3 /\ Len(Magic) = 2 /\ Magic[1] = "m" /\ Magic[2] = "c"
  BY DEF Parser, Magic
<1>2. b # "m" /\ b # "c"
  BY ByteFacts
<1>3. CASE p.state < 2
  <2>1. Parse(p, b) = [p EXCEPT !.state = IF b = Magic[p.state + 1] THEN p.state + 1 ELSE 0]
    BY <1>1, <1>3 DEF Parse
  <2>2. b # Magic[p.state + 1]
    BY <1>1, <1>2, <1>3
  <2> QED
    BY <2>1, <2>2 DEF Parser
<1>4. CASE p.state = 3
  BY <1>1, <1>4 DEF Parse, Parser
<1> QED
  BY <1>1, <1>3, <1>4

\* The four bytes of a frame.
LEMMA FrameFacts ==
  ASSUME NEW c \in Cmd
  PROVE  /\ Frame(c) \in Seq(Sent) /\ Len(Frame(c)) = 4
         /\ Frame(c)[1] = [b |-> "m", of |-> c] /\ Frame(c)[2] = [b |-> "c", of |-> c]
         /\ Frame(c)[3] = [b |-> c, of |-> c]   /\ Frame(c)[4] = [b |-> "CR", of |-> c]
<1> DEFINE bytes == Magic \o <<c, "CR">>
<1>1. Len(bytes) = 4 /\ bytes[1] = "m" /\ bytes[2] = "c" /\ bytes[3] = c /\ bytes[4] = "CR"
  BY DEF Magic
<1>2. \A k \in 1..4 : bytes[k] \in Bytes
  BY <1>1, ByteFacts DEF Newlines
<1>3. Frame(c) = [k \in 1..4 |-> [b |-> bytes[k], of |-> c]]
  BY <1>1 DEF Frame, Tagged
<1>4. \A k \in 1..4 : [b |-> bytes[k], of |-> c] \in Sent
  BY <1>2 DEF Sent
<1> HIDE DEF bytes
<1> QED
  BY <1>1, <1>3, <1>4

\* A frame on an empty line runs its own command or none, and runs it in a parser
\* that waits for a magic.
LEMMA FrameFires ==
  ASSUME NEW p \in Parser, NEW c \in Cmd
  PROVE  /\ FirstFired(p, Frame(c)) \in {c, None}
         /\ p.state = 0 => FirstFired(p, Frame(c)) = c
<1> DEFINE r == Run(p, Frame(c))
<1>0. /\ Frame(c) \in Seq(Sent) /\ Len(Frame(c)) = 4
      /\ Frame(c)[1].b = "m" /\ Frame(c)[2].b = "c" /\ Frame(c)[3].b = c
      /\ Frame(c)[4].b = "CR"
  <2>1. Frame(c) \in Seq(Sent) /\ Len(Frame(c)) = 4
    BY FrameFacts
  <2>2. /\ Frame(c)[1] = [b |-> "m", of |-> c] /\ Frame(c)[2] = [b |-> "c", of |-> c]
        /\ Frame(c)[3] = [b |-> c, of |-> c]   /\ Frame(c)[4] = [b |-> "CR", of |-> c]
    BY FrameFacts
  <2> QED
    BY <2>1, <2>2
<1>1. /\ r \in [0..4 -> Parser] /\ r[0] = p
      /\ \A k \in 1..4 : r[k] = Parse(r[k - 1], Frame(c)[k].b)
  BY <1>0, RunWorks
<1>2. /\ r[1] = Parse(p, "m") /\ r[2] = Parse(r[1], "c") /\ r[3] = Parse(r[2], c)
      /\ r[2] \in Parser /\ r[3] \in Parser
  <2>1. \A k \in 1..4 : k - 1 \in 0..4
    OBVIOUS
  <2>2. r[1] = Parse(r[0], Frame(c)[1].b) /\ r[2] = Parse(r[1], Frame(c)[2].b)
        /\ r[3] = Parse(r[2], Frame(c)[3].b)
    BY <1>1
  <2>3. r[2] \in Parser /\ r[3] \in Parser
    BY <1>1
  <2> HIDE DEF r
  <2> QED
    BY <1>0, <1>1, <2>2, <2>3
<1>3. Firing(p, Frame(c)) \subseteq {4}
  <2> SUFFICES ASSUME NEW k \in Firing(p, Frame(c)) PROVE k = 4
    OBVIOUS
  <2>1. k \in 1..4 /\ Frame(c)[k].b \in Newlines
    BY <1>0 DEF Firing, Fires
  <2>2. "m" \notin Newlines /\ "c" \notin Newlines /\ c \notin Newlines
    BY ByteFacts
  <2> QED
    BY <1>0, <2>1, <2>2
<1>4. 4 \in Firing(p, Frame(c)) <=> r[3].state = 3
  <2>1. Len(Magic) = 2 /\ r[3].state \in 0..3 /\ "CR" \in Newlines
    BY <1>2 DEF Magic, Parser, Newlines
  <2> QED
    BY <1>0, <2>1 DEF Firing, Fires
<1>5. r[3].state = 3 => FirstFired(p, Frame(c)) = c
  <2> SUFFICES ASSUME r[3].state = 3 PROVE FirstFired(p, Frame(c)) = c
    OBVIOUS
  <2>1. Firing(p, Frame(c)) = {4}
    BY <1>3, <1>4
  <2>2. FirstOf({4}) = 4
    BY FirstOfWorks
  <2>3. r[3].cmd = c
    BY <1>2, ParseLetter
  <2> QED
    BY <2>1, <2>2, <2>3 DEF FirstFired
<1>6. r[3].state # 3 => FirstFired(p, Frame(c)) = None
  BY <1>3, <1>4 DEF FirstFired
<1>7. p.state = 0 => r[3].state = 3
  <2> SUFFICES ASSUME p.state = 0 PROVE r[3].state = 3
    OBVIOUS
  <2>1. Len(Magic) = 2 /\ Magic[1] = "m" /\ Magic[2] = "c"
    BY DEF Magic
  <2>2. Parse(p, "m").state = 1
    BY <2>1 DEF Parse, Parser
  <2>3. Parse(p, "m") \in Parser
    BY ParseType, ByteFacts
  <2>4. Parse(Parse(p, "m"), "c").state = 2
    BY <2>1, <2>2, <2>3 DEF Parse, Parser
  <2>5. r[2].state = 2
    BY <1>2, <2>4
  <2> QED
    BY <1>2, <2>1, <2>5 DEF Parse
<1> QED
  BY <1>5, <1>6, <1>7

\* Line appends two characters ...
LEMMA LineFacts ==
  ASSUME NEW s \in Seq(Chars)
  PROVE  /\ Line(s) \in Seq(Chars) /\ Len(Line(s)) = Len(s) + 2
         /\ \A k \in 1..Len(s) : Line(s)[k] = s[k]
         /\ Line(s)[Len(s) + 1] = "CR" /\ Line(s)[Len(s) + 2] = "LF"
<1>1. <<"CR", "LF">> \in Seq(Chars)
  BY DEF Chars, Bytes
<1> QED
  BY <1>1 DEF Line

\* ... to the sign of the output, or to a digit.
LEMMA BodyFacts ==
  ASSUME NEW b \in Bytes, NEW p \in BOOLEAN
  PROVE  /\ Body(b, p) \in Seq(Chars)
         /\ Body(b, p) # <<>> =>
              /\ Len(Body(b, p)) = 3
              /\ \A k \in 1..3 : Body(b, p)[k] # "*"
         /\ b \in Cmd => Body(b, p) # <<>>
<1>1. ASSUME NEW x \in {"+", "-", "7", "0"}
      PROVE  /\ Line(<<x>>) \in Seq(Chars) /\ Len(Line(<<x>>)) = 3
             /\ Line(<<x>>) # <<>> /\ \A k \in 1..3 : Line(<<x>>)[k] # "*"
  <2>1. <<x>> \in Seq(Chars)
    BY DEF Chars, Bytes
  <2> HIDE DEF Line
  <2>2. Line(<<x>>)[1] = x /\ Line(<<x>>)[2] = "CR" /\ Line(<<x>>)[3] = "LF"
        /\ Line(<<x>>) \in Seq(Chars) /\ Len(Line(<<x>>)) = 3
    <3>1. Len(<<x>>) = 1 /\ <<x>>[1] = x
      OBVIOUS
    <3> DEFINE s == <<x>>
    <3> HIDE DEF s
    <3>2. s \in Seq(Chars) /\ Len(s) = 1 /\ s[1] = x
      BY <2>1, <3>1 DEF s
    <3>3. /\ Line(s) \in Seq(Chars) /\ Len(Line(s)) = Len(s) + 2
          /\ \A k \in 1..Len(s) : Line(s)[k] = s[k]
          /\ Line(s)[Len(s) + 1] = "CR" /\ Line(s)[Len(s) + 2] = "LF"
      BY <3>2, LineFacts
    <3>4. Line(s) \in Seq(Chars) /\ Len(Line(s)) = 3 /\ Line(s)[1] = x
          /\ Line(s)[2] = "CR" /\ Line(s)[3] = "LF"
      BY <3>2, <3>3
    <3> QED
      BY <3>4 DEF s
  <2> QED
    BY <2>2
<1>2. Body(b, p) = <<>> \/ \E x \in {"+", "-", "7", "0"} : Body(b, p) = Line(<<x>>)
  BY DEF Body
<1>3. b \in Cmd => \E x \in {"+", "-", "7", "0"} : Body(b, p) = Line(<<x>>)
  BY DEF Body, Cmd
<1>4. ASSUME Body(b, p) # <<>>
      PROVE  /\ Body(b, p) \in Seq(Chars) /\ Len(Body(b, p)) = 3
             /\ \A k \in 1..3 : Body(b, p)[k] # "*"
  <2>1. PICK x \in {"+", "-", "7", "0"} : Body(b, p) = Line(<<x>>)
    BY <1>2, <1>4
  <2> HIDE DEF Line
  <2>2. /\ Line(<<x>>) \in Seq(Chars) /\ Len(Line(<<x>>)) = 3
        /\ \A k \in 1..3 : Line(<<x>>)[k] # "*"
    BY <1>1
  <2> QED
    BY <2>1, <2>2, Zenon
<1>5. b \in Cmd => Body(b, p) # <<>>
  BY <1>1, <1>3, Zenon
<1>6. <<>> \in Seq(Chars)
  OBVIOUS
<1> QED
  BY <1>4, <1>5, <1>6, Zenon

\* The echo is a "*" and what DEC makes of the letter: a command only of itself.
LEMMA EchoFacts ==
  ASSUME NEW b \in Bytes
  PROVE  /\ Line(<<"*">> \o Decimal(b)) \in Seq(Chars)
         /\ Line(<<"*">> \o Decimal(b))[1] = "*"
         /\ Len(Line(<<"*">> \o Decimal(b))) \in 4..6
         /\ Line(<<"*">> \o Decimal(b))[2] \in Cmd => Line(<<"*">> \o Decimal(b))[2] = b
         /\ \A k \in 2..Len(Line(<<"*">> \o Decimal(b))) :
              Line(<<"*">> \o Decimal(b))[k] # "*"
         /\ b \in Cmd => Len(Line(<<"*">> \o Decimal(b))) = 4
<1> DEFINE d == Decimal(b)
           s == <<"*">> \o d
<1>1. \/ d = <<b>> /\ b \notin {"m", "c", "CR", "LF"}
      \/ b \notin Cmd /\ d \in {<<"6", "1">>, <<"5", "1">>,
                                <<"-", "3", "5">>, <<"-", "3", "8">>}
  BY DEF Decimal, Cmd, Off, On, Ping
<1>2. /\ d \in Seq(Chars) /\ Len(d) \in 1..3 /\ \A k \in 1..Len(d) : d[k] # "*"
      /\ d[1] \in Cmd => d[1] = b
      /\ b \in Cmd => Len(d) = 1
  <2>1. CASE d = <<b>> /\ b \notin {"m", "c", "CR", "LF"}
    BY <2>1 DEF Chars, Bytes
  <2>2. CASE b \notin Cmd /\ d = <<"6", "1">>
    BY <2>2 DEF Chars, Bytes, Cmd, Off, On, Ping
  <2>3. CASE b \notin Cmd /\ d = <<"5", "1">>
    BY <2>3 DEF Chars, Bytes, Cmd, Off, On, Ping
  <2>4. CASE b \notin Cmd /\ d = <<"-", "3", "5">>
    BY <2>4 DEF Chars, Bytes, Cmd, Off, On, Ping
  <2>5. CASE b \notin Cmd /\ d = <<"-", "3", "8">>
    BY <2>5 DEF Chars, Bytes, Cmd, Off, On, Ping
  <2> QED
    BY <1>1, <2>1, <2>2, <2>3, <2>4, <2>5
<1> HIDE DEF d
<1>3. /\ s \in Seq(Chars) /\ Len(s) = Len(d) + 1 /\ s[1] = "*"
      /\ \A k \in 2..Len(s) : s[k] = d[k - 1]
  <2>1. <<"*">> \in Seq(Chars)
    BY DEF Chars
  <2> QED
    BY <1>2, <2>1
<1>4. /\ s[2] \in Cmd => s[2] = b
      /\ \A k \in 2..Len(s) : s[k] # "*"
  BY <1>2, <1>3
<1> HIDE DEF s
<1>5. /\ Line(s) \in Seq(Chars) /\ Len(Line(s)) = Len(s) + 2
      /\ \A k \in 1..Len(s) : Line(s)[k] = s[k]
      /\ Line(s)[Len(s) + 1] = "CR" /\ Line(s)[Len(s) + 2] = "LF"
  BY <1>3, LineFacts
<1>6. \A k \in 2..Len(Line(s)) : Line(s)[k] # "*"
  <2> SUFFICES ASSUME NEW k \in 2..Len(Line(s)) PROVE Line(s)[k] # "*"
    OBVIOUS
  <2>1. k \in 2..Len(s) \/ k = Len(s) + 1 \/ k = Len(s) + 2
    BY <1>2, <1>3, <1>5
  <2> QED
    BY <1>4, <1>5, <2>1
<1>7. Line(s)[1] = "*" /\ Line(s)[2] = s[2] /\ Len(Line(s)) = Len(d) + 3
  BY <1>2, <1>3, <1>5
<1> QED
  <2>1. Len(Line(s)) \in 4..6 /\ (b \in Cmd => Len(Line(s)) = 4)
        /\ (Line(s)[2] \in Cmd => Line(s)[2] = b)
    BY <1>2, <1>4, <1>7
  <2> QED
    BY <1>5, <1>6, <1>7, <2>1, Zenon DEF s, d

\* Every answer begins with a "*", and has no other; what follows it is a command
\* only if that was the command.
LEMMA AnswerFacts ==
  ASSUME NEW b \in Bytes, NEW p \in BOOLEAN
  PROVE  /\ Answer(b, p) \in Seq(Chars) /\ Answer(b, p) # <<>>
         /\ Answer(b, p)[1] = "*"
         /\ EchoesOf(Answer(b, p), {b} \cap Cmd)
         /\ b \in Cmd => Len(Answer(b, p)) = AnswerSize
<1> DEFINE e == Line(<<"*">> \o Decimal(b))
           d == Body(b, p)
           a == e \o d
<1>1. /\ e \in Seq(Chars) /\ e[1] = "*" /\ Len(e) \in 4..6 /\ (e[2] \in Cmd => e[2] = b)
      /\ \A k \in 2..Len(e) : e[k] # "*"
      /\ b \in Cmd => Len(e) = 4
  BY EchoFacts
<1>2. /\ d \in Seq(Chars) /\ \A k \in 1..Len(d) : d[k] # "*"
      /\ b \in Cmd => Len(d) = 3
  BY BodyFacts
<1>3. a = Answer(b, p)
  BY DEF Answer
<1> HIDE DEF e, d
<1>4. /\ a \in Seq(Chars) /\ Len(a) = Len(e) + Len(d) /\ a[1] = "*" /\ a[2] = e[2]
      /\ \A k \in 2..Len(a) : a[k] # "*"
  BY <1>1, <1>2
<1> HIDE DEF a
<1>5. \A k \in 1..(Len(a) - 1) : a[k] = "*" => k = 1
  BY <1>4
<1>6. EchoesOf(a, {b} \cap Cmd)
  BY <1>1, <1>4, <1>5 DEF EchoesOf
<1>7. a # <<>> /\ (b \in Cmd => Len(a) = AnswerSize)
  <2>1. Len(a) # 0
    BY <1>1, <1>2, <1>4
  <2>2. ASSUME b \in Cmd PROVE Len(a) = 7
    <3>1. Len(e) = 4 /\ Len(d) = 3
      BY <1>1, <1>2, <2>2
    <3>2. Len(a) = Len(e) + Len(d)
      BY <1>4
    <3> QED
      BY <3>1, <3>2
  <2> QED
    BY <2>1, <2>2 DEF AnswerSize
<1> QED
  BY <1>3, <1>4, <1>6, <1>7

-----------------------------------------------------------------------------
(* Types *)

\* Bytes and characters join what is already there.
LEMMA JoinFacts ==
  ASSUME NEW S, NEW s \in Seq(S), NEW t \in Seq(S)
  PROVE  /\ s \o t \in Seq(S) /\ Len(s \o t) = Len(s) + Len(t)
         /\ \A k \in 1..Len(s) : (s \o t)[k] = s[k]
         /\ \A k \in 1..Len(t) : (s \o t)[Len(s) + k] = t[k]
OBVIOUS

\* ... and so do the four of a frame.
LEMMA FrameJoins ==
  ASSUME NEW line \in Seq(Sent), NEW f \in Seq(Sent)
  PROVE  Len(f) = 4 =>
           /\ line \o f \in Seq(Sent) /\ Len(line \o f) = Len(line) + 4
           /\ \A k \in 1..Len(line) : (line \o f)[k] = line[k]
           /\ \A k \in 1..4 : (line \o f)[Len(line) + k] = f[k]
<1>1. /\ line \o f \in Seq(Sent) /\ Len(line \o f) = Len(line) + Len(f)
      /\ \A k \in 1..Len(line) : (line \o f)[k] = line[k]
      /\ \A k \in 1..Len(f) : (line \o f)[Len(line) + k] = f[k]
  BY JoinFacts
<1> QED
  BY <1>1

\* What is typed or sent is made of tagged bytes.
LEMMA TypedFacts ==
  ASSUME NEW b \in Bytes
  PROVE  Tagged(<<b>>, Foreign) = <<[b |-> b, of |-> Foreign]>>
         /\ [b |-> b, of |-> Foreign] \in Sent
BY DEF Tagged, Sent

\* The head of the line, and what reading it makes of the parser.
LEMMA ReadFacts ==
  ASSUME LinkTypeOK, toDev # <<>>
  PROVE  /\ Head(toDev) = toDev[1] /\ Head(toDev) \in Sent /\ Head(toDev).b \in Bytes
         /\ Tail(toDev) \in Seq(Sent) /\ Len(Tail(toDev)) = Len(toDev) - 1
         /\ \A k \in 1..Len(Tail(toDev)) : Tail(toDev)[k] = toDev[k + 1]
         /\ Parse(fw, Head(toDev).b) \in Parser
<1>1. /\ Head(toDev) = toDev[1] /\ Head(toDev) \in Sent
      /\ Tail(toDev) \in Seq(Sent) /\ Len(Tail(toDev)) = Len(toDev) - 1
      /\ \A k \in 1..Len(Tail(toDev)) : Tail(toDev)[k] = toDev[k + 1]
  BY DEF LinkTypeOK
<1>2. Head(toDev).b \in Bytes
  BY <1>1 DEF Sent
<1> QED
  BY <1>1, <1>2, ParseType DEF LinkTypeOK

\* No characters and no bytes yet, and the types of the rest.
LEMMA LinkTypeInit == LinkInit => LinkTypeOK
<1> SUFFICES ASSUME LinkInit PROVE LinkTypeOK
  OBVIOUS
<1>1. <<>> \in Seq(Sent) /\ <<>> \in Seq(Chars) /\ <<>> \in Seq(Cmd) /\ Len(<<>>) = 0
  OBVIOUS
<1>2. Reset \in Parser
  BY ByteFacts DEF Reset, Parser
<1>3. Settled => Len(toDev) <= MaxBacklog + 3
  BY <1>1, BoundsAssumption DEF LinkInit
<1>4. retry \in 0..Retries /\ boots \in 0..MaxBoots
  BY RetriesAssumption, BoundsAssumption DEF LinkInit
<1>5. /\ fw \in Parser /\ toDev \in Seq(Sent) /\ toHost \in Seq(Chars)
      /\ script \in Seq(Cmd) /\ resp \in Seq(Chars) /\ Len(resp) < AnswerSize
  BY <1>1, <1>2 DEF LinkInit, AnswerSize
<1>6. /\ gpuPower \in BOOLEAN /\ live \in BOOLEAN /\ restarted \in BOOLEAN
      /\ phase \in {"closed", "ready", "writing", "reading"}
      /\ sent \in Cmd \cup {None} /\ outcome \in {None, "ok", "fail"}
      /\ executed \subseteq Cmd
  BY DEF LinkInit
<1> QED
  BY <1>3, <1>4, <1>5, <1>6 DEF LinkTypeOK

\* A line that was cut is a line, not longer.
LEMMA CutFacts ==
  ASSUME LinkTypeOK, CutLine
  PROVE  /\ toDev' \in Seq(Sent)
         /\ \E n \in 0..Len(toDev) :
              toDev' = SubSeq(toDev, 1, n) /\ Len(toDev') = n
              /\ \A k \in 1..n : toDev'[k] = toDev[k]
<1>1. PICK n \in 0..Len(toDev) : toDev' = SubSeq(toDev, 1, n)
  BY DEF CutLine
<1>2. /\ SubSeq(toDev, 1, n) \in Seq(Sent) /\ Len(SubSeq(toDev, 1, n)) = n
      /\ \A k \in 1..n : SubSeq(toDev, 1, n)[k] = toDev[k]
  BY DEF LinkTypeOK
<1> QED
  BY <1>1, <1>2

\* What is left of the characters after some were read, or missed.
LEMMA RestFacts ==
  ASSUME NEW s \in Seq(Chars), NEW n \in 0..Len(s)
  PROVE  /\ SubSeq(s, n + 1, Len(s)) \in Seq(Chars)
         /\ Len(SubSeq(s, n + 1, Len(s))) = Len(s) - n
         /\ \A k \in 1..(Len(s) - n) : SubSeq(s, n + 1, Len(s))[k] = s[n + k]
         /\ SubSeq(s, 1, n) \in Seq(Chars) /\ Len(SubSeq(s, 1, n)) = n
         /\ \A k \in 1..n : SubSeq(s, 1, n)[k] = s[k]
OBVIOUS

\* Every step keeps the types.  One frame joins what is on its way because over a
\* settled line a call finds it empty.
LEMMA LinkTypeStep == LinkTypeOK /\ LinkInv /\ [LinkNext]_linkVars => LinkTypeOK'
<1> SUFFICES ASSUME LinkTypeOK, LinkInv, [LinkNext]_linkVars PROVE LinkTypeOK'
  OBVIOUS
<1>1. CASE FwRead
  <2>1. /\ toDev # <<>> /\ fw' = Parse(fw, Head(toDev).b) /\ toDev' = Tail(toDev)
        /\ UNCHANGED <<live, phase, script, resp, retry, sent, outcome, restarted, boots>>
    BY <1>1 DEF FwRead, host
  <2>2. fw' \in Parser /\ toDev' \in Seq(Sent) /\ Len(toDev') = Len(toDev) - 1
    BY <2>1, ReadFacts
  <2>3. gpuPower' \in BOOLEAN /\ toHost' \in Seq(Chars) /\ executed' \subseteq Cmd
    <3>1. CASE Fires(fw, Head(toDev).b)
      <4>1. /\ gpuPower' = Effect(fw.cmd, gpuPower)
            /\ toHost' = toHost \o Answer(fw.cmd, gpuPower)
            /\ executed' = executed \cup ({fw.cmd} \cap Cmd)
        BY <1>1, <3>1 DEF FwRead
      <4>2. Answer(fw.cmd, gpuPower) \in Seq(Chars)
        BY AnswerFacts DEF LinkTypeOK, Parser
      <4>3. gpuPower' \in BOOLEAN
        BY <4>1 DEF LinkTypeOK, Effect
      <4>4. toHost' \in Seq(Chars)
        BY <4>1, <4>2 DEF LinkTypeOK
      <4>5. executed' \subseteq Cmd
        BY <4>1 DEF LinkTypeOK
      <4> QED
        BY <4>3, <4>4, <4>5
    <3>2. CASE ~Fires(fw, Head(toDev).b)
      BY <1>1, <3>2 DEF FwRead, LinkTypeOK
    <3> QED
      BY <3>1, <3>2
  <2>4. Settled => Len(toDev') <= MaxBacklog + 3
    BY <2>2, BoundsAssumption DEF LinkTypeOK
  <2> QED
    BY <2>1, <2>2, <2>3, <2>4 DEF LinkTypeOK
<1>2. CASE Restart
  <2>1. Reset \in Parser
    BY ByteFacts DEF Reset, Parser
  <2>2. <<>> \in Seq(Sent) /\ <<>> \in Seq(Chars) /\ Len(<<>>) = 0
    OBVIOUS
  <2>3. boots' \in 0..MaxBoots
    BY <1>2, BoundsAssumption DEF Restart, LinkTypeOK
  <2>4. Settled => Len(toDev') <= MaxBacklog + 3
    BY <1>2, <2>2, BoundsAssumption DEF Restart
  <2> QED
    BY <1>2, <2>1, <2>2, <2>3, <2>4 DEF Restart, host, LinkTypeOK
<1>3. CASE TypeByte
  <2>1. PICK b \in ForeignBytes : toDev' = toDev \o Tagged(<<b>>, Foreign)
    BY <1>3 DEF TypeByte
  <2>2. toDev' \in Seq(Sent) /\ Len(toDev') = Len(toDev) + 1
    <3>1. b \in Bytes
      BY ForeignBytesAssumption
    <3>2. PICK x \in Sent : Tagged(<<b>>, Foreign) = <<x>>
      BY <3>1, TypedFacts
    <3>3. toDev \in Seq(Sent) /\ toDev' = toDev \o <<x>>
      BY <2>1, <3>2 DEF LinkTypeOK
    <3> QED
      BY <3>3
  <2>3. Len(toDev') <= MaxBacklog + 3
    BY <1>3, <2>2, BoundsAssumption DEF TypeByte, LinkTypeOK
  <2> QED
    BY <1>3, <2>2, <2>3 DEF TypeByte, board, host, LinkTypeOK
<1>4. CASE Start
  <2>1. toHost' \in Seq(Chars)
    <3>1. CASE Settled
      BY <1>4, <3>1 DEF Start, Flush
    <3>2. CASE ~Settled
      <4>1. PICK n \in 0..Len(toHost) : toHost' = SubSeq(toHost, n + 1, Len(toHost))
        BY <1>4, <3>2 DEF Start, Flush
      <4> QED
        BY <4>1, RestFacts DEF LinkTypeOK
    <3> QED
      BY <3>1, <3>2
  <2>2. script' \in Seq(Cmd)
    BY <1>4, ScriptsAssumption DEF Start
  <2> QED
    BY <1>4, <2>1, <2>2 DEF Start, board, LinkTypeOK
<1>5. CASE SendCommand
  <2>1. Head(script) \in Cmd
    BY <1>5 DEF SendCommand, LinkTypeOK
  <2>2. toDev' \in Seq(Sent) /\ Len(toDev') <= Len(toDev) + 4
    <3> DEFINE f == Frame(Head(script))
    <3>1. f \in Seq(Sent) /\ Len(f) = 4
      BY <2>1, FrameFacts
    <3>2. toDev \in Seq(Sent) /\ toDev' = (IF live THEN toDev \o f ELSE toDev)
      BY <1>5 DEF SendCommand, LinkTypeOK
    <3> HIDE DEF f
    <3>3. CASE live
      <4>1. toDev \o f \in Seq(Sent) /\ Len(toDev \o f) = Len(toDev) + Len(f)
        BY <3>1, <3>2, JoinFacts, Zenon
      <4> QED
        BY <3>1, <3>2, <3>3, <4>1
    <3>4. CASE ~live
      BY <3>2, <3>4
    <3> QED
      BY <3>3, <3>4
  <2>3. Settled => toDev = <<>>
    BY <1>5 DEF SendCommand, LinkInv, SettledInv
  <2>4. Settled => Len(toDev') <= MaxBacklog + 3
    BY <2>2, <2>3, BoundsAssumption
  <2> QED
    BY <1>5, <2>1, <2>2, <2>4 DEF SendCommand, board, LinkTypeOK
<1>6. CASE Written
  <2>1. Retries \in 0..Retries
    BY RetriesAssumption
  <2> QED
    BY <1>6, <2>1 DEF Written, board, LinkTypeOK
<1>7. ASSUME NEW ok \in BOOLEAN, Return(ok), script # <<>>
      PROVE  /\ phase' = "ready" /\ outcome' \in {"ok", "fail"} /\ script' \in Seq(Cmd)
             /\ resp' \in Seq(Chars) /\ Len(resp') < AnswerSize /\ retry' \in 0..Retries
  BY <1>7, RetriesAssumption DEF Return, LinkTypeOK, AnswerSize
<1>8. phase \in {"writing", "reading"} => script # <<>>
  BY DEF LinkInv, CallInv, Busy
<1>9. CASE WriteTimeout
  BY <1>7, <1>8, <1>9 DEF WriteTimeout, board, LinkTypeOK
<1>10. CASE ReadSome
  <2>1. PICK n \in 1..Len(toHost) :
          LET got == resp \o SubSeq(toHost, 1, n) IN
          /\ toHost' = SubSeq(toHost, n + 1, Len(toHost))
          /\ IF retry = 0 THEN Return(FALSE)
             ELSE IF Complete(got) THEN Return(GoodHeader(got, sent))
             ELSE /\ resp' = got
                  /\ retry' = retry - 1
                  /\ UNCHANGED <<phase, script, outcome>>
    BY <1>10 DEF ReadSome
  <2> DEFINE got == resp \o SubSeq(toHost, 1, n)
  <2>2. n \in 0..Len(toHost) /\ toHost \in Seq(Chars)
    BY DEF LinkTypeOK
  <2>3. toHost' \in Seq(Chars) /\ got \in Seq(Chars)
    BY <2>1, <2>2, RestFacts DEF LinkTypeOK
  <2>4. /\ phase' \in {"closed", "ready", "writing", "reading"}
        /\ outcome' \in {None, "ok", "fail"} /\ script' \in Seq(Cmd)
        /\ resp' \in Seq(Chars) /\ Len(resp') < AnswerSize /\ retry' \in 0..Retries
    <3>1. CASE Return(FALSE)
      BY <1>7, <1>8, <1>10, <3>1 DEF ReadSome
    <3>2. CASE Return(GoodHeader(got, sent))
      <4>1. GoodHeader(got, sent) \in BOOLEAN
        BY DEF GoodHeader
      <4> QED
        BY <1>7, <1>8, <1>10, <3>2, <4>1 DEF ReadSome
    <3>3. CASE /\ retry # 0 /\ ~Complete(got) /\ resp' = got /\ retry' = retry - 1
               /\ UNCHANGED <<phase, script, outcome>>
      <4>1. Len(got) < AnswerSize
        BY <2>3, <3>3 DEF Complete, AnswerSize
      <4>2. retry' \in 0..Retries
        BY <3>3, RetriesAssumption DEF LinkTypeOK
      <4> QED
        BY <2>3, <3>3, <4>1, <4>2 DEF LinkTypeOK
    <3> QED
      BY <2>1, <3>1, <3>2, <3>3
  <2> QED
    BY <1>10, <2>3, <2>4 DEF ReadSome, board, LinkTypeOK
<1>11. CASE ReadTimeout
  <2>1. CASE retry = 0
    BY <1>7, <1>8, <1>11, <2>1 DEF ReadTimeout, board, LinkTypeOK
  <2>2. CASE retry # 0
    <3>1. retry' \in 0..Retries
      BY <1>11, <2>2, RetriesAssumption DEF ReadTimeout, LinkTypeOK
    <3> QED
      BY <1>11, <2>2, <3>1 DEF ReadTimeout, board, LinkTypeOK
  <2> QED
    BY <2>1, <2>2
<1>12. ASSUME CutLine
       PROVE  toDev' \in Seq(Sent) /\ (Settled => Len(toDev') <= MaxBacklog + 3)
  BY <1>12, CutFacts, BoundsAssumption DEF LinkTypeOK
<1>13. CASE Close
  BY <1>12, <1>13 DEF Close, board, LinkTypeOK
<1>14. CASE Kill
  <2>1. <<>> \in Seq(Chars) /\ <<>> \in Seq(Cmd) /\ Len(<<>>) < AnswerSize /\ 0 \in 0..Retries
    BY RetriesAssumption DEF AnswerSize
  <2> QED
    BY <1>12, <1>14, <2>1 DEF Kill, board, LinkTypeOK
<1>15. CASE UNCHANGED linkVars
  BY <1>15 DEF linkVars, LinkTypeOK
<1> QED
  BY <1>1, <1>2, <1>3, <1>4, <1>5, <1>6, <1>9, <1>10, <1>11, <1>13, <1>14, <1>15
     DEF LinkNext, Host

-----------------------------------------------------------------------------
(* Frames stay whole *)

\* The steps of the call that touch neither the line to the board nor the parser.
LEMMA QuietSteps ==
  Start \/ Written \/ WriteTimeout \/ ReadSome \/ ReadTimeout \/ UNCHANGED linkVars
    => fw' = fw /\ toDev' = toDev
BY DEF Start, Written, WriteTimeout, ReadSome, ReadTimeout, linkVars, board

\* Every newline of a frame keeps the letter of the frame in front of it.
LEMMA FrameStep == LinkTypeOK /\ FrameInv /\ [LinkNext]_linkVars => FrameInv'
<1> SUFFICES ASSUME LinkTypeOK, FrameInv, [LinkNext]_linkVars PROVE FrameInv'
  OBVIOUS
<1>0. /\ toDev \in Seq(Sent) /\ Len(toDev) \in Nat
      /\ \A k \in 1..Len(toDev) : toDev[k] \in Sent
  BY DEF LinkTypeOK
<1>1. CASE FwRead
  <2>1. toDev # <<>> /\ fw' = Parse(fw, Head(toDev).b) /\ toDev' = Tail(toDev)
    BY <1>1 DEF FwRead
  <2>2. /\ Len(toDev') = Len(toDev) - 1 /\ Head(toDev) = toDev[1]
        /\ \A k \in 1..Len(toDev') : toDev'[k] = toDev[k + 1]
    BY <2>1, ReadFacts
  <2> SUFFICES ASSUME NEW k \in 1..Len(toDev'),
                      toDev'[k].b \in Newlines, toDev'[k].of # Foreign
               PROVE  IF k = 1 THEN fw'.state # 2 /\ (fw'.state = 3 => fw'.cmd = toDev'[k].of)
                      ELSE toDev'[k - 1] = [b |-> toDev'[k].of, of |-> toDev'[k].of]
    BY DEF FrameInv
  <2> DEFINE c == toDev'[k].of
  <2>3. k + 1 \in 1..Len(toDev) /\ k + 1 # 1 /\ k + 1 - 1 = k /\ toDev'[k] = toDev[k + 1]
    BY <1>0, <2>2
  <2>4. toDev[k] = [b |-> c, of |-> c]
    BY <2>3 DEF FrameInv
  <2>5. c \in Cmd
    BY <1>0, <2>3 DEF Sent
  <2> HIDE DEF c
  <2>6. CASE k = 1
    <3>1. fw' = Parse(fw, c)
      BY <2>1, <2>2, <2>4, <2>6
    <3> QED
      BY <2>5, <2>6, <3>1, ParseLetter DEF LinkTypeOK, c
  <2>7. CASE k # 1
    <3>1. k - 1 \in 1..Len(toDev') /\ k - 1 + 1 = k
      BY <1>0, <2>2, <2>7
    <3> QED
      BY <2>2, <2>4, <2>7, <3>1 DEF c
  <2> QED
    BY <2>6, <2>7
<1>2. CASE Restart
  <2>1. Len(toDev') = 0
    BY <1>2 DEF Restart
  <2> QED
    BY <2>1 DEF FrameInv
<1>3. CASE TypeByte
  <2>1. PICK b \in ForeignBytes : toDev' = toDev \o Tagged(<<b>>, Foreign)
    BY <1>3 DEF TypeByte
  <2>2. Tagged(<<b>>, Foreign) = <<[b |-> b, of |-> Foreign]>>
    BY ForeignBytesAssumption, TypedFacts
  <2>3. /\ Len(toDev') = Len(toDev) + 1 /\ toDev'[Len(toDev) + 1].of = Foreign
        /\ \A k \in 1..Len(toDev) : toDev'[k] = toDev[k]
    <3> DEFINE x == [b |-> b, of |-> Foreign]
    <3>1. x \in Sent /\ x.of = Foreign /\ toDev' = toDev \o <<x>>
      BY <2>1, <2>2, ForeignBytesAssumption, TypedFacts
    <3> HIDE DEF x
    <3>2. <<x>> \in Seq(Sent) /\ Len(<<x>>) = 1 /\ <<x>>[1] = x
      BY <3>1
    <3>3. /\ Len(toDev \o <<x>>) = Len(toDev) + 1 /\ (toDev \o <<x>>)[Len(toDev) + 1] = x
          /\ \A k \in 1..Len(toDev) : (toDev \o <<x>>)[k] = toDev[k]
      BY <1>0, <3>2, JoinFacts
    <3> QED
      BY <3>1, <3>3
  <2>4. fw' = fw
    BY <1>3 DEF TypeByte, board
  <2>5. \A k \in 1..Len(toDev') :
          toDev'[k].of # Foreign =>
            k \in 1..Len(toDev) /\ (k # 1 => k - 1 \in 1..Len(toDev))
    BY <1>0, <2>3
  <2> QED
    BY <2>3, <2>4, <2>5 DEF FrameInv
<1>4. CASE SendCommand
  <2>1. fw' = fw /\ Head(script) \in Cmd
    BY <1>4 DEF SendCommand, board, LinkTypeOK
  <2>2. CASE ~live
    BY <1>4, <2>1, <2>2 DEF SendCommand, FrameInv
  <2>3. CASE live
    <3> DEFINE c == Head(script)
               n == Len(toDev)
    <3>1. toDev' = toDev \o Frame(c)
      BY <1>4, <2>3 DEF SendCommand
    <3>2. /\ Frame(c) \in Seq(Sent) /\ Len(Frame(c)) = 4
          /\ Frame(c)[1] = [b |-> "m", of |-> c] /\ Frame(c)[2] = [b |-> "c", of |-> c]
          /\ Frame(c)[3] = [b |-> c, of |-> c]   /\ Frame(c)[4] = [b |-> "CR", of |-> c]
      BY <2>1, FrameFacts
    <3> DEFINE f == Frame(c)
    <3> HIDE DEF f, c
    <3>3. /\ Len(toDev') = n + 4 /\ \A k \in 1..n : toDev'[k] = toDev[k]
          /\ toDev'[n + 1] = f[1] /\ toDev'[n + 2] = f[2]
          /\ toDev'[n + 3] = f[3] /\ toDev'[n + 4] = f[4]
      <4>1. f \in Seq(Sent) /\ Len(f) = 4 /\ toDev' = toDev \o f
        BY <3>1, <3>2 DEF f
      <4>2. /\ Len(toDev \o f) = n + 4 /\ \A k \in 1..n : (toDev \o f)[k] = toDev[k]
            /\ \A k \in 1..4 : (toDev \o f)[n + k] = f[k]
        BY <1>0, <4>1, FrameJoins
      <4> QED
        BY <4>1, <4>2
    <3>4. /\ toDev'[n + 1].b \notin Newlines /\ toDev'[n + 2].b \notin Newlines
          /\ toDev'[n + 3].b \notin Newlines
          /\ toDev'[n + 3] = [b |-> c, of |-> c] /\ toDev'[n + 4].of = c
      BY <2>1, <3>2, <3>3, ByteFacts DEF f, c
    <3> SUFFICES ASSUME NEW k \in 1..Len(toDev'),
                        toDev'[k].b \in Newlines, toDev'[k].of # Foreign
                 PROVE  IF k = 1 THEN fw'.state # 2 /\ (fw'.state = 3 => fw'.cmd = toDev'[k].of)
                        ELSE toDev'[k - 1] = [b |-> toDev'[k].of, of |-> toDev'[k].of]
      BY DEF FrameInv
    <3>5. CASE k \in 1..n
      <4>1. k # 1 => k - 1 \in 1..n
        BY <1>0, <3>5
      <4> QED
        BY <2>1, <3>3, <3>5, <4>1 DEF FrameInv
    <3>6. CASE k = n + 4
      <4>1. k # 1 /\ k - 1 = n + 3
        BY <1>0, <3>6
      <4> QED
        BY <3>4, <3>6, <4>1
    <3> QED
      <4>1. k \in 1..n \/ k = n + 1 \/ k = n + 2 \/ k = n + 3 \/ k = n + 4
        BY <1>0, <3>3
      <4> QED
        BY <3>4, <3>5, <3>6, <4>1
  <2> QED
    BY <2>2, <2>3
<1>5. CASE Close \/ Kill
  <2>1. fw' = fw /\ CutLine
    BY <1>5 DEF Close, Kill, board
  <2>2. PICK n \in 0..Len(toDev) : Len(toDev') = n /\ \A k \in 1..n : toDev'[k] = toDev[k]
    BY <2>1, CutFacts
  <2>3. \A k \in 1..n : k \in 1..Len(toDev) /\ (k # 1 => k - 1 \in 1..n)
    BY <1>0
  <2> QED
    BY <2>1, <2>2, <2>3 DEF FrameInv
<1>6. CASE fw' = fw /\ toDev' = toDev
  BY <1>6 DEF FrameInv
<1> QED
  BY <1>1, <1>2, <1>3, <1>4, <1>5, <1>6, QuietSteps DEF LinkNext, Host

-----------------------------------------------------------------------------
(* Echoes are of executed commands *)

\* What is read and what is left are the characters there were.
LEMMA ReadJoins ==
  ASSUME NEW r \in Seq(Chars), NEW h \in Seq(Chars), NEW n \in 0..Len(h)
  PROVE  /\ r \o SubSeq(h, 1, n) \in Seq(Chars) /\ SubSeq(h, n + 1, Len(h)) \in Seq(Chars)
         /\ Len(r \o SubSeq(h, 1, n)) = Len(r) + n
         /\ (r \o SubSeq(h, 1, n)) \o SubSeq(h, n + 1, Len(h)) = r \o h
<1> DEFINE a == SubSeq(h, 1, n)
           d == SubSeq(h, n + 1, Len(h))
<1>1. a \in Seq(Chars) /\ d \in Seq(Chars) /\ Len(a) = n
  BY RestFacts
<1>2. a \o d = h
  <2>1. 1 \in 1..(Len(h) + 1) /\ n \in (1 - 1)..Len(h) /\ Len(h) \in n..Len(h)
    OBVIOUS
  <2>2. a \o d = SubSeq(h, 1, Len(h))
    BY <2>1, ConcatAdjacentSubSeq, Zenon
  <2> QED
    BY <2>2, SubSeqFull
<1> HIDE DEF a, d
<1>3. (r \o a) \o d = r \o (a \o d)
  BY <1>1, ConcatAssociative
<1>4. r \o a \in Seq(Chars) /\ Len(r \o a) = Len(r) + Len(a)
  <2>1. a \in Seq(Chars)
    BY <1>1
  <2> QED
    BY <2>1, JoinFacts, Zenon
<1> QED
  BY <1>1, <1>2, <1>3, <1>4 DEF a, d

\* An answer behind what can be read, and the executed commands with its own.
LEMMA EchoJoins ==
  ASSUME NEW r \in Seq(Chars), NEW h \in Seq(Chars), NEW a \in Seq(Chars),
         NEW done, NEW more, EchoesOf(r \o h, done), a # <<>>, a[1] = "*", EchoesOf(a, more)
  PROVE  EchoesOf(r \o (h \o a), done \cup more)
<1> DEFINE s == r \o h
           t == r \o (h \o a)
<1>1. /\ s \in Seq(Chars) /\ t \in Seq(Chars) /\ Len(t) = Len(s) + Len(a)
      /\ Len(s) \in Nat /\ Len(a) \in Nat \ {0}
  OBVIOUS
<1>2. ASSUME NEW k \in 1..Len(s) PROVE t[k] = s[k]
  <2>1. CASE k \in 1..Len(r)
    BY <2>1
  <2>2. CASE k \notin 1..Len(r)
    <3>1. k - Len(r) \in 1..Len(h) /\ k - Len(r) \in 1..Len(h \o a)
      BY <2>2
    <3> QED
      BY <2>2, <3>1
  <2> QED
    BY <2>1, <2>2
<1>3. ASSUME NEW k \in 1..Len(a) PROVE t[Len(s) + k] = a[k]
  <2>1. Len(s) = Len(r) + Len(h)
    OBVIOUS
  <2>2. Len(h) + k \in 1..Len(h \o a) /\ (h \o a)[Len(h) + k] = a[k]
    OBVIOUS
  <2>3. (r \o (h \o a))[Len(r) + (Len(h) + k)] = (h \o a)[Len(h) + k]
    BY <2>2
  <2> QED
    BY <2>1, <2>2, <2>3
<1> HIDE DEF s, t
<1>4. EchoesOf(s, done)
  BY DEF s
<1>5. "*" \notin Cmd
  BY DEF Cmd, Off, On, Ping
<1> SUFFICES ASSUME NEW k \in 1..(Len(t) - 1), t[k] = "*", t[k + 1] \in Cmd
             PROVE  t[k + 1] \in done \cup more
  BY DEF EchoesOf, t
<1>6. CASE k < Len(s)
  <2>1. k \in 1..(Len(s) - 1) /\ k \in 1..Len(s) /\ k + 1 \in 1..Len(s)
    BY <1>1, <1>6
  <2> QED
    BY <1>2, <1>4, <2>1 DEF EchoesOf
<1>7. CASE k = Len(s)
  <2>1. t[Len(s) + 1] = "*"
    BY <1>1, <1>3
  <2> QED
    BY <1>5, <1>7, <2>1
<1>8. CASE k > Len(s)
  <2> DEFINE j == k - Len(s)
  <2>1. j \in 1..(Len(a) - 1) /\ j \in 1..Len(a) /\ j + 1 \in 1..Len(a)
        /\ k = Len(s) + j /\ k + 1 = Len(s) + (j + 1)
    BY <1>1, <1>8
  <2> HIDE DEF j
  <2>2. t[k] = a[j] /\ t[k + 1] = a[j + 1]
    BY <1>3, <2>1
  <2> QED
    BY <2>1, <2>2 DEF EchoesOf
<1> QED
  BY <1>1, <1>6, <1>7, <1>8

\* What is missed or dropped from the front takes no echo out of order.
LEMMA EchoRest ==
  ASSUME NEW r \in Seq(Chars), NEW h \in Seq(Chars), NEW n \in 0..Len(h), NEW done,
         EchoesOf(r \o h, done)
  PROVE  EchoesOf(<<>> \o SubSeq(h, n + 1, Len(h)), done)
<1> DEFINE d == SubSeq(h, n + 1, Len(h))
           s == r \o h
<1>1. d \in Seq(Chars) /\ Len(d) = Len(h) - n /\ \A k \in 1..(Len(h) - n) : d[k] = h[n + k]
  BY RestFacts
<1>2. /\ Len(s) = Len(r) + Len(h) /\ Len(r) \in Nat /\ Len(h) \in Nat
      /\ \A k \in 1..Len(h) : s[Len(r) + k] = h[k]
  OBVIOUS
<1>3. <<>> \o d = d
  BY <1>1
<1> HIDE DEF d, s
<1>4. EchoesOf(s, done)
  BY DEF s
<1>5. EchoesOf(d, done)
  <2> SUFFICES ASSUME NEW k \in 1..(Len(d) - 1), d[k] = "*", d[k + 1] \in Cmd
               PROVE  d[k + 1] \in done
    BY DEF EchoesOf
  <2> DEFINE j == Len(r) + (n + k)
  <2>1. /\ n + k \in 1..Len(h) /\ n + (k + 1) \in 1..Len(h)
        /\ k \in 1..(Len(h) - n) /\ k + 1 \in 1..(Len(h) - n)
        /\ j \in 1..(Len(s) - 1) /\ j + 1 = Len(r) + (n + (k + 1))
    BY <1>1, <1>2
  <2>2. s[j] = d[k] /\ s[j + 1] = d[k + 1]
    BY <1>1, <1>2, <2>1
  <2> HIDE DEF j
  <2> QED
    BY <1>4, <2>1, <2>2 DEF EchoesOf
<1> QED
  BY <1>3, <1>5 DEF d

\* Nothing is asked and nothing was answered.
LEMMA LinkInvInit == LinkInit => LinkInv
<1> SUFFICES ASSUME LinkInit PROVE LinkInv
  OBVIOUS
<1>1. Len(toDev) = 0 /\ resp \o toHost = <<>> /\ Len(<<>>) = 0
  BY DEF LinkInit
<1>2. FrameInv
  BY <1>1 DEF FrameInv
<1>3. EchoesOf(resp \o toHost, executed)
  BY <1>1 DEF EchoesOf
<1>4. CallInv
  BY <1>3 DEF LinkInit, CallInv, Busy, AckedWasExecuted, None
<1>5. SettledInv
  BY DEF LinkInit, SettledInv, Busy
<1> QED
  BY <1>2, <1>4, <1>5 DEF LinkInv

\* A call that ends keeps what CallInv says, if it was acknowledged rightly.
LEMMA ReturnKeeps ==
  ASSUME LinkTypeOK, NEW ok, Return(ok), ok => sent \in executed,
         NEW n \in 0..Len(toHost), toHost' = SubSeq(toHost, n + 1, Len(toHost)),
         CallInv, sent' = sent, executed' = executed
  PROVE  CallInv'
<1>1. EchoesOf(<<>> \o toHost', executed)
  BY EchoRest DEF LinkTypeOK, CallInv
<1>2. EchoesOf(resp' \o toHost', executed')
  BY <1>1 DEF Return
<1> QED
  BY <1>2 DEF Return, CallInv, Busy, AckedWasExecuted

\* Acknowledged calls stay executed: the answer read is the echo of an execution.
LEMMA CallStep == LinkTypeOK /\ CallInv /\ [LinkNext]_linkVars => CallInv'
<1> SUFFICES ASSUME LinkTypeOK, CallInv, [LinkNext]_linkVars PROVE CallInv'
  OBVIOUS
<1>0. resp \in Seq(Chars) /\ toHost \in Seq(Chars) /\ EchoesOf(resp \o toHost, executed)
  BY DEF LinkTypeOK, CallInv
<1>1. CASE FwRead
  <2>1. /\ toDev # <<>> /\ UNCHANGED <<phase, script, resp, sent, outcome>>
    BY <1>1 DEF FwRead, host
  <2>2. CASE Fires(fw, Head(toDev).b)
    <3>1. /\ toHost' = toHost \o Answer(fw.cmd, gpuPower)
          /\ executed' = executed \cup ({fw.cmd} \cap Cmd)
      BY <1>1, <2>2 DEF FwRead
    <3>2. fw.cmd \in Bytes /\ gpuPower \in BOOLEAN
      BY DEF LinkTypeOK, Parser
    <3>3. /\ Answer(fw.cmd, gpuPower) \in Seq(Chars) /\ Answer(fw.cmd, gpuPower) # <<>>
          /\ Answer(fw.cmd, gpuPower)[1] = "*"
          /\ EchoesOf(Answer(fw.cmd, gpuPower), {fw.cmd} \cap Cmd)
      BY <3>2, AnswerFacts
    <3>4. EchoesOf(resp' \o toHost', executed')
      BY <1>0, <2>1, <3>1, <3>3, EchoJoins
    <3> QED
      BY <2>1, <3>1, <3>4 DEF CallInv, Busy, AckedWasExecuted
  <2>3. CASE ~Fires(fw, Head(toDev).b)
    <3>1. UNCHANGED <<toHost, executed>>
      BY <1>1, <2>3 DEF FwRead
    <3> QED
      BY <2>1, <3>1 DEF CallInv, Busy, AckedWasExecuted
  <2> QED
    BY <2>2, <2>3
<1>2. CASE Restart
  <2>1. resp' \o toHost' = resp
    BY <1>0, <1>2 DEF Restart, host
  <2>2. EchoesOf(resp, executed)
    <3>1. \A k \in 1..Len(resp) : (resp \o toHost)[k] = resp[k]
      BY <1>0
    <3>2. Len(resp) \in Nat /\ Len(resp \o toHost) \in Nat /\ Len(resp) <= Len(resp \o toHost)
      BY <1>0
    <3>3. \A k \in 1..(Len(resp) - 1) :
            k \in 1..(Len(resp \o toHost) - 1) /\ k \in 1..Len(resp) /\ k + 1 \in 1..Len(resp)
      BY <3>2
    <3> QED
      BY <1>0, <3>1, <3>3 DEF EchoesOf
  <2> QED
    BY <1>2, <2>1, <2>2 DEF Restart, host, CallInv, Busy, AckedWasExecuted
<1>3. CASE TypeByte
  BY <1>3 DEF TypeByte, host, CallInv, Busy, AckedWasExecuted
<1>4. CASE Start
  <2>1. EchoesOf(resp' \o toHost', executed')
    <3>1. resp' = <<>> /\ executed' = executed
      BY <1>4 DEF Start, CallInv
    <3>2. CASE Settled
      <4>1. resp' \o toHost' = <<>>
        BY <1>4, <3>1, <3>2 DEF Start, Flush
      <4> QED
        BY <4>1 DEF EchoesOf
    <3>3. CASE ~Settled
      <4>1. PICK n \in 0..Len(toHost) : toHost' = SubSeq(toHost, n + 1, Len(toHost))
        BY <1>4, <3>3 DEF Start, Flush
      <4> QED
        BY <1>0, <3>1, <4>1, EchoRest
    <3> QED
      BY <3>2, <3>3
  <2> QED
    BY <1>4, <2>1 DEF Start, CallInv, Busy, AckedWasExecuted, None
<1>5. CASE SendCommand \/ Written
  BY <1>5 DEF SendCommand, Written, CallInv, Busy, AckedWasExecuted, None
<1>6. 0 \in 0..Len(toHost) /\ SubSeq(toHost, 0 + 1, Len(toHost)) = toHost
  BY <1>0, SubSeqFull
<1>7. CASE WriteTimeout
  <2>1. Return(FALSE) /\ toHost' = toHost /\ sent' = sent /\ executed' = executed
    BY <1>7 DEF WriteTimeout
  <2> QED
    BY <1>6, <2>1, ReturnKeeps
<1>8. CASE ReadTimeout
  <2>1. toHost' = toHost /\ sent' = sent /\ executed' = executed /\ phase = "reading"
    BY <1>8 DEF ReadTimeout
  <2>2. CASE retry = 0
    <3>1. Return(FALSE)
      BY <1>8, <2>2 DEF ReadTimeout
    <3> QED
      BY <1>6, <2>1, <3>1, ReturnKeeps
  <2>3. CASE retry # 0
    BY <1>8, <2>1, <2>3 DEF ReadTimeout, CallInv, Busy, AckedWasExecuted
  <2> QED
    BY <2>2, <2>3
<1>9. CASE ReadSome
  <2>1. PICK n \in 1..Len(toHost) :
          LET got == resp \o SubSeq(toHost, 1, n) IN
          /\ toHost' = SubSeq(toHost, n + 1, Len(toHost))
          /\ IF retry = 0 THEN Return(FALSE)
             ELSE IF Complete(got) THEN Return(GoodHeader(got, sent))
             ELSE /\ resp' = got
                  /\ retry' = retry - 1
                  /\ UNCHANGED <<phase, script, outcome>>
    BY <1>9 DEF ReadSome
  <2> DEFINE got == resp \o SubSeq(toHost, 1, n)
             rest == SubSeq(toHost, n + 1, Len(toHost))
             s == resp \o toHost
  <2>2. /\ got \in Seq(Chars) /\ rest \in Seq(Chars) /\ got \o rest = s
    <3>1. n \in 0..Len(toHost)
      BY <1>0
    <3> QED
      BY <1>0, <3>1, ReadJoins
  <2>3. /\ n \in 0..Len(toHost) /\ toHost' = rest /\ phase = "reading"
        /\ sent' = sent /\ executed' = executed
    BY <1>0, <1>9, <2>1 DEF ReadSome
  <2>4. CASE Return(FALSE)
    BY <2>3, <2>4, ReturnKeeps
  <2>5. CASE Complete(got) /\ Return(GoodHeader(got, sent))
    <3>1. GoodHeader(got, sent) => sent \in executed
      <4> SUFFICES ASSUME GoodHeader(got, sent) PROVE sent \in executed
        OBVIOUS
      <4>1. sent \in Cmd
        BY <2>3 DEF CallInv, Busy, LinkTypeOK
      <4> HIDE DEF got, rest, s
      <4>2. Len(got) >= 7 /\ Len(got) \in Nat
        BY <2>2, <2>5 DEF Complete, AnswerSize
      <4>3. SubSeq(got, 1, 4)[1] = got[1] /\ SubSeq(got, 1, 4)[2] = got[2]
        BY <2>2, <4>2
      <4>4. got[1] = "*" /\ got[2] = sent
        <5> DEFINE h == <<"*", sent, "CR", "LF">>
        <5>1. h[1] = "*" /\ h[2] = sent
          OBVIOUS
        <5>2. SubSeq(got, 1, 4) = h
          BY DEF GoodHeader
        <5> HIDE DEF h
        <5> QED
          BY <4>3, <5>1, <5>2
      <4>5. /\ Len(got \o rest) = Len(got) + Len(rest) /\ Len(rest) \in Nat
            /\ \A k \in 1..Len(got) : (got \o rest)[k] = got[k]
        BY <2>2
      <4>6. 1 \in 1..(Len(s) - 1) /\ 1 \in 1..Len(got) /\ 2 \in 1..Len(got)
        BY <2>2, <4>2, <4>5
      <4>7. s[1] = "*" /\ s[1 + 1] = sent
        BY <2>2, <4>4, <4>5, <4>6
      <4>8. EchoesOf(s, executed)
        BY <1>0 DEF s
      <4> QED
        BY <4>1, <4>6, <4>7, <4>8 DEF EchoesOf
    <3> QED
      BY <2>3, <2>5, <3>1, ReturnKeeps
  <2>6. CASE resp' = got /\ UNCHANGED <<phase, script, outcome>>
    <3>1. EchoesOf(resp' \o toHost', executed')
      BY <1>0, <2>2, <2>3, <2>6
    <3> QED
      BY <2>3, <2>6, <3>1 DEF CallInv, Busy, AckedWasExecuted
  <2> QED
    BY <2>1, <2>4, <2>5, <2>6
<1>10. CASE Close
  BY <1>10 DEF Close, CallInv, Busy, AckedWasExecuted
<1>11. CASE Kill
  <2>1. EchoesOf(<<>> \o toHost, executed)
    BY <1>0, <1>6, EchoRest
  <2> QED
    BY <1>11, <2>1 DEF Kill, CallInv, Busy, AckedWasExecuted
<1>12. CASE UNCHANGED linkVars
  BY <1>12 DEF linkVars, CallInv, Busy, AckedWasExecuted
<1> QED
  BY <1>1, <1>2, <1>3, <1>4, <1>5, <1>7, <1>8, <1>9, <1>10, <1>11, <1>12
     DEF LinkNext, Host

-----------------------------------------------------------------------------
(* A settled line *)

\* The rest of a frame that is on the line.
LEMMA RestOfFrame ==
  ASSUME NEW c \in Cmd, NEW n \in 1..5
  PROVE  /\ SubSeq(Frame(c), 1, 4) = Frame(c) /\ SubSeq(Frame(c), 5, 4) = <<>>
         /\ SubSeq(Frame(c), n, 4) # <<>> =>
              /\ n \in 1..4
              /\ Head(SubSeq(Frame(c), n, 4)) = Frame(c)[n]
              /\ Tail(SubSeq(Frame(c), n, 4)) = SubSeq(Frame(c), n + 1, 4)
         /\ n \in 1..4 => Frame(c)[n].of = c /\ (Frame(c)[n].b \in Newlines => n = 4)
<1> DEFINE f == Frame(c)
<1>1. /\ f \in Seq(Sent) /\ Len(f) = 4
      /\ f[1] = [b |-> "m", of |-> c] /\ f[2] = [b |-> "c", of |-> c]
      /\ f[3] = [b |-> c, of |-> c]   /\ f[4] = [b |-> "CR", of |-> c]
  BY FrameFacts
<1> HIDE DEF f
<1>2. SubSeq(f, 1, 4) = f /\ SubSeq(f, 5, 4) = <<>>
  BY <1>1, SubSeqFull, SubSeqEmpty
<1>3. SubSeq(f, n, 4) # <<>> => n \in 1..4
  BY <1>2
<1>4. ASSUME n \in 1..4
      PROVE  Head(SubSeq(f, n, 4)) = f[n] /\ Tail(SubSeq(f, n, 4)) = SubSeq(f, n + 1, 4)
  <2>1. n \in 1..Len(f) /\ 4 \in n..Len(f)
    BY <1>1, <1>4
  <2> QED
    BY <1>1, <2>1, HeadTailOfSubSeq
<1>5. ASSUME n \in 1..4
      PROVE  f[n].of = c /\ (f[n].b \in Newlines => n = 4)
  <2>1. "m" \notin Newlines /\ "c" \notin Newlines /\ c \notin Newlines
    BY ByteFacts
  <2>2. n = 1 \/ n = 2 \/ n = 3 \/ n = 4
    BY <1>5
  <2> QED
    BY <1>1, <2>1, <2>2
<1> QED
  BY <1>2, <1>3, <1>4, <1>5 DEF f

\* A call that ends leaves a settled line as the next call needs it.
LEMMA ReturnSettles ==
  ASSUME NEW ok \in BOOLEAN, Return(ok),
         ok => toDev' = <<>> /\ toHost' = <<>> /\ (live' => fw'.state = 0)
  PROVE  SettledInv'
BY DEF Return, SettledInv, Busy

\* What is on a settled line belongs to the call in progress.
LEMMA SettledStep == LinkTypeOK /\ LinkInv /\ [LinkNext]_linkVars => SettledInv'
<1> SUFFICES ASSUME LinkTypeOK, LinkInv, [LinkNext]_linkVars, Settled PROVE SettledInv'
  BY DEF SettledInv
<1>0. /\ resp \in Seq(Chars) /\ toHost \in Seq(Chars) /\ fw \in Parser
      /\ FrameInv /\ CallInv /\ SettledInv
  BY DEF LinkTypeOK, LinkInv
<1>1. resp \o toHost = <<>> => resp = <<>> /\ toHost = <<>>
  BY <1>0, ConcatEqualIffEmpty
<1>2. Busy => sent \in Cmd
  BY <1>0 DEF CallInv, LinkTypeOK
<1>3. CASE FwRead
  <2>1. /\ toDev # <<>> /\ fw' = Parse(fw, Head(toDev).b) /\ toDev' = Tail(toDev)
        /\ UNCHANGED <<live, phase, script, resp, sent, outcome>>
    BY <1>3 DEF FwRead, host
  <2>2. CASE ~Busy
    BY <1>0, <2>1, <2>2 DEF SettledInv, Busy
  <2>3. CASE Busy
    <3>1. PICK n \in 1..5 : toDev = SubSeq(Frame(sent), n, 4)
      BY <1>0, <2>3 DEF SettledInv
    <3>2. /\ n \in 1..4 /\ Head(toDev) = Frame(sent)[n] /\ toDev' = SubSeq(Frame(sent), n + 1, 4)
          /\ Frame(sent)[n].of = sent /\ (Frame(sent)[n].b \in Newlines => n = 4)
      BY <1>2, <2>1, <2>3, <3>1, RestOfFrame
    <3>3. resp = <<>> /\ toHost = <<>>
      BY <1>0, <1>1, <2>1, <2>3 DEF SettledInv
    <3>4. \E m \in 1..5 : toDev' = SubSeq(Frame(sent), m, 4)
      BY <3>2
    <3>5. CASE ~Fires(fw, Head(toDev).b)
      <4>1. resp' \o toHost' = <<>>
        BY <1>3, <2>1, <3>3, <3>5 DEF FwRead
      <4> QED
        BY <2>1, <2>3, <3>4, <4>1 DEF SettledInv, Busy
    <3>6. CASE Fires(fw, Head(toDev).b)
      <4>1. Head(toDev).b \in Newlines /\ fw.state > 2
        BY <3>6 DEF Fires, Magic
      <4>2. toDev' = <<>>
        BY <1>2, <2>3, <3>2, <4>1, RestOfFrame
      <4>3. fw.state = 3
        BY <1>0, <4>1 DEF Parser
      <4>4. fw'.state = 0
        BY <1>0, <2>1, <4>1, <4>3, ParseNewline
      <4>5. fw.cmd = sent
        <5>1. Head(toDev) = toDev[1] /\ 1 \in 1..Len(toDev)
          BY <2>1 DEF LinkTypeOK
        <5>2. toDev[1].of = sent /\ sent # Foreign
          BY <1>2, <2>3, <3>2, <5>1, ByteFacts
        <5> QED
          BY <1>0, <4>1, <4>3, <5>1, <5>2 DEF FrameInv
      <4>6. toHost' = toHost \o Answer(sent, gpuPower)
        BY <1>3, <3>6, <4>5 DEF FwRead
      <4>7. Answer(sent, gpuPower) \in Seq(Chars) /\ gpuPower \in BOOLEAN
        BY <1>2, <2>3, AnswerFacts, ByteFacts DEF LinkTypeOK
      <4>8. resp' \o toHost' = Answer(sent, gpuPower)
        BY <2>1, <3>3, <4>6, <4>7, ConcatEmptySeq
      <4>9. \E p \in BOOLEAN : resp' \o toHost' = Answer(sent', p)
        BY <2>1, <4>7, <4>8
      <4> QED
        BY <2>1, <2>3, <3>4, <4>2, <4>4, <4>9 DEF SettledInv, Busy
    <3> QED
      BY <3>5, <3>6
  <2> QED
    BY <2>2, <2>3
<1>4. CASE Restart
  <2>1. /\ toDev' = <<>> /\ toHost' = <<>> /\ ~live'
        /\ UNCHANGED <<phase, script, sent>>
    BY <1>4 DEF Restart, host
  <2>2. Busy' => sent' \in Cmd
    BY <1>2, <2>1 DEF Busy
  <2>3. Busy' => \E n \in 1..5 : toDev' = SubSeq(Frame(sent'), n, 4)
    BY <2>1, <2>2, RestOfFrame
  <2> QED
    BY <2>1, <2>3 DEF SettledInv
<1>5. CASE TypeByte
  BY <1>5 DEF TypeByte, host, SettledInv, Busy
<1>6. CASE Start
  BY <1>6 DEF Start, Flush, SettledInv, Busy, None
<1>7. CASE SendCommand
  <2>1. toDev = <<>> /\ toHost = <<>> /\ resp = <<>> /\ Head(script) \in Cmd
    BY <1>0, <1>7 DEF SendCommand, SettledInv, CallInv, LinkTypeOK
  <2>2. /\ toDev' = (IF live THEN toDev \o Frame(Head(script)) ELSE toDev)
        /\ phase' = "writing" /\ sent' = Head(script) /\ toHost' = toHost /\ resp' = resp
    BY <1>7 DEF SendCommand
  <2>3. toDev' = Frame(sent') \/ toDev' = <<>>
    BY <2>1, <2>2, FrameFacts, ConcatEmptySeq
  <2>4. sent' \in Cmd
    BY <2>1, <2>2
  <2>5. \E n \in 1..5 : toDev' = SubSeq(Frame(sent'), n, 4)
    <3>1. SubSeq(Frame(sent'), 1, 4) = Frame(sent') /\ SubSeq(Frame(sent'), 5, 4) = <<>>
      BY <2>4, RestOfFrame
    <3>2. CASE toDev' = Frame(sent')
      <4>1. 1 \in 1..5 /\ toDev' = SubSeq(Frame(sent'), 1, 4)
        BY <3>1, <3>2
      <4> QED
        BY <4>1, Zenon
    <3>3. CASE toDev' = <<>>
      <4>1. 5 \in 1..5 /\ toDev' = SubSeq(Frame(sent'), 5, 4)
        BY <3>1, <3>3
      <4> QED
        BY <4>1, Zenon
    <3> QED
      BY <2>3, <3>2, <3>3
  <2>6. resp' \o toHost' = <<>>
    BY <2>1, <2>2
  <2> QED
    BY <2>2, <2>5, <2>6 DEF SettledInv, Busy
<1>8. CASE Written
  <2>1. Busy /\ Busy' /\ phase' # "ready"
        /\ UNCHANGED <<fw, toDev, toHost, live, script, resp, sent, outcome>>
    BY <1>8 DEF Written, board, Busy
  <2> QED
    BY <1>0, <2>1 DEF SettledInv
<1>9. CASE WriteTimeout
  BY <1>9, ReturnSettles DEF WriteTimeout
<1>10. CASE ReadTimeout
  <2>1. CASE retry = 0
    BY <1>10, <2>1, ReturnSettles DEF ReadTimeout
  <2>2. CASE retry # 0
    <3>1. UNCHANGED <<fw, toDev, toHost, live, phase, script, resp, sent, outcome>>
      BY <1>10, <2>2 DEF ReadTimeout, board
    <3> QED
      BY <1>0, <3>1 DEF SettledInv, Busy
  <2> QED
    BY <2>1, <2>2
<1>11. CASE ReadSome
  <2>1. PICK n \in 1..Len(toHost) :
          LET got == resp \o SubSeq(toHost, 1, n) IN
          /\ toHost' = SubSeq(toHost, n + 1, Len(toHost))
          /\ IF retry = 0 THEN Return(FALSE)
             ELSE IF Complete(got) THEN Return(GoodHeader(got, sent))
             ELSE /\ resp' = got
                  /\ retry' = retry - 1
                  /\ UNCHANGED <<phase, script, outcome>>
    BY <1>11 DEF ReadSome
  <2> DEFINE got == resp \o SubSeq(toHost, 1, n)
  <2>2. Busy /\ live /\ UNCHANGED <<fw, toDev, live, sent>>
    BY <1>11 DEF ReadSome, board, Busy
  <2>3. /\ got \in Seq(Chars) /\ toHost' \in Seq(Chars) /\ got \o toHost' = resp \o toHost
        /\ Len(got) = Len(resp) + n
    <3>1. n \in 0..Len(toHost)
      BY <1>0
    <3> QED
      BY <1>0, <2>1, <3>1, ReadJoins
  <2>4. resp \o toHost # <<>>
    BY <1>0, <1>1
  <2>5. toDev = <<>> /\ fw.state = 0 /\ \E p \in BOOLEAN : resp \o toHost = Answer(sent, p)
    BY <1>0, <2>2, <2>4 DEF SettledInv
  <2>6. CASE Return(FALSE)
    BY <2>6, ReturnSettles
  <2>7. CASE Complete(got) /\ Return(GoodHeader(got, sent))
    <3> HIDE DEF got
    <3>1. Len(resp \o toHost) = 7
      BY <1>2, <2>2, <2>5, AnswerFacts, ByteFacts DEF AnswerSize
    <3>2. Len(got \o toHost') = Len(got) + Len(toHost') /\ Len(got) \in Nat
          /\ Len(toHost') \in Nat
      <4>1. got \in Seq(Chars) /\ toHost' \in Seq(Chars)
        BY <2>3
      <4> QED
        BY <4>1, JoinFacts, LenProperties, Zenon
    <3>3. Len(got) >= 7
      BY <2>7 DEF Complete, AnswerSize
    <3>4. Len(toHost') = 0
      BY <2>3, <3>1, <3>2, <3>3
    <3>5. toHost' = <<>>
      BY <2>3, <3>4
    <3>6. GoodHeader(got, sent) \in BOOLEAN
      BY DEF GoodHeader
    <3> QED
      BY <2>2, <2>5, <2>7, <3>5, <3>6, ReturnSettles
  <2>8. CASE resp' = got /\ UNCHANGED <<phase, script, outcome>>
    BY <1>0, <2>2, <2>3, <2>8 DEF SettledInv, Busy
  <2> QED
    BY <2>1, <2>6, <2>7, <2>8
<1>12. CASE Close \/ Kill
  BY <1>12 DEF Close, Kill, SettledInv, Busy
<1>13. CASE UNCHANGED linkVars
  BY <1>0, <1>13 DEF linkVars, SettledInv, Busy
<1> QED
  BY <1>3, <1>4, <1>5, <1>6, <1>7, <1>8, <1>9, <1>10, <1>11, <1>12, <1>13
     DEF LinkNext, Host

-----------------------------------------------------------------------------
(* The theorems about the whole line *)

\* The inductive invariant of the serial line.
LEMMA LinkInvariant == LinkSpec => [](LinkTypeOK /\ LinkInv)
<1>1. LinkInit => LinkTypeOK /\ LinkInv
  BY LinkTypeInit, LinkInvInit
<1>2. LinkTypeOK /\ LinkInv /\ [LinkNext]_linkVars => (LinkTypeOK /\ LinkInv)'
  BY LinkTypeStep, FrameStep, CallStep, SettledStep DEF LinkInv
<1> QED
  BY <1>1, <1>2, PTL DEF LinkSpec

\* The types of the link, with sendCommand's bounds on its buffer and its retries
\* and, over a settled line, of what is on its way to the board.
THEOREM LinkTypes == LinkSpec => []LinkTypeOK
BY LinkInvariant, PTL

\* No torn frame and no typed byte makes handleSerial run a letter of another
\* frame on the host's newline.
THEOREM NothingSpliced == LinkSpec => []NoSplicedCommand
<1>1. LinkTypeOK /\ LinkInv => NoSplicedCommand
  <2> SUFFICES ASSUME LinkTypeOK, LinkInv, toDev # <<>>, Fires(fw, Head(toDev).b)
               PROVE  Head(toDev).of \in {fw.cmd, Foreign}
    BY DEF NoSplicedCommand
  <2>1. Head(toDev) = toDev[1] /\ 1 \in 1..Len(toDev)
    BY DEF LinkTypeOK
  <2>2. Head(toDev).b \in Newlines /\ fw.state = 3
    BY DEF Fires, Magic, LinkTypeOK, Parser
  <2> QED
    BY <2>1, <2>2 DEF LinkInv, FrameInv
<1> QED
  BY <1>1, LinkInvariant, PTL

\* sendCommand's true is never of an answer to a command that was not run.
THEOREM AckedIsExecuted == LinkSpec => []AckedWasExecuted
<1>1. LinkInv => AckedWasExecuted
  BY DEF LinkInv, CallInv
<1> QED
  BY <1>1, LinkInvariant, PTL

\* The newline of a frame always leaves the parser waiting for a magic.
THEOREM ParserResynchronizes == LinkSpec => Resynchronizes
<1>1. LinkTypeOK /\ LinkInv /\ [LinkNext]_linkVars =>
        [FwRead /\ Head(toDev).b \in Newlines /\ Head(toDev).of # Foreign
           => fw'.state = 0]_linkVars
  <2> SUFFICES ASSUME LinkTypeOK, LinkInv, FwRead,
                      Head(toDev).b \in Newlines, Head(toDev).of # Foreign
               PROVE  fw'.state = 0
    BY Zenon
  <2>1. toDev # <<>> /\ fw' = Parse(fw, Head(toDev).b)
    BY DEF FwRead
  <2>2. Head(toDev) = toDev[1] /\ 1 \in 1..Len(toDev)
    BY <2>1 DEF LinkTypeOK
  <2>3. fw.state # 2
    BY <2>2 DEF LinkInv, FrameInv
  <2> QED
    BY <2>1, <2>3, ParseNewline DEF LinkTypeOK
<1> QED
  BY <1>1, LinkInvariant, PTL DEF LinkSpec, Resynchronizes

-----------------------------------------------------------------------------
(* The line implements the port *)

\* What the board would execute next is nothing or a byte.
LEMMA EmptyLine ==
  ASSUME NEW p \in Parser
  PROVE  FirstFired(p, <<>>) = None
<1>1. <<>> \in Seq(Sent) /\ Len(<<>>) = 0
  OBVIOUS
<1>2. \A k \in 1..Len(<<>>) : <<>>[k].b \notin Newlines
  BY <1>1
<1> QED
  BY <1>1, <1>2, NoNewlineNoFire

\* A call on a settled line puts its frame, or nothing on a dead port, on a line
\* with nothing before it.
LEMMA AskedAlone ==
  ASSUME Settled, LinkTypeOK, LinkInv, SendCommand
  PROVE  /\ Head(script) \in Cmd /\ toHost = <<>> /\ resp = <<>>
         /\ toDev' \in Seq(Sent)
         /\ IF live THEN toDev' = Frame(Head(script)) ELSE toDev' = <<>>
         /\ outcome = "ok" /\ live => fw.state = 0
<1>1. /\ toDev = <<>> /\ toHost = <<>> /\ resp = <<>> /\ Head(script) \in Cmd
      /\ outcome = "ok" /\ live => fw.state = 0
  BY DEF SendCommand, LinkInv, SettledInv, CallInv, LinkTypeOK
<1>2. toDev' = IF live THEN toDev \o Frame(Head(script)) ELSE toDev
  BY DEF SendCommand
<1>3. Frame(Head(script)) \in Seq(Sent) /\ <<>> \in Seq(Sent)
  <2>1. Head(script) \in Cmd
    BY <1>1
  <2>2. Frame(Head(script)) \in Seq(Sent)
    BY <2>1, FrameFacts, Zenon
  <2>3. <<>> \in Seq(Sent)
    OBVIOUS
  <2> QED
    BY <2>2, <2>3
<1> DEFINE f == Frame(Head(script))
<1>4. <<>> \o f = f
  BY <1>3, ConcatEmptySeq
<1> HIDE DEF f
<1>5. IF live THEN toDev' = f ELSE toDev' = <<>>
  BY <1>1, <1>2, <1>4 DEF f
<1> QED
  BY <1>1, <1>3, <1>5 DEF f

\* After an acknowledged call the frame of the next one is run.
THEOREM NextFrameIsRun ==
  ASSUME Settled PROVE LinkSpec => NextFrameAccepted
<1>1. LinkTypeOK /\ LinkInv /\ [LinkNext]_linkVars =>
        [SendCommand /\ outcome = "ok" /\ live => Pending' = Head(script)]_linkVars
  <2> SUFFICES ASSUME LinkTypeOK, LinkInv, SendCommand, outcome = "ok", live
               PROVE  Pending' = Head(script)
    BY Zenon
  <2>1. Head(script) \in Cmd /\ toDev' = Frame(Head(script)) /\ fw.state = 0
    BY AskedAlone
  <2>2. fw' = fw /\ fw \in Parser
    BY DEF SendCommand, board, LinkTypeOK
  <2> QED
    BY <2>1, <2>2, FrameFires DEF Pending
<1> QED
  BY <1>1, LinkInvariant, PTL DEF LinkSpec, NextFrameAccepted

\* Nobody types a newline, so the only one on a settled line ends a frame.
LEMMA NewlineStep ==
  ASSUME Settled, ForeignBytes \cap Newlines = {}
  PROVE  LinkTypeOK /\ LinkInv /\ NewlineInv /\ [LinkNext]_linkVars => NewlineInv'
<1> SUFFICES ASSUME LinkTypeOK, LinkInv, NewlineInv, [LinkNext]_linkVars PROVE NewlineInv'
  OBVIOUS
<1>0. toDev \in Seq(Sent) /\ Len(toDev) \in Nat
  BY DEF LinkTypeOK
<1>1. CASE FwRead
  <2>1. toDev # <<>> /\ toDev' = Tail(toDev)
    BY <1>1 DEF FwRead
  <2>2. /\ Len(toDev') = Len(toDev) - 1
        /\ \A k \in 1..Len(toDev') : toDev'[k] = toDev[k + 1]
    BY <2>1, ReadFacts
  <2>3. \A k \in 1..Len(toDev') : k + 1 \in 1..Len(toDev)
    BY <1>0, <2>2
  <2> QED
    BY <2>2, <2>3 DEF NewlineInv
<1>2. CASE Restart
  <2>1. Len(toDev') = 0
    BY <1>2 DEF Restart
  <2> QED
    BY <2>1 DEF NewlineInv
<1>3. CASE TypeByte
  <2>1. PICK b \in ForeignBytes : toDev' = toDev \o Tagged(<<b>>, Foreign)
    BY <1>3 DEF TypeByte
  <2> DEFINE x == [b |-> b, of |-> Foreign]
  <2>2. x \in Sent /\ toDev' = toDev \o <<x>> /\ x.b \notin Newlines
    BY <2>1, ForeignBytesAssumption, TypedFacts
  <2> HIDE DEF x
  <2>3. /\ Len(toDev') = Len(toDev) + 1 /\ toDev'[Len(toDev) + 1] = x
        /\ \A k \in 1..Len(toDev) : toDev'[k] = toDev[k]
    <3>1. <<x>> \in Seq(Sent) /\ Len(<<x>>) = 1 /\ <<x>>[1] = x
      BY <2>2
    <3> QED
      BY <1>0, <2>2, <3>1, JoinFacts
  <2>4. \A k \in 1..Len(toDev') : toDev'[k].b \in Newlines => k \in 1..Len(toDev)
    BY <1>0, <2>2, <2>3
  <2> QED
    BY <2>3, <2>4 DEF NewlineInv
<1>4. CASE SendCommand
  <2>1. Head(script) \in Cmd /\ (toDev' = Frame(Head(script)) \/ toDev' = <<>>)
    BY <1>4, AskedAlone
  <2>2. CASE toDev' = <<>>
    <3>1. Len(toDev') = 0
      BY <2>2
    <3> QED
      BY <3>1 DEF NewlineInv
  <2>3. CASE toDev' = Frame(Head(script))
    <3> DEFINE c == Head(script)
    <3>1. c \in Cmd /\ toDev' = Frame(c) /\ "m" \notin Newlines /\ "c" \notin Newlines
          /\ c \notin Newlines /\ c # Foreign
      BY <2>1, <2>3, ByteFacts
    <3> HIDE DEF c
    <3>2. /\ Len(toDev') = 4
          /\ toDev'[1] = [b |-> "m", of |-> c] /\ toDev'[2] = [b |-> "c", of |-> c]
          /\ toDev'[3] = [b |-> c, of |-> c]   /\ toDev'[4] = [b |-> "CR", of |-> c]
      BY <3>1, FrameFacts
    <3>3. \A k \in 1..Len(toDev') : k = 1 \/ k = 2 \/ k = 3 \/ k = 4
      BY <3>2
    <3>4. \A k \in 1..Len(toDev') : toDev'[k].of = c /\ (toDev'[k].b \in Newlines => k = 4)
      BY <3>1, <3>2, <3>3
    <3> QED
      BY <3>1, <3>4 DEF NewlineInv
  <2> QED
    BY <2>1, <2>2, <2>3
<1>5. CASE Close \/ Kill
  <2>1. CutLine
    BY <1>5 DEF Close, Kill
  <2>2. PICK n \in 0..Len(toDev) : Len(toDev') = n /\ \A k \in 1..n : toDev'[k] = toDev[k]
    BY <2>1, CutFacts
  <2>3. 1..Len(toDev') \subseteq 1..Len(toDev)
    BY <1>0, <2>2
  <2> QED
    BY <2>2, <2>3 DEF NewlineInv
<1>6. CASE Start \/ Written \/ WriteTimeout \/ ReadSome \/ ReadTimeout \/ UNCHANGED linkVars
  BY <1>6, QuietSteps DEF NewlineInv
<1> QED
  BY <1>1, <1>2, <1>3, <1>4, <1>5, <1>6 DEF LinkNext, Host

\* The port's names for the commands are the line's.
LEMMA PortNames ==
  /\ Port!Cmd = Cmd /\ Port!None = None
  /\ \A c, p : Port!Effect(c, p) = Effect(c, p)
BY DEF Port!Cmd, Cmd, Port!None, None, Port!Effect, Effect, Port!On, Port!Off, Port!Ping,
       On, Off, Ping

\* At the start the port is as setup() leaves it.
LEMMA PortInitially == LinkInit => Port!Init
<1> SUFFICES ASSUME LinkInit PROVE Port!Init
  OBVIOUS
<1>1. fw \in Parser
  BY ByteFacts DEF LinkInit, Reset, Parser
<1>2. Pending = None
  BY <1>1, EmptyLine DEF LinkInit, Pending
<1>3. ~Busy
  BY DEF LinkInit, Busy
<1> QED
  BY <1>2, <1>3, PortNames DEF LinkInit, Port!Init

\* A byte read from the line executes the command that is pending, or changes
\* nothing the port shows.
LEMMA ReadIsExecute ==
  ASSUME LinkTypeOK, LinkInv, NewlineInv, FwRead
  PROVE  Port!Execute \/ UNCHANGED Port!vars
<1> DEFINE b == Head(toDev).b
<1>1. /\ toDev # <<>> /\ fw' = Parse(fw, b) /\ toDev' = Tail(toDev)
      /\ UNCHANGED <<phase, resp, sent, outcome, restarted>>
  BY DEF FwRead, host
<1>2. /\ fw \in Parser /\ toDev \in Seq(Sent) /\ toHost \in Seq(Chars) /\ resp \in Seq(Chars)
      /\ gpuPower \in BOOLEAN /\ Len(toDev) \in Nat
  BY DEF LinkTypeOK
<1>3. /\ Head(toDev) = toDev[1] /\ b \in Bytes /\ fw' \in Parser
      /\ Tail(toDev) \in Seq(Sent) /\ Len(Tail(toDev)) = Len(toDev) - 1
      /\ \A k \in 1..Len(Tail(toDev)) : Tail(toDev)[k] = toDev[k + 1]
  BY <1>1, ReadFacts
<1>4. Busy' = Busy
  BY <1>1 DEF Busy
<1>5. CASE Fires(fw, b)
  <2>1. /\ gpuPower' = Effect(fw.cmd, gpuPower)
        /\ toHost' = toHost \o Answer(fw.cmd, gpuPower)
    BY <1>5 DEF FwRead
  <2>2. Pending = fw.cmd
    BY <1>1, <1>2, <1>5, HeadFires DEF Pending
  <2>3. fw.cmd \in Bytes /\ fw.cmd # None
    BY <1>2 DEF Parser, Bytes, None
  <2>4. \A k \in 1..Len(toDev') : toDev'[k].b \notin Newlines
    <3> SUFFICES ASSUME NEW k \in 1..Len(toDev'), toDev'[k].b \in Newlines PROVE FALSE
      OBVIOUS
    <3>1. k + 1 \in 1..Len(toDev) /\ 1 \in 1..Len(toDev) /\ k + 1 # 1
          /\ toDev'[k] = toDev[k + 1]
      BY <1>1, <1>2, <1>3
    <3>2. toDev[1].b \in Newlines
      BY <1>3, <1>5 DEF Fires
    <3> QED
      BY <3>1, <3>2 DEF NewlineInv
  <2>5. Pending' = None
    BY <1>1, <1>3, <2>4, NoNewlineNoFire DEF Pending
  <2>6. resp' \o toHost' # <<>>
    <3>1. Answer(fw.cmd, gpuPower) \in Seq(Chars) /\ Answer(fw.cmd, gpuPower) # <<>>
      BY <1>2, <2>3, AnswerFacts
    <3>2. toHost' \in Seq(Chars) /\ toHost' # <<>>
      BY <1>2, <2>1, <3>1, ConcatProperties, ConcatEqualIffEmpty
    <3> QED
      BY <1>1, <1>2, <3>2, ConcatEqualIffEmpty
  <2>7. (Busy /\ resp \o toHost # <<>>)' = Busy
    BY <1>4, <2>6 DEF Busy
  <2>8. Port!Execute
    BY <1>1, <1>4, <2>1, <2>2, <2>3, <2>5, <2>7, PortNames DEF Port!Execute
  <2> QED
    BY <2>8
<1>6. CASE ~Fires(fw, b)
  <2>1. UNCHANGED <<gpuPower, toHost>>
    BY <1>6 DEF FwRead
  <2>2. Pending' = Pending
    BY <1>1, <1>2, <1>6, HeadPasses DEF Pending
  <2> QED
    BY <1>1, <1>4, <2>1, <2>2 DEF Port!vars
<1> QED
  BY <1>5, <1>6

\* Cutting the line loses the pending command or keeps it.
LEMMA CutPending ==
  ASSUME LinkTypeOK, CutLine, fw' = fw
  PROVE  Pending' \in {Pending, None}
<1>1. PICK n \in 0..Len(toDev) : toDev' = SubSeq(toDev, 1, n)
  BY DEF CutLine
<1> QED
  BY <1>1, CutFires DEF Pending, LinkTypeOK

\* A call that gives up is a Fail of the port.
LEMMA GiveUpIsFail ==
  ASSUME Busy, Return(FALSE), fw' = fw, toDev' = toDev,
         UNCHANGED <<gpuPower, sent, restarted>>
  PROVE  Port!Fail
<1>1. Pending' = Pending
  BY DEF Pending
<1>2. ~Busy' /\ outcome' = "fail"
  BY DEF Return, Busy
<1> QED
  BY <1>1, <1>2, PortNames DEF Port!Fail

\* A call that succeeds on what it read is an Ack of the port.
LEMMA SuccessIsAck ==
  ASSUME Busy, Return(TRUE), fw' = fw, toDev' = toDev, resp \o toHost # <<>>,
         UNCHANGED <<gpuPower, sent, restarted>>
  PROVE  Port!Ack
<1>1. Pending' = Pending
  BY DEF Pending
<1>2. ~Busy' /\ outcome' = "ok"
  BY DEF Return, Busy
<1> QED
  BY <1>1, <1>2, PortNames DEF Port!Ack

\* Outside a call nothing can be acknowledged.
LEMMA IdlePort ==
  ASSUME ~Busy, ~Busy'
  PROVE  Busy' = Busy /\ (Busy /\ resp \o toHost # <<>>)' = (Busy /\ resp \o toHost # <<>>)
<1>1. Busy = FALSE /\ Busy' = FALSE
  BY DEF Busy
<1> QED
  BY <1>1

\* Closing the port, outside a call, drops what is pending or changes nothing.
LEMMA CloseIsDrop ==
  ASSUME ~Busy, ~Busy', Pending' \in {Pending, None},
         UNCHANGED <<gpuPower, sent, outcome, restarted>>
  PROVE  Port!Drop \/ UNCHANGED Port!vars
<1>1. Busy' = Busy /\ (Busy /\ resp \o toHost # <<>>)' = (Busy /\ resp \o toHost # <<>>)
  BY IdlePort
<1>2. CASE Pending' = Pending
  BY <1>1, <1>2 DEF Port!vars
<1>3. CASE Pending' # Pending
  BY <1>1, <1>3, PortNames DEF Port!Drop
<1> QED
  BY <1>2, <1>3

\* Every step of the line is a step of the port or leaves it as it was.
LEMMA LinkStepIsPortStep ==
  ASSUME Settled, ForeignBytes \cap Newlines = {}
  PROVE  LinkTypeOK /\ LinkInv /\ NewlineInv /\ [LinkNext]_linkVars => [Port!Next]_Port!vars
<1> SUFFICES ASSUME LinkTypeOK, LinkInv, NewlineInv, [LinkNext]_linkVars
             PROVE  Port!Next \/ UNCHANGED Port!vars
  BY Zenon
<1>0. /\ fw \in Parser /\ toDev \in Seq(Sent) /\ toHost \in Seq(Chars) /\ resp \in Seq(Chars)
      /\ CallInv /\ SettledInv
  BY DEF LinkTypeOK, LinkInv
<1>1. CASE FwRead
  BY <1>1, ReadIsExecute DEF Port!Next
<1>2. CASE Restart
  <2>1. /\ gpuPower' = TRUE /\ toDev' = <<>> /\ toHost' = <<>> /\ restarted' = TRUE
        /\ fw' = Reset /\ UNCHANGED <<phase, resp, sent, outcome>>
    BY <1>2 DEF Restart, host
  <2>2. Pending' = None
    <3>1. Reset \in Parser
      BY ByteFacts DEF Reset, Parser
    <3> QED
      BY <2>1, <3>1, EmptyLine DEF Pending
  <2>3. Busy' = Busy
    BY <2>1 DEF Busy
  <2>4. (Busy /\ resp \o toHost # <<>>)' \in {Busy /\ resp \o toHost # <<>>, FALSE}
    <3>1. resp \o toHost = <<>> => resp' \o toHost' = <<>>
      BY <1>0, <2>1, ConcatEqualIffEmpty
    <3> QED
      BY <2>3, <3>1 DEF Busy
  <2>5. Port!Reboot
    BY <2>1, <2>2, <2>3, <2>4, PortNames DEF Port!Reboot
  <2> QED
    BY <2>5 DEF Port!Next
<1>3. CASE TypeByte
  <2>1. PICK b \in ForeignBytes : toDev' = toDev \o Tagged(<<b>>, Foreign)
    BY <1>3 DEF TypeByte
  <2> DEFINE x == [b |-> b, of |-> Foreign]
  <2>2. x \in Sent /\ toDev' = toDev \o <<x>> /\ x.b \notin Newlines
    BY <2>1, ForeignBytesAssumption, TypedFacts
  <2> HIDE DEF x
  <2>3. UNCHANGED <<fw, gpuPower, toHost, phase, resp, sent, outcome, restarted>>
    BY <1>3 DEF TypeByte, board, host
  <2>4. Pending' = Pending
    BY <1>0, <2>2, <2>3, TypedFires DEF Pending
  <2> QED
    BY <2>3, <2>4 DEF Port!vars, Busy
<1>4. CASE Start
  <2>1. /\ phase = "closed" /\ phase' = "ready" /\ toDev = <<>> /\ outcome' = None
        /\ UNCHANGED <<fw, gpuPower, toDev, sent, restarted>>
    BY <1>4 DEF Start, board
  <2>2. Pending = None /\ Pending' = Pending
    BY <1>0, <2>1, EmptyLine DEF Pending
  <2>3. ~Busy /\ ~Busy'
    BY <2>1 DEF Busy
  <2>4. Port!Open
    BY <2>1, <2>2, <2>3, IdlePort, PortNames DEF Port!Open
  <2> QED
    BY <2>4 DEF Port!Next
<1>5. CASE SendCommand
  <2>1. /\ phase = "ready" /\ phase' = "writing" /\ script # <<>> /\ sent' = Head(script)
        /\ outcome' = None /\ restarted' = FALSE
        /\ UNCHANGED <<fw, gpuPower, toHost, resp>>
    BY <1>5 DEF SendCommand, board
  <2>2. /\ Head(script) \in Cmd /\ toHost = <<>> /\ resp = <<>>
        /\ toDev' = Frame(Head(script)) \/ toDev' = <<>>
    BY <1>5, AskedAlone
  <2>3. Pending' \in {Head(script), None}
    <3>1. CASE toDev' = <<>>
      BY <1>0, <2>1, <3>1, EmptyLine DEF Pending
    <3>2. CASE toDev' = Frame(Head(script))
      BY <1>0, <2>1, <2>2, <3>2, FrameFires DEF Pending
    <3> QED
      BY <2>2, <3>1, <3>2
  <2>4. ~Busy /\ Busy' /\ resp' \o toHost' = <<>>
    BY <2>1, <2>2 DEF Busy
  <2>5. outcome # "fail"
    BY <1>0, <2>1 DEF CallInv
  <2>6. Port!Ask(Head(script))
    BY <2>1, <2>3, <2>4, <2>5, PortNames DEF Port!Ask
  <2> QED
    BY <2>2, <2>6, PortNames DEF Port!Next
<1>6. CASE Written
  <2>1. /\ Busy /\ Busy'
        /\ UNCHANGED <<fw, gpuPower, toDev, toHost, resp, sent, outcome, restarted>>
    BY <1>6 DEF Written, board, Busy
  <2> QED
    BY <2>1 DEF Port!vars, Pending
<1>7. CASE WriteTimeout
  <2>1. /\ Busy /\ Return(FALSE)
        /\ UNCHANGED <<fw, gpuPower, toDev, sent, restarted>>
    BY <1>7 DEF WriteTimeout, board, Busy
  <2> QED
    BY <2>1, GiveUpIsFail DEF Port!Next
<1>8. CASE ReadTimeout
  <2>1. Busy /\ UNCHANGED <<fw, gpuPower, toDev, toHost, sent, restarted>>
    BY <1>8 DEF ReadTimeout, board, Busy
  <2>2. CASE retry = 0
    <3>1. Return(FALSE)
      BY <1>8, <2>2 DEF ReadTimeout
    <3> QED
      BY <2>1, <3>1, GiveUpIsFail DEF Port!Next
  <2>3. CASE retry # 0
    <3>1. UNCHANGED <<phase, outcome, resp>>
      BY <1>8, <2>3 DEF ReadTimeout
    <3> QED
      BY <2>1, <3>1 DEF Port!vars, Pending, Busy
  <2> QED
    BY <2>2, <2>3
<1>9. CASE ReadSome
  <2>1. PICK n \in 1..Len(toHost) :
          LET got == resp \o SubSeq(toHost, 1, n) IN
          /\ toHost' = SubSeq(toHost, n + 1, Len(toHost))
          /\ IF retry = 0 THEN Return(FALSE)
             ELSE IF Complete(got) THEN Return(GoodHeader(got, sent))
             ELSE /\ resp' = got
                  /\ retry' = retry - 1
                  /\ UNCHANGED <<phase, script, outcome>>
    BY <1>9 DEF ReadSome
  <2> DEFINE got == resp \o SubSeq(toHost, 1, n)
  <2>2. Busy /\ UNCHANGED <<fw, gpuPower, toDev, sent, restarted>>
    BY <1>9 DEF ReadSome, board, Busy
  <2>3. toHost # <<>>
    BY <1>0, <2>1
  <2>4. resp \o toHost # <<>>
    BY <1>0, <2>3, ConcatEqualIffEmpty
  <2>5. CASE Return(FALSE)
    BY <2>2, <2>5, GiveUpIsFail DEF Port!Next
  <2>6. CASE Return(TRUE)
    BY <2>2, <2>4, <2>6, SuccessIsAck DEF Port!Next
  <2>7. CASE resp' = got /\ UNCHANGED <<phase, script, outcome>>
    <3>1. n \in 0..Len(toHost)
      BY <1>0
    <3>2. resp' \o toHost' = resp \o toHost
      BY <1>0, <2>1, <2>7, <3>1, ReadJoins
    <3> QED
      BY <2>2, <2>7, <3>2 DEF Port!vars, Pending, Busy
  <2>8. GoodHeader(got, sent) \in BOOLEAN
    BY DEF GoodHeader
  <2> HIDE DEF got
  <2>9. Return(FALSE) \/ Return(GoodHeader(got, sent))
        \/ (resp' = got /\ UNCHANGED <<phase, script, outcome>>)
    BY <2>1 DEF got
  <2> QED
    BY <2>5, <2>6, <2>7, <2>8, <2>9
<1>10. CASE Close
  <2>1. /\ phase = "ready" /\ phase' = "closed" /\ CutLine
        /\ UNCHANGED <<fw, gpuPower, toHost, resp, sent, outcome, restarted>>
    BY <1>10 DEF Close, board
  <2>2. ~Busy /\ ~Busy'
    BY <2>1 DEF Busy
  <2>3. Pending' \in {Pending, None}
    BY <2>1, CutPending
  <2>4. Port!Drop \/ UNCHANGED Port!vars
    BY <2>1, <2>2, <2>3, CloseIsDrop
  <2> QED
    BY <2>4 DEF Port!Next
<1>11. CASE Kill
  <2>1. /\ phase # "closed" /\ phase' = "closed" /\ CutLine
        /\ outcome' = (IF phase = "ready" THEN outcome ELSE "fail")
        /\ UNCHANGED <<fw, gpuPower, toHost, sent, restarted>>
    BY <1>11 DEF Kill, board
  <2>2. ~Busy' /\ phase \in {"ready", "writing", "reading"}
    BY <2>1 DEF Busy, LinkTypeOK
  <2>3. Pending' \in {Pending, None}
    BY <2>1, CutPending
  <2>4. CASE Busy
    <3>1. outcome' = "fail"
      BY <2>1, <2>4 DEF Busy
    <3>2. Port!Fail
      BY <2>1, <2>2, <2>3, <2>4, <3>1, PortNames DEF Port!Fail
    <3> QED
      BY <3>2 DEF Port!Next
  <2>5. CASE ~Busy
    <3>1. outcome' = outcome
      BY <2>1, <2>2, <2>5 DEF Busy
    <3>2. Port!Drop \/ UNCHANGED Port!vars
      BY <2>1, <2>2, <2>3, <2>5, <3>1, CloseIsDrop
    <3> QED
      BY <3>2 DEF Port!Next
  <2> QED
    BY <2>4, <2>5
<1>12. CASE UNCHANGED linkVars
  BY <1>12 DEF linkVars, Port!vars, Pending, Busy
<1> QED
  BY <1>1, <1>2, <1>3, <1>4, <1>5, <1>6, <1>7, <1>8, <1>9, <1>10, <1>11, <1>12
     DEF LinkNext, Host

\* Over a settled line on which nobody types a newline, the host program and the
\* firmware together are the power port: what sendCommand returns means what
\* PowerPort says it means.
THEOREM LinkImplementsPort ==
  ASSUME Settled, ForeignBytes \cap Newlines = {}
  PROVE  LinkSpec => ImplementsPowerPort
<1>1. LinkInit => NewlineInv
  <2>1. LinkInit => Len(toDev) = 0
    BY DEF LinkInit
  <2> QED
    BY <2>1 DEF NewlineInv
<1>2. LinkTypeOK /\ LinkInv /\ NewlineInv /\ [LinkNext]_linkVars => NewlineInv'
  BY NewlineStep
<1>3. LinkTypeOK /\ LinkInv /\ NewlineInv /\ [LinkNext]_linkVars => [Port!Next]_Port!vars
  BY LinkStepIsPortStep
<1> QED
  BY <1>1, <1>2, <1>3, PortInitially, LinkInvariant, PTL
     DEF LinkSpec, ImplementsPowerPort, Port!Spec

\* PowerPortProofs, with the port that the line implements.
PortProofs == INSTANCE PowerPortProofs WITH
                power    <- gpuPower,
                inflight <- Pending,
                busy     <- Busy,
                served   <- Busy /\ resp \o toHost # <<>>,
                last     <- sent,
                result   <- outcome,
                rebooted <- restarted

\* So sendCommand's true can be trusted on the line itself: after an acknowledged
\* power command the MOSFET is as asked, unless the board restarted since, and on
\* even then after "on".
THEOREM AckedPowerHolds ==
  ASSUME Settled, ForeignBytes \cap Newlines = {}
  PROVE  LinkSpec =>
           [](outcome = "ok" => /\ sent = On => gpuPower
                                /\ sent = Off /\ ~restarted => ~gpuPower)
<1>1. Port!Init => PortProofs!Init
  BY DEF Port!Init, PortProofs!Init, Port!None, PortProofs!None
<1>2. [Port!Next]_Port!vars => [PortProofs!Next]_PortProofs!vars
  BY DEF Port!Next, PortProofs!Next, Port!vars, PortProofs!vars, Port!Open, PortProofs!Open,
         Port!Ask, PortProofs!Ask, Port!Ack, PortProofs!Ack, Port!Fail, PortProofs!Fail,
         Port!Drop, PortProofs!Drop, Port!Execute, PortProofs!Execute, Port!Reboot,
         PortProofs!Reboot, Port!None, PortProofs!None, Port!Cmd, PortProofs!Cmd,
         Port!Effect, PortProofs!Effect, Port!On, PortProofs!On, Port!Off, PortProofs!Off,
         Port!Ping, PortProofs!Ping
<1>3. PortProofs!Agreement /\ PortProofs!OnHolds =>
        (outcome = "ok" => (sent = On => gpuPower) /\ (sent = Off /\ ~restarted => ~gpuPower))
  BY DEF PortProofs!Agreement, PortProofs!OnHolds, PortProofs!Obeyed, PortProofs!On,
         PortProofs!Off, On, Off
<1> QED
  BY <1>1, <1>2, <1>3, LinkImplementsPort, PortProofs!PortAgreement, PTL
     DEF ImplementsPowerPort, Port!Spec, PortProofs!Spec

=============================================================================
