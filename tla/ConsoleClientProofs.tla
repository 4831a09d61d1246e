------------------------ MODULE ConsoleClientProofs ------------------------
(***************************************************************************)
(* Proofs about ConsoleClient for any commands, number of retries, width   *)
(* of the nonce counter and number of failures.  A call of the updater     *)
(* nests commands in reconnects in handshake tests; the argument is that   *)
(* all but the innermost of them wait in connect, that the two ends of a   *)
(* connection whose nonces were exchanged are in step, and that an end or  *)
(* a test which fails all the same has been hit by a failure of its own.   *)
(* At the end the updater that sends the commands: DnsdistSync.            *)
(***************************************************************************)
EXTENDS ConsoleClient, MCDnsdistSync, SequenceTheorems, TLAPS

-----------------------------------------------------------------------------
(* The inductive invariant. *)

(* The call of the updater is outermost, everything inside of it is a       *)
(* handshake test, and whoever is not innermost is in connect.              *)
Nested(s) ==
  \A i \in 1 .. Len(s) :
    /\ i = Len(s) => s[i].cmd \in Commands
    /\ i < Len(s) => s[i].cmd = test
    /\ i > 1 => s[i].pc = "connect"

(* One who sends has a connection; one who connects, and a client without   *)
(* a connection, has nobody at the other end.                               *)
Connected ==
  /\ Running("send") \/ Running("wait") => conn = "set"
  /\ Running("connect") \/ conn = "nil" => peer = "gone"

(* The request of the waiting command is on its way ... *)
Asked ==
  /\ wire.answers = <<>>
  /\ \E n \in Nonces :
       /\ wire.requests = <<[cmd |-> Top.cmd, nonce |-> n]>>
       /\ keys = "current" => /\ n = nonce.sr
                              /\ nonce.w = IncrementNonce(nonce.sr)
                              /\ nonce.r = nonce.sw

(* ... or has been handled and its answer is. *)
Answered ==
  /\ keys = "current"
  /\ wire.requests = <<>>
  /\ wire.answers = <<[cmd |-> Top.cmd, nonce |-> nonce.r]>>
  /\ nonce.w = nonce.sr
  /\ nonce.sw = IncrementNonce(nonce.r)

(* The two ends of a connection are in step. *)
InStep ==
  /\ peer = "gone" => wire = Nothing
  /\ peer = "ready" /\ ~Running("wait") =>
       /\ wire = Nothing
       /\ keys = "current" => nonce.w = nonce.sr /\ nonce.r = nonce.sw
  /\ peer = "ready" /\ Running("wait") => Asked \/ Answered

(* The answer to the call itself, and not to a test, is on its way. *)
Delivering == Len(stack) = 1 /\ Running("wait") /\ wire.answers # <<>>

(* An attempt has executed the call at most once, and an execution whose    *)
(* answer does not arrive has cost a failure.                               *)
Executions ==
  /\ done <= 1 + hits
  /\ done <= 1 + Retries
  /\ result = "ok" => done > 0
  /\ Delivering => done > 0
  /\ stack # <<>> =>
       /\ result = "none"
       /\ ~Delivering => done <= hits
       /\ \/ done <= stack[Len(stack)].attempts
          \/ /\ Len(stack) = 1
             /\ \/ Top.pc = "failed"
                \/ Top.pc = "wait" /\ wire.requests = <<>>
             /\ done <= 1 + stack[Len(stack)].attempts

(* A test that has failed, or is about to, has been hit by a failure. *)
Depth ==
  /\ Len(stack) <= 2 + hits
  /\ \/ Len(stack) <= 1 + hits
     \/ Len(stack) <= 1
     \/ Top.pc \in {"send", "wait"} /\ peer = "ready" /\ keys = "current"

IInv == TypeOK /\ Nested(stack) /\ Connected /\ InStep /\ Executions /\ Depth

-----------------------------------------------------------------------------
(* The stack. *)

(* A frame put before others. *)
LEMMA ConsFacts ==
  ASSUME NEW S, NEW t \in Seq(S), NEW f \in S
  PROVE  LET r == <<f>> \o t
         IN  /\ r \in Seq(S)
             /\ r # <<>>
             /\ Len(r) = Len(t) + 1
             /\ Head(r) = f
             /\ r[1] = f
             /\ \A i \in 2 .. Len(t) + 1 : r[i] = t[i - 1]
<1> DEFINE one == <<f>>
           r == one \o t
<1>1. Len(t) \in Nat
  OBVIOUS
<1>2. one \in Seq(S) /\ Len(one) = 1 /\ one[1] = f
  OBVIOUS
<1> HIDE DEF one
<1>3. /\ r \in Seq(S)
      /\ Len(r) = Len(one) + Len(t)
      /\ \A i \in 1 .. Len(one) + Len(t) :
           r[i] = IF i <= Len(one) THEN one[i] ELSE t[i - Len(one)]
  BY <1>2, ConcatProperties
<1> HIDE DEF r
<1>4. Len(r) = Len(t) + 1 /\ Len(one) + Len(t) = Len(t) + 1
  BY <1>1, <1>2, <1>3
<1>5. r[1] = f /\ \A i \in 2 .. Len(t) + 1 : r[i] = t[i - 1]
  BY <1>1, <1>2, <1>3, <1>4
<1>6. r # <<>> /\ Head(r) = f
  BY <1>1, <1>3, <1>4, <1>5
<1> QED
  BY <1>3, <1>4, <1>5, <1>6 DEF r, one

(* The stack without its innermost frame. *)
LEMMA TailFacts ==
  ASSUME NEW S, NEW s \in Seq(S), s # <<>>
  PROVE  /\ Tail(s) \in Seq(S)
         /\ Len(Tail(s)) = Len(s) - 1
         /\ Len(s) \in Nat \ {0}
         /\ Head(s) = s[1]
         /\ Head(s) \in S
         /\ \A i \in 1 .. Len(s) - 1 : Tail(s)[i] = s[i + 1]
OBVIOUS

(* Another state of the innermost command. *)
LEMMA ReplaceTop ==
  ASSUME NEW s \in Seq(Frame), s # <<>>, Nested(s), NEW f \in Frame, f.cmd = Head(s).cmd,
         NEW r, r = <<f>> \o Tail(s)
  PROVE  /\ r \in Seq(Frame)
         /\ r # <<>>
         /\ Len(r) = Len(s)
         /\ Head(r) = f
         /\ Nested(r)
         /\ Len(s) = 1 => r[Len(r)] = f
         /\ Len(s) > 1 => r[Len(r)] = s[Len(s)]
<1>1. /\ Tail(s) \in Seq(Frame)
      /\ Len(Tail(s)) = Len(s) - 1
      /\ Len(s) \in Nat \ {0}
      /\ Head(s) = s[1]
      /\ \A i \in 1 .. Len(s) - 1 : Tail(s)[i] = s[i + 1]
  BY TailFacts
<1>2. /\ r \in Seq(Frame)
      /\ r # <<>>
      /\ Len(r) = Len(Tail(s)) + 1
      /\ Head(r) = f
      /\ r[1] = f
      /\ \A i \in 2 .. Len(Tail(s)) + 1 : r[i] = Tail(s)[i - 1]
  BY <1>1, ConsFacts
<1>3. Len(r) = Len(s) /\ \A i \in 2 .. Len(s) : r[i] = s[i]
  BY <1>1, <1>2
<1>4. Nested(r)
  <2>1. ASSUME NEW i \in 1 .. Len(r)
        PROVE  /\ i = Len(r) => r[i].cmd \in Commands
               /\ i < Len(r) => r[i].cmd = test
               /\ i > 1 => r[i].pc = "connect"
    <3>1. i \in 1 .. Len(s) /\ (i = 1 \/ (i > 1 /\ i \in 2 .. Len(s)))
      BY <1>1, <1>3
    <3>2. r[i].cmd = s[i].cmd
      BY <1>1, <1>2, <1>3, <3>1
    <3>3. i > 1 => r[i] = s[i]
      BY <1>3, <3>1
    <3> QED
      BY <1>3, <3>1, <3>2, <3>3 DEF Nested
  <2> QED
    BY <2>1 DEF Nested
<1> QED
  BY <1>1, <1>2, <1>3, <1>4

(* The handshake test of a connect. *)
LEMMA PushTest ==
  ASSUME NEW s \in Seq(Frame), s # <<>>, Nested(s), Head(s).pc = "connect",
         NEW f \in Frame, f.cmd = test, NEW r, r = <<f>> \o s
  PROVE  /\ r \in Seq(Frame)
         /\ r # <<>>
         /\ Len(r) = Len(s) + 1
         /\ Head(r) = f
         /\ Nested(r)
         /\ r[Len(r)] = s[Len(s)]
<1>1. Len(s) \in Nat \ {0} /\ Head(s) = s[1]
  BY TailFacts
<1>2. /\ r \in Seq(Frame)
      /\ r # <<>>
      /\ Len(r) = Len(s) + 1
      /\ Head(r) = f
      /\ r[1] = f
      /\ \A i \in 2 .. Len(s) + 1 : r[i] = s[i - 1]
  BY ConsFacts
<1>3. Nested(r)
  BY <1>1, <1>2 DEF Nested
<1> QED
  BY <1>1, <1>2, <1>3

(* A test that returns leaves the connect that ran it innermost. *)
LEMMA PopTest ==
  ASSUME NEW s \in Seq(Frame), Len(s) > 1, Nested(s)
  PROVE  /\ Tail(s) \in Seq(Frame)
         /\ Tail(s) # <<>>
         /\ Len(Tail(s)) = Len(s) - 1
         /\ Nested(Tail(s))
         /\ Head(Tail(s)) = s[2]
         /\ s[2] \in Frame
         /\ s[2].pc = "connect"
         /\ Tail(s)[Len(s) - 1] = s[Len(s)]
<1> DEFINE t == Tail(s)
<1>1. Len(s) \in Nat /\ s # <<>>
  OBVIOUS
<1>2. /\ t \in Seq(Frame)
      /\ Len(t) = Len(s) - 1
      /\ \A i \in 1 .. Len(s) - 1 : t[i] = s[i + 1]
  BY <1>1, TailFacts
<1> HIDE DEF t
<1>3. t # <<>> /\ Head(t) = s[2]
  <2>1. t # <<>>
    BY <1>1, <1>2
  <2>2. Head(t) = t[1]
    BY <1>2, <2>1, TailFacts
  <2> QED
    BY <1>1, <1>2, <2>1, <2>2
<1>4. Nested(t)
  <2>1. ASSUME NEW i \in 1 .. Len(t)
        PROVE  /\ i = Len(t) => t[i].cmd \in Commands
               /\ i < Len(t) => t[i].cmd = test
               /\ i > 1 => t[i].pc = "connect"
    <3>1. i + 1 \in 1 .. Len(s) /\ i \in 1 .. Len(s) - 1
      BY <1>1, <1>2
    <3>2. t[i] = s[i + 1]
      BY <1>2, <3>1
    <3>3. /\ i = Len(t) => i + 1 = Len(s)
          /\ i < Len(t) => i + 1 < Len(s)
          /\ i > 1 => i + 1 > 1
      BY <1>1, <1>2
    <3> QED
      BY <3>1, <3>2, <3>3 DEF Nested
  <2> QED
    BY <2>1 DEF Nested
<1>5. s[2] \in Frame /\ s[2].pc = "connect"
  BY <1>1 DEF Nested
<1>6. t[Len(s) - 1] = s[Len(s)]
  BY <1>1, <1>2
<1> QED
  BY <1>2, <1>3, <1>4, <1>5, <1>6 DEF t

(* incrementNonce stays within the counter. *)
LEMMA IncrementNonceType == \A n \in Nonces : IncrementNonce(n) \in Nonces
BY ClientAssumption DEF Nonces, IncrementNonce

-----------------------------------------------------------------------------
(* What every action starts from. *)

Pcs == {"connect", "send", "wait", "failed", "return"}

(* The types, and which command is innermost. *)
LEMMA Facts ==
  ASSUME TypeOK, Nested(stack)
  PROVE  /\ Len(stack) \in Nat
         /\ hits \in Nat
         /\ faults \in Nat
         /\ done \in Nat
         /\ stack # <<>> =>
              /\ Len(stack) >= 1
              /\ Top \in Frame
              /\ Top.attempts \in Nat
              /\ Top.attempts <= Retries
              /\ Top.pc \in Pcs
              /\ stack[Len(stack)].attempts \in Nat
              /\ stack[Len(stack)].attempts <= Retries
              /\ Len(stack) = 1 => stack[Len(stack)] = Top /\ Top.cmd \in Commands
              /\ Len(stack) > 1 => Top.cmd = test
<1>1. /\ Len(stack) \in Nat /\ hits \in Nat /\ faults \in Nat /\ done \in Nat
  BY ClientAssumption DEF TypeOK
<1>2. ASSUME stack # <<>>
      PROVE  /\ Len(stack) \in Nat \ {0}
             /\ Top = stack[1]
             /\ Top \in Frame
  BY <1>2, TailFacts DEF TypeOK, Top
<1>3. ASSUME NEW f \in Frame
      PROVE  f.attempts \in Nat /\ f.attempts <= Retries /\ f.pc \in Pcs
  BY ClientAssumption DEF Frame, Pcs
<1>4. ASSUME stack # <<>>
      PROVE  stack[Len(stack)] \in Frame
  BY <1>2, <1>4 DEF TypeOK
<1>5. ASSUME stack # <<>>
      PROVE  /\ Len(stack) = 1 => stack[Len(stack)] = Top /\ Top.cmd \in Commands
             /\ Len(stack) > 1 => Top.cmd = test
  BY <1>2, <1>5 DEF Nested
<1> QED
  BY <1>1, <1>2, <1>3, <1>4, <1>5

(* The innermost command goes on to another point. *)
LEMMA TopMoves ==
  ASSUME TypeOK, Nested(stack), stack # <<>>, NEW p \in Pcs,
         stack' = WithTop([Top EXCEPT !.pc = p])
  PROVE  /\ stack' \in Seq(Frame)
         /\ stack' # <<>>
         /\ Len(stack') = Len(stack)
         /\ Top'.pc = p
         /\ Top'.cmd = Top.cmd
         /\ Nested(stack')
         /\ stack'[Len(stack')].attempts = stack[Len(stack)].attempts
<1> DEFINE f == [Top EXCEPT !.pc = p]
<1>1. Top \in Frame /\ Len(stack) >= 1 /\ Len(stack) \in Nat
  BY Facts
<1>2. /\ f \in Frame
      /\ f.pc = p
      /\ f.cmd = Top.cmd
      /\ f.attempts = Top.attempts
  BY <1>1 DEF Frame, Pcs
<1>3. stack' = <<f>> \o Tail(stack)
  BY DEF WithTop
<1> HIDE DEF f
<1>4. /\ stack' \in Seq(Frame)
      /\ stack' # <<>>
      /\ Len(stack') = Len(stack)
      /\ Head(stack') = f
      /\ Nested(stack')
      /\ Len(stack) = 1 => stack'[Len(stack')] = f
      /\ Len(stack) > 1 => stack'[Len(stack')] = stack[Len(stack)]
  <2>1. stack \in Seq(Frame) /\ f.cmd = Head(stack).cmd
    BY <1>2 DEF TypeOK, Top
  <2> QED
    BY <1>2, <1>3, <2>1, ReplaceTop
<1>5. Len(stack) = 1 => stack[Len(stack)] = Top
  BY Facts
<1> QED
  BY <1>1, <1>2, <1>4, <1>5 DEF Top

(* reconnect costs the innermost command an attempt. *)
LEMMA TopRetries ==
  ASSUME TypeOK, Nested(stack), stack # <<>>, Top.attempts < Retries,
         stack' = WithTop([Top EXCEPT !.attempts = @ + 1, !.pc = "connect"])
  PROVE  /\ stack' \in Seq(Frame)
         /\ stack' # <<>>
         /\ Len(stack') = Len(stack)
         /\ Top'.pc = "connect"
         /\ Top'.cmd = Top.cmd
         /\ Nested(stack')
         /\ Len(stack) = 1 => stack'[Len(stack')].attempts = stack[Len(stack)].attempts + 1
         /\ Len(stack) > 1 => stack'[Len(stack')].attempts = stack[Len(stack)].attempts
<1> DEFINE f == [Top EXCEPT !.attempts = @ + 1, !.pc = "connect"]
<1>1. /\ Top \in Frame /\ Len(stack) >= 1 /\ Len(stack) \in Nat
      /\ Top.attempts \in Nat /\ stack[Len(stack)].attempts \in Nat
  BY Facts
<1>2. /\ f \in Frame
      /\ f.pc = "connect"
      /\ f.cmd = Top.cmd
      /\ f.attempts = Top.attempts + 1
  <2>1. Top.attempts + 1 \in 0 .. Retries
    BY <1>1, ClientAssumption
  <2> QED
    BY <1>1, <2>1 DEF Frame
<1>3. stack' = <<f>> \o Tail(stack)
  BY DEF WithTop
<1> HIDE DEF f
<1>4. /\ stack' \in Seq(Frame)
      /\ stack' # <<>>
      /\ Len(stack') = Len(stack)
      /\ Head(stack') = f
      /\ Nested(stack')
      /\ Len(stack) = 1 => stack'[Len(stack')] = f
      /\ Len(stack) > 1 => stack'[Len(stack')] = stack[Len(stack)]
  <2>1. stack \in Seq(Frame) /\ f.cmd = Head(stack).cmd
    BY <1>2 DEF TypeOK, Top
  <2> QED
    BY <1>2, <1>3, <2>1, ReplaceTop
<1>5. Len(stack) = 1 => stack[Len(stack)] = Top
  BY Facts
<1> QED
  BY <1>1, <1>2, <1>4, <1>5 DEF Top

(* A test returns to the connect that ran it, which goes on to p. *)
LEMMA TestReturns ==
  ASSUME TypeOK, Nested(stack), stack # <<>>, Len(stack) # 1, NEW p \in Pcs,
         stack' = <<[stack[2] EXCEPT !.pc = p]>> \o Tail(Tail(stack))
  PROVE  /\ stack' \in Seq(Frame)
         /\ stack' # <<>>
         /\ Len(stack') = Len(stack) - 1
         /\ Top'.pc = p
         /\ Nested(stack')
         /\ stack'[Len(stack')].attempts = stack[Len(stack)].attempts
<1> DEFINE f == [stack[2] EXCEPT !.pc = p]
           t == Tail(stack)
<1>1. Len(stack) > 1 /\ Len(stack) \in Nat /\ stack \in Seq(Frame)
  BY Facts DEF TypeOK
<1>2. /\ t \in Seq(Frame)
      /\ t # <<>>
      /\ Len(t) = Len(stack) - 1
      /\ Nested(t)
      /\ Head(t) = stack[2]
      /\ stack[2] \in Frame
      /\ t[Len(stack) - 1] = stack[Len(stack)]
  BY <1>1, PopTest
<1>3. /\ f \in Frame
      /\ f.pc = p
      /\ f.cmd = stack[2].cmd
      /\ f.attempts = stack[2].attempts
  BY <1>2 DEF Frame, Pcs
<1>4. stack' = <<f>> \o Tail(t)
  OBVIOUS
<1> HIDE DEF f, t
<1>5. /\ stack' \in Seq(Frame)
      /\ stack' # <<>>
      /\ Len(stack') = Len(t)
      /\ Head(stack') = f
      /\ Nested(stack')
      /\ Len(t) = 1 => stack'[Len(stack')] = f
      /\ Len(t) > 1 => stack'[Len(stack')] = t[Len(t)]
  BY <1>2, <1>3, <1>4, ReplaceTop
<1>6. Len(t) = 1 => t[Len(t)] = stack[2]
  BY <1>1, <1>2, TailFacts
<1>7. stack'[Len(stack')].attempts = stack[Len(stack)].attempts
  <2>1. CASE Len(t) = 1
    BY <1>1, <1>2, <1>3, <1>5, <1>6, <2>1
  <2>2. CASE Len(t) > 1
    BY <1>1, <1>2, <1>5, <2>2
  <2> QED
    BY <1>1, <1>2, <2>1, <2>2
<1> QED
  BY <1>1, <1>2, <1>3, <1>5, <1>7 DEF Top

-----------------------------------------------------------------------------
(* One lemma per action. *)

(* The updater calls, with whatever connection the last call left. *)
LEMMA CommandKeeps ==
  ASSUME IInv, NEW c \in Commands, Command(c)
  PROVE  IInv'
<1> DEFINE f == Invocation(c)
<1>1. /\ stack' = <<f>>
      /\ result' = "none"
      /\ hits' = 0
      /\ done' = 0
      /\ stack = <<>>
      /\ UNCHANGED <<conn, keys, nonce, peer, wire, up, faults>>
  BY DEF Command
<1>2. /\ f \in Frame
      /\ f.cmd = c
      /\ f.attempts = 0
      /\ f.pc = IF conn = "nil" THEN "connect" ELSE "send"
  BY ClientAssumption DEF Invocation, Frame
<1> HIDE DEF f
<1>3. /\ stack' \in Seq(Frame)
      /\ stack' # <<>>
      /\ Len(stack') = 1
      /\ Head(stack') = f
      /\ stack'[1] = f
  BY <1>1, <1>2
<1>4. TypeOK'
  BY <1>1, <1>3 DEF IInv, TypeOK
<1>5. Nested(stack')
  BY <1>2, <1>3 DEF Nested
<1>6. Connected'
  BY <1>1, <1>2, <1>3 DEF IInv, TypeOK, Connected, Running, Top
<1>7. InStep'
  BY <1>1, <1>2, <1>3 DEF IInv, InStep, Running, Top
<1>8. Executions'
  BY <1>1, <1>2, <1>3, ClientAssumption DEF Executions, Delivering, Running, Top
<1>9. Depth'
  BY <1>1, <1>3 DEF Depth
<1> QED
  BY <1>4, <1>5, <1>6, <1>7, <1>8, <1>9 DEF IInv

(* A dial that fails costs the command its attempt, and leaves no conn.     *)
LEMMA DialKeeps ==
  ASSUME IInv, Dial
  PROVE  IInv'
<1>1. /\ TypeOK /\ Nested(stack) /\ stack # <<>> /\ Top.pc = "connect" /\ peer = "gone"
  BY DEF IInv, Dial, Running, Connected
<1> DEFINE p == IF Top.attempts = 0 THEN "return" ELSE "failed"
<1>2. /\ stack' = WithTop([Top EXCEPT !.pc = p])
      /\ conn' = "nil"
      /\ peer' = "gone"
      /\ UNCHANGED <<keys, nonce, wire, up, result, faults, hits, done>>
  BY DEF Dial, ConnectFailed
<1>3. p \in Pcs /\ p \in {"return", "failed"}
  BY DEF Pcs
<1> HIDE DEF p
<1>4. /\ stack' \in Seq(Frame)
      /\ stack' # <<>>
      /\ Len(stack') = Len(stack)
      /\ Top'.pc = p
      /\ Top'.cmd = Top.cmd
      /\ Nested(stack')
      /\ stack'[Len(stack')].attempts = stack[Len(stack)].attempts
  BY <1>1, <1>2, <1>3, TopMoves
<1>5. TypeOK'
  BY <1>1, <1>2, <1>4 DEF TypeOK
<1>6. Connected'
  BY <1>2, <1>3, <1>4 DEF Connected, Running
<1>7. InStep'
  BY <1>1, <1>2 DEF IInv, InStep
<1>8. Executions'
  BY <1>1, <1>2, <1>3, <1>4, Facts DEF IInv, Executions, Delivering, Running
<1>9. Depth'
  BY <1>1, <1>2, <1>3, <1>4, Facts DEF IInv, Depth
<1> QED
  BY <1>4, <1>5, <1>6, <1>7, <1>8, <1>9 DEF IInv

(* The exchange starts both ends at the same nonces, with an empty wire.    *)
LEMMA ConnectKeeps ==
  ASSUME IInv, Connect
  PROVE  IInv'
<1>1. /\ TypeOK /\ Nested(stack) /\ stack # <<>> /\ Top.pc = "connect" /\ wire = Nothing
  BY DEF IInv, Connect, Running, Connected, InStep
<1> DEFINE f == [cmd |-> test, attempts |-> 0, pc |-> "send"]
<1>2. /\ stack' = <<f>> \o stack
      /\ conn' = "set"
      /\ peer' = "ready"
      /\ keys' = "current"
      /\ nonce' = NewNonces
      /\ UNCHANGED <<wire, up, result, faults, hits, done>>
  BY DEF Connect
<1>3. f \in Frame /\ f.cmd = test /\ f.pc = "send"
  BY ClientAssumption DEF Frame
<1> HIDE DEF f
<1>4. /\ stack' \in Seq(Frame)
      /\ stack' # <<>>
      /\ Len(stack') = Len(stack) + 1
      /\ Head(stack') = f
      /\ Nested(stack')
      /\ stack'[Len(stack')] = stack[Len(stack)]
  BY <1>1, <1>2, <1>3, PushTest DEF TypeOK, Top
<1>5. TypeOK'
  <2>1. 0 \in Nonces
    BY ClientAssumption DEF Nonces
  <2>2. nonce' \in [w : Nonces, r : Nonces, sw : Nonces, sr : Nonces]
    BY <1>2, <2>1 DEF NewNonces
  <2> QED
    BY <1>1, <1>2, <1>4, <2>2 DEF TypeOK
<1>6. Connected'
  BY <1>2, <1>3, <1>4 DEF Connected, Running, Top
<1>7. InStep'
  BY <1>1, <1>2, <1>3, <1>4 DEF InStep, NewNonces, Running, Top
<1>8. Executions'
  BY <1>1, <1>2, <1>3, <1>4, Facts DEF IInv, Executions, Delivering, Running, Top
<1>9. Depth'
  BY <1>1, <1>2, <1>3, <1>4, Facts DEF IInv, Depth, Top
<1> QED
  BY <1>4, <1>5, <1>6, <1>7, <1>8, <1>9 DEF IInv

(* The request of a connection that is in step carries the nonce that the   *)
(* server expects next.                                                     *)
LEMMA SendKeeps ==
  ASSUME IInv, Send
  PROVE  IInv'
<1>1. /\ TypeOK /\ Nested(stack) /\ stack # <<>> /\ Top.pc = "send" /\ conn = "set"
  BY DEF IInv, Send, Running, Connected
<1> DEFINE p == IF peer = "ready" THEN "wait" ELSE "failed"
           m == [cmd |-> Top.cmd, nonce |-> nonce.w]
<1>2. /\ stack' = WithTop([Top EXCEPT !.pc = p])
      /\ nonce' = [nonce EXCEPT !.w = IncrementNonce(@)]
      /\ peer = "ready" => wire' = [wire EXCEPT !.requests = Append(@, m)]
      /\ peer # "ready" => wire' = wire
      /\ UNCHANGED <<conn, keys, peer, up, result, faults, hits, done>>
  BY DEF Send
<1>3. p \in Pcs /\ (peer = "ready" => p = "wait") /\ (peer # "ready" => p = "failed")
  BY DEF Pcs
<1> HIDE DEF p
<1>4. /\ stack' \in Seq(Frame)
      /\ stack' # <<>>
      /\ Len(stack') = Len(stack)
      /\ Top'.pc = p
      /\ Top'.cmd = Top.cmd
      /\ Nested(stack')
      /\ stack'[Len(stack')].attempts = stack[Len(stack)].attempts
  BY <1>1, <1>2, <1>3, TopMoves
<1>5. /\ nonce.w \in Nonces
      /\ nonce' \in [w : Nonces, r : Nonces, sw : Nonces, sr : Nonces]
      /\ nonce'.w = IncrementNonce(nonce.w)
      /\ nonce'.r = nonce.r /\ nonce'.sw = nonce.sw /\ nonce'.sr = nonce.sr
  BY <1>1, <1>2, IncrementNonceType DEF TypeOK
<1>6. m \in Message
  BY <1>1, <1>5, Facts DEF Message, Frame
<1>7. wire = Nothing
  BY <1>1 DEF IInv, TypeOK, InStep, Running
<1>8. peer = "ready" => wire' = [requests |-> <<m>>, answers |-> <<>>]
  BY <1>2, <1>7 DEF Nothing
<1> HIDE DEF m
<1>9. TypeOK'
  <2>1. wire' \in [requests : Seq(Message), answers : Seq(Message)]
    BY <1>1, <1>2, <1>6, <1>8 DEF TypeOK
  <2> QED
    BY <1>1, <1>2, <1>4, <1>5, <2>1 DEF TypeOK
<1>10. Connected'
  BY <1>1, <1>2, <1>3, <1>4 DEF IInv, Connected, Running
<1>11. InStep'
  <2>1. CASE peer = "ready"
    <3>1. keys = "current" => nonce.w = nonce.sr /\ nonce.r = nonce.sw
      BY <1>1, <2>1 DEF IInv, InStep, Running
    <3>2. Asked'
      <4>1. wire'.answers = <<>> /\ wire'.requests = <<[cmd |-> Top'.cmd, nonce |-> nonce.w]>>
        BY <1>4, <1>8, <2>1 DEF m
      <4> QED
        BY <1>2, <1>5, <3>1, <4>1 DEF Asked
    <3> QED
      BY <1>2, <1>3, <1>4, <2>1, <3>2 DEF InStep, Running
  <2>2. CASE peer # "ready"
    BY <1>2, <1>7, <2>2 DEF InStep
  <2> QED
    BY <2>1, <2>2
<1>12. Executions'
  <2>1. ~Delivering' /\ ~Delivering
    BY <1>1, <1>2, <1>3, <1>4, <1>7, <1>8 DEF Delivering, Running, Nothing
  <2> QED
    BY <1>1, <1>2, <1>4, <2>1, Facts DEF IInv, Executions
<1>13. Depth'
  BY <1>1, <1>2, <1>3, <1>4, Facts DEF IInv, Depth
<1> QED
  BY <1>4, <1>9, <1>10, <1>11, <1>12, <1>13 DEF IInv

(* An answer on the wire is that of the waiting command and decrypts. *)
LEMMA AnswerFits ==
  ASSUME IInv, Running("wait"), wire.answers # <<>>
  PROVE  /\ Answered
         /\ peer = "ready"
         /\ Decrypts(Head(wire.answers))
         /\ Head(wire.answers).cmd = Top.cmd
         /\ Tail(wire.answers) = <<>>
<1>1. peer = "ready" /\ Answered
  BY DEF IInv, TypeOK, InStep, Nothing, Asked
<1>2. /\ Head(wire.answers) = [cmd |-> Top.cmd, nonce |-> nonce.r]
      /\ Tail(wire.answers) = <<>>
  BY <1>1 DEF Answered
<1> QED
  BY <1>1, <1>2 DEF Answered, Decrypts

(* The answer ends the command; a test hands its connection to the caller. *)
LEMMA ReceiveKeeps ==
  ASSUME IInv, Receive
  PROVE  IInv'
<1>1. /\ TypeOK /\ Nested(stack) /\ stack # <<>> /\ Top.pc = "wait" /\ conn = "set"
      /\ Running("wait") /\ wire.answers # <<>>
  BY DEF IInv, Receive, Running, Connected
<1>2. /\ Answered
      /\ peer = "ready"
      /\ Decrypts(Head(wire.answers))
      /\ Tail(wire.answers) = <<>>
  BY <1>1, AnswerFits
<1>3. /\ wire' = [wire EXCEPT !.answers = <<>>]
      /\ nonce' = [nonce EXCEPT !.r = IncrementNonce(@)]
      /\ Returns(TRUE)
      /\ UNCHANGED <<conn, keys, peer, up, faults, hits, done>>
  BY <1>2 DEF Receive
<1>4. wire' = Nothing
  BY <1>1, <1>2, <1>3 DEF Answered, Nothing, TypeOK
<1>5. /\ nonce' \in [w : Nonces, r : Nonces, sw : Nonces, sr : Nonces]
      /\ nonce'.w = nonce'.sr /\ nonce'.r = nonce'.sw
  BY <1>1, <1>2, <1>3, IncrementNonceType DEF TypeOK, Answered
<1>6. wire' \in [requests : Seq(Message), answers : Seq(Message)]
  BY <1>4 DEF Nothing
<1>7. CASE Len(stack) = 1
  <2>1. stack' = <<>> /\ result' = "ok"
    BY <1>3, <1>7 DEF Returns
  <2>2. stack' \in Seq(Frame) /\ Len(stack') = 0
    BY <2>1
  <2>3. TypeOK'
    BY <1>1, <1>3, <1>5, <1>6, <2>1, <2>2 DEF TypeOK
  <2>4. Nested(stack')
    BY <2>2 DEF Nested
  <2>5. Connected' /\ InStep'
    BY <1>1, <1>2, <1>3, <1>4, <1>5, <2>1 DEF Connected, InStep, Running
  <2>6. Executions'
    BY <1>1, <1>3, <1>7, <2>1, <2>2 DEF IInv, Executions, Delivering
  <2>7. Depth'
    BY <1>1, <1>3, <2>2, Facts DEF Depth
  <2> QED
    BY <2>3, <2>4, <2>5, <2>6, <2>7 DEF IInv
<1>8. CASE Len(stack) # 1
  <2>1. stack' = <<[stack[2] EXCEPT !.pc = "send"]>> \o Tail(Tail(stack)) /\ result' = result
    BY <1>3, <1>8 DEF Returns
  <2>2. /\ stack' \in Seq(Frame)
        /\ stack' # <<>>
        /\ Len(stack') = Len(stack) - 1
        /\ Top'.pc = "send"
        /\ Nested(stack')
        /\ stack'[Len(stack')].attempts = stack[Len(stack)].attempts
    BY <1>1, <1>8, <2>1, TestReturns DEF Pcs
  <2>3. TypeOK'
    BY <1>1, <1>3, <1>5, <1>6, <2>1, <2>2 DEF TypeOK
  <2>4. Connected' /\ InStep'
    BY <1>1, <1>2, <1>3, <1>4, <1>5, <2>2 DEF Connected, InStep, Running
  <2>5. Executions'
    <3>1. ~Delivering' /\ ~Delivering
      BY <1>8, <2>2 DEF Delivering, Running
    <3> QED
      BY <1>1, <1>3, <1>8, <2>1, <2>2, <3>1 DEF IInv, Executions
  <2>6. Depth'
    BY <1>1, <1>2, <1>3, <2>2, Facts DEF IInv, Depth, Answered
  <2> QED
    BY <2>2, <2>3, <2>4, <2>5, <2>6 DEF IInv
<1> QED
  BY <1>7, <1>8

(* The read ends with the connection, and no answer is lost by that. *)
LEMMA ReadFailsKeeps ==
  ASSUME IInv, ReadFails
  PROVE  IInv'
<1>1. /\ TypeOK /\ Nested(stack) /\ stack # <<>> /\ Top.pc = "wait"
      /\ peer = "gone" /\ wire = Nothing
  BY DEF IInv, ReadFails, Running, InStep
<1>2. /\ stack' = WithTop([Top EXCEPT !.pc = "failed"])
      /\ UNCHANGED <<conn, keys, nonce, peer, wire, up, result, faults, hits, done>>
  BY DEF ReadFails
<1>3. /\ stack' \in Seq(Frame)
      /\ stack' # <<>>
      /\ Len(stack') = Len(stack)
      /\ Top'.pc = "failed"
      /\ Top'.cmd = Top.cmd
      /\ Nested(stack')
      /\ stack'[Len(stack')].attempts = stack[Len(stack)].attempts
  BY <1>1, <1>2, TopMoves DEF Pcs
<1>4. TypeOK'
  BY <1>1, <1>2, <1>3 DEF TypeOK
<1>5. Connected' /\ InStep'
  BY <1>1, <1>2, <1>3 DEF Connected, InStep, Running
<1>6. Executions'
  <2>1. ~Delivering' /\ ~Delivering
    BY <1>1, <1>2 DEF Delivering, Nothing
  <2> QED
    BY <1>1, <1>2, <1>3, <2>1, Facts DEF IInv, Executions
<1>7. Depth'
  BY <1>1, <1>2, <1>3, Facts DEF IInv, Depth
<1> QED
  BY <1>3, <1>4, <1>5, <1>6, <1>7 DEF IInv

(* reconnect drops the connection with all that was on it. *)
LEMMA ReconnectKeeps ==
  ASSUME IInv, Reconnect
  PROVE  IInv'
<1>1. TypeOK /\ Nested(stack) /\ stack # <<>> /\ Top.pc = "failed"
  BY DEF IInv, Reconnect, Running
<1>2. /\ Top.attempts < Retries
      /\ stack' = WithTop([Top EXCEPT !.attempts = @ + 1, !.pc = "connect"])
      /\ conn' = "nil"
      /\ peer' = "gone"
      /\ wire' = Nothing
      /\ UNCHANGED <<keys, nonce, up, result, faults, hits, done>>
  BY DEF Reconnect
<1>3. /\ stack' \in Seq(Frame)
      /\ stack' # <<>>
      /\ Len(stack') = Len(stack)
      /\ Top'.pc = "connect"
      /\ Nested(stack')
      /\ Len(stack) = 1 => stack'[Len(stack')].attempts = stack[Len(stack)].attempts + 1
      /\ Len(stack) > 1 => stack'[Len(stack')].attempts = stack[Len(stack)].attempts
  BY <1>1, <1>2, TopRetries
<1>4. TypeOK'
  BY <1>1, <1>2, <1>3 DEF TypeOK, Nothing
<1>5. Connected' /\ InStep'
  BY <1>2, <1>3 DEF Connected, InStep, Running
<1>6. Executions'
  <2>1. ~Delivering' /\ ~Delivering
    BY <1>1, <1>3 DEF Delivering, Running
  <2> QED
    BY <1>1, <1>2, <1>3, <2>1, Facts DEF IInv, Executions
<1>7. Depth'
  BY <1>1, <1>2, <1>3, Facts DEF IInv, Depth
<1> QED
  BY <1>3, <1>4, <1>5, <1>6, <1>7 DEF IInv

(* A command without attempts left fails its caller. *)
LEMMA GiveUpKeeps ==
  ASSUME IInv, GiveUp
  PROVE  IInv'
<1>1. /\ TypeOK /\ Nested(stack) /\ stack # <<>> /\ Top.pc \in {"return", "failed"}
  BY DEF IInv, GiveUp, Running
<1>2. /\ Returns(FALSE)
      /\ UNCHANGED <<conn, keys, nonce, peer, wire, up, faults, hits, done>>
  BY DEF GiveUp
<1>3. CASE Len(stack) = 1
  <2>1. stack' = <<>> /\ result' = "error"
    BY <1>2, <1>3 DEF Returns
  <2>2. stack' \in Seq(Frame) /\ Len(stack') = 0
    BY <2>1
  <2>3. TypeOK'
    BY <1>1, <1>2, <2>1, <2>2 DEF TypeOK
  <2>4. Nested(stack')
    BY <2>2 DEF Nested
  <2>5. Connected' /\ InStep'
    BY <1>1, <1>2, <2>1 DEF IInv, Connected, InStep, Running
  <2>6. Executions'
    BY <1>1, <1>2, <2>1, <2>2 DEF IInv, Executions, Delivering
  <2>7. Depth'
    BY <1>1, <1>2, <2>2, Facts DEF Depth
  <2> QED
    BY <2>3, <2>4, <2>5, <2>6, <2>7 DEF IInv
<1>4. CASE Len(stack) # 1
  <2> DEFINE p == IF stack[2].attempts = 0 THEN "return" ELSE "failed"
  <2>1. stack' = <<[stack[2] EXCEPT !.pc = p]>> \o Tail(Tail(stack)) /\ result' = result
    BY <1>2, <1>4 DEF Returns, ConnectFailed
  <2>2. p \in Pcs /\ p \in {"return", "failed"}
    BY DEF Pcs
  <2> HIDE DEF p
  <2>3. /\ stack' \in Seq(Frame)
        /\ stack' # <<>>
        /\ Len(stack') = Len(stack) - 1
        /\ Top'.pc = p
        /\ Nested(stack')
        /\ stack'[Len(stack')].attempts = stack[Len(stack)].attempts
    BY <1>1, <1>4, <2>1, <2>2, TestReturns
  <2>4. TypeOK'
    BY <1>1, <1>2, <2>1, <2>3 DEF TypeOK
  <2>5. Connected' /\ InStep'
    BY <1>1, <1>2, <2>2, <2>3 DEF IInv, Connected, InStep, Running
  <2>6. Executions'
    <3>1. ~Delivering' /\ ~Delivering
      BY <1>4, <2>2, <2>3 DEF Delivering, Running
    <3> QED
      BY <1>1, <1>2, <1>4, <2>1, <2>3, <3>1 DEF IInv, Executions
  <2>7. Depth'
    BY <1>1, <1>2, <1>4, <2>3, Facts DEF IInv, Depth
  <2> QED
    BY <2>3, <2>4, <2>5, <2>6, <2>7 DEF IInv
<1> QED
  BY <1>3, <1>4

(* The server executes what it is asked once, and answers in step; it drops *)
(* a connection whose nonces are those of another.                          *)
LEMMA HandleKeeps ==
  ASSUME IInv, Handle
  PROVE  IInv'
<1>1. TypeOK /\ Nested(stack) /\ wire.requests # <<>>
  BY DEF IInv, Handle
<1>2. peer = "ready" /\ Running("wait") /\ Asked
  BY <1>1 DEF IInv, TypeOK, InStep, Nothing, Answered
<1>3. /\ stack # <<>> /\ Top.pc = "wait" /\ conn = "set"
      /\ UNCHANGED <<stack, conn, keys, up, result, faults, hits>>
  BY <1>2 DEF IInv, Connected, Running, Handle
<1>4. ~Delivering
  BY <1>2 DEF Delivering, Asked
<1>5. CASE keys = "current"
  <2> DEFINE m == [cmd |-> Top.cmd, nonce |-> nonce.r]
  <2>1. /\ wire.requests = <<[cmd |-> Top.cmd, nonce |-> nonce.sr]>>
        /\ wire.answers = <<>>
        /\ nonce.w = IncrementNonce(nonce.sr)
        /\ nonce.r = nonce.sw
    BY <1>2, <1>5 DEF Asked
  <2>2. /\ Head(wire.requests).cmd = Top.cmd
        /\ Head(wire.requests).nonce = nonce.sr
        /\ Tail(wire.requests) = <<>>
    BY <2>1
  <2>3. /\ wire' = [requests |-> <<>>, answers |-> <<m>>]
        /\ nonce' = [nonce EXCEPT !.sr = IncrementNonce(@), !.sw = IncrementNonce(@)]
        /\ done' = IF Top.cmd = test THEN done ELSE done + 1
        /\ peer' = peer
    BY <1>5, <2>1, <2>2 DEF Handle
  <2>4. /\ nonce' \in [w : Nonces, r : Nonces, sw : Nonces, sr : Nonces]
        /\ nonce'.w = nonce'.sr
        /\ nonce'.sw = IncrementNonce(nonce'.r)
        /\ nonce'.r = nonce.r
    BY <1>1, <2>1, <2>3, IncrementNonceType DEF TypeOK
  <2>5. m \in Message
    BY <1>1, <1>3, Facts DEF Message, Frame, TypeOK
  <2>6. TypeOK'
    <3>1. wire' \in [requests : Seq(Message), answers : Seq(Message)]
      BY <2>3, <2>5
    <3>2. done' \in Nat
      BY <1>1, <2>3, Facts
    <3> QED
      BY <1>1, <1>3, <2>3, <2>4, <3>1, <3>2 DEF TypeOK
  <2>7. Connected'
    BY <1>2, <1>3, <2>3 DEF Connected, Running, Top
  <2>8. InStep'
    <3>1. Answered'
      BY <1>3, <1>5, <2>3, <2>4 DEF Answered, Top
    <3> QED
      BY <1>2, <1>3, <2>3, <3>1 DEF InStep, Running, Top
  <2>9. Executions'
    <3>1. /\ done <= hits
          /\ done <= stack[Len(stack)].attempts
          /\ done <= Retries
          /\ result = "none"
      BY <1>1, <1>3, <1>4, Facts, ClientAssumption DEF IInv, Executions
    <3>2. wire'.answers # <<>> /\ wire'.requests = <<>>
      BY <2>3
    <3>3. CASE Len(stack) = 1
      <4>1. done' = done + 1
        BY <1>1, <1>3, <2>3, <3>3, Facts, ClientAssumption
      <4> QED
        BY <1>1, <1>3, <3>1, <3>2, <3>3, <4>1, Facts, ClientAssumption
           DEF Executions, Delivering, Running, Top
    <3>4. CASE Len(stack) # 1
      <4>1. done' = done
        <5>1. Len(stack) \in Nat /\ Len(stack) >= 1 /\ (Len(stack) > 1 => Top.cmd = test)
          BY <1>1, <1>3, Facts
        <5>2. Len(stack) > 1
          BY <3>4, <5>1
        <5>3. Top.cmd = test
          BY <5>1, <5>2
        <5> QED
          BY <2>3, <5>3
      <4> QED
        BY <1>1, <1>3, <3>1, <3>4, <4>1, Facts, ClientAssumption
           DEF Executions, Delivering
    <3> QED
      BY <3>3, <3>4
  <2>10. Depth'
    BY <1>3, <2>3 DEF IInv, Depth, Top
  <2> QED
    BY <1>1, <1>3, <2>6, <2>7, <2>8, <2>9, <2>10 DEF IInv
<1>6. CASE keys # "current"
  <2>1. wire' = Nothing /\ peer' = "gone" /\ UNCHANGED <<nonce, done>>
    BY <1>6 DEF Handle
  <2>2. TypeOK'
    BY <1>1, <1>3, <2>1 DEF TypeOK, Nothing
  <2>3. Connected' /\ InStep'
    BY <1>3, <2>1 DEF Connected, InStep, Running, Top
  <2>4. Executions'
    <3>1. ~Delivering'
      BY <2>1 DEF Delivering, Nothing
    <3> QED
      BY <1>1, <1>3, <1>4, <2>1, <3>1 DEF IInv, Executions, Nothing, Top
  <2>5. Depth'
    BY <1>3, <1>6 DEF IInv, Depth, Top
  <2> QED
    BY <1>1, <1>3, <2>2, <2>3, <2>4, <2>5 DEF IInv
<1> QED
  BY <1>5, <1>6

(* Only part of the exchange succeeds: the connection stays, out of step.   *)
LEMMA ExchangeFailsKeeps ==
  ASSUME IInv, ExchangeFails
  PROVE  IInv'
<1>1. /\ TypeOK /\ Nested(stack) /\ stack # <<>> /\ Top.pc = "connect" /\ wire = Nothing
  BY DEF IInv, ExchangeFails, Running, Connected, InStep
<1> DEFINE p == IF Top.attempts = 0 THEN "return" ELSE "failed"
<1>2. /\ stack' = WithTop([Top EXCEPT !.pc = p])
      /\ conn' = "set"
      /\ peer' \in {"ready", "gone"}
      /\ keys' = "old"
      /\ nonce' = [nonce EXCEPT !.sr = 0, !.sw = 0]
      /\ faults < MaxFaults
      /\ faults' = faults + 1
      /\ hits' = hits + 1
      /\ UNCHANGED <<wire, up, result, done>>
  BY DEF ExchangeFails, Fault, ConnectFailed
<1>3. p \in Pcs /\ p \in {"return", "failed"}
  BY DEF Pcs
<1> HIDE DEF p
<1>4. /\ stack' \in Seq(Frame)
      /\ stack' # <<>>
      /\ Len(stack') = Len(stack)
      /\ Top'.pc = p
      /\ Nested(stack')
      /\ stack'[Len(stack')].attempts = stack[Len(stack)].attempts
  BY <1>1, <1>2, <1>3, TopMoves
<1>5. TypeOK'
  <2>1. 0 \in Nonces
    BY ClientAssumption DEF Nonces
  <2>2. nonce' \in [w : Nonces, r : Nonces, sw : Nonces, sr : Nonces]
    BY <1>1, <1>2, <2>1 DEF TypeOK
  <2>3. faults' \in 0 .. MaxFaults /\ hits' \in 0 .. faults'
    BY <1>1, <1>2, ClientAssumption DEF TypeOK
  <2> QED
    BY <1>1, <1>2, <1>4, <2>2, <2>3 DEF TypeOK
<1>6. Connected' /\ InStep'
  BY <1>1, <1>2, <1>3, <1>4 DEF Connected, InStep, Running
<1>7. Executions'
  <2>1. ~Delivering' /\ ~Delivering
    BY <1>1, <1>2 DEF Delivering, Nothing
  <2> QED
    BY <1>1, <1>2, <1>4, <2>1, Facts DEF IInv, Executions
<1>8. Depth'
  BY <1>1, <1>2, <1>4, Facts DEF IInv, Depth
<1> QED
  BY <1>4, <1>5, <1>6, <1>7, <1>8 DEF IInv

(* A connection that is lost takes an answer with it, and pays for it. *)
LEMMA LossKeeps ==
  ASSUME IInv, Fault, peer' = "gone", wire' = Nothing, up' \in {"up", "down"},
         UNCHANGED <<stack, conn, keys, nonce, result, done>>
  PROVE  IInv'
<1>1. /\ TypeOK /\ Nested(stack)
      /\ faults < MaxFaults /\ faults' = faults + 1 /\ hits' = hits + 1
  BY DEF IInv, Fault
<1>2. TypeOK'
  <2>1. faults' \in 0 .. MaxFaults /\ hits' \in 0 .. faults'
    BY <1>1, ClientAssumption DEF TypeOK
  <2> QED
    BY <1>1, <2>1 DEF TypeOK, Nothing
<1>3. Connected' /\ InStep'
  BY DEF IInv, Connected, InStep, Running, Top
<1>4. Executions'
  <2>1. ~Delivering'
    BY DEF Delivering, Nothing
  <2>2. /\ done <= 1 + hits
        /\ done <= hits'
        /\ done <= 1 + hits'
    BY <1>1, Facts DEF IInv, Executions
  <2> QED
    BY <1>1, <2>1, <2>2 DEF IInv, Executions, Nothing, Top
<1>5. Depth'
  BY <1>1, Facts DEF IInv, Depth
<1> QED
  BY <1>1, <1>2, <1>3, <1>4, <1>5 DEF IInv

(* A step of the server alone, or none. *)
LEMMA IdleKeeps ==
  ASSUME IInv, up' \in {"up", "down"},
         UNCHANGED <<stack, conn, keys, nonce, peer, wire, result, faults, hits, done>>
  PROVE  IInv'
<1>1. TypeOK'
  BY DEF IInv, TypeOK
<1>2. Nested(stack)' /\ Connected'
  BY DEF IInv, Connected, Running, Top
<1>3. InStep'
  BY DEF IInv, InStep, Asked, Answered, Running, Top
<1>4. Executions' /\ Depth'
  BY DEF IInv, Executions, Delivering, Depth, Running, Top
<1> QED
  BY <1>1, <1>2, <1>3, <1>4 DEF IInv

(* Every step of the client, of the server and of the network keeps the     *)
(* invariant.                                                               *)
LEMMA StepKeeps == IInv /\ [Next]_vars => IInv'
<1> SUFFICES ASSUME IInv, [Next]_vars PROVE IInv'
  OBVIOUS
<1>1. up \in {"up", "down"}
  BY DEF IInv, TypeOK
<1>2. CASE \E c \in Commands : Command(c)
  BY <1>2, CommandKeeps
<1>3. CASE Dial
  BY <1>3, DialKeeps
<1>4. CASE Connect
  BY <1>4, ConnectKeeps
<1>5. CASE Send
  BY <1>5, SendKeeps
<1>6. CASE Receive
  BY <1>6, ReceiveKeeps
<1>7. CASE ReadFails
  BY <1>7, ReadFailsKeeps
<1>8. CASE Reconnect
  BY <1>8, ReconnectKeeps
<1>9. CASE GiveUp
  BY <1>9, GiveUpKeeps
<1>10. CASE Handle
  BY <1>10, HandleKeeps
<1>11. CASE ExchangeFails
  BY <1>11, ExchangeFailsKeeps
<1>12. CASE Break
  BY <1>1, <1>12, LossKeeps DEF Break
<1>13. CASE ServerDown
  BY <1>13, LossKeeps DEF ServerDown
<1>14. CASE ServerUp
  BY <1>14, IdleKeeps DEF ServerUp
<1>15. CASE UNCHANGED vars
  BY <1>1, <1>15, IdleKeeps DEF vars
<1> QED
  BY <1>2, <1>3, <1>4, <1>5, <1>6, <1>7, <1>8, <1>9, <1>10, <1>11, <1>12, <1>13, <1>14,
     <1>15 DEF Next, Client

-----------------------------------------------------------------------------
(* The inductive invariant holds in every state. *)
THEOREM Inductive == Spec => []IInv
<1>1. Init => IInv
  <2> SUFFICES ASSUME Init PROVE IInv
    OBVIOUS
  <2>1. stack = <<>> /\ stack \in Seq(Frame) /\ Len(stack) = 0
    BY DEF Init
  <2>2. 0 \in Nonces
    BY ClientAssumption DEF Nonces
  <2>3. TypeOK
    BY <2>1, <2>2, ClientAssumption DEF Init, TypeOK, NewNonces, Nothing
  <2>4. Nested(stack) /\ Connected /\ InStep
    BY <2>1 DEF Init, Nested, Connected, InStep, Running
  <2>5. Executions /\ Depth
    BY <2>1, ClientAssumption DEF Init, Executions, Delivering, Depth
  <2> QED
    BY <2>3, <2>4, <2>5 DEF IInv
<1> QED
  BY <1>1, StepKeeps, PTL DEF Spec

(* sendCommand never meets a nil conn, however deep tests, failed dials and *)
(* retries are nested, and only the innermost command sends or waits.       *)
THEOREM SendsConnected == Spec => []SendsOnConnection
<1>1. IInv => SendsOnConnection
  <2> SUFFICES ASSUME IInv PROVE SendsOnConnection
    OBVIOUS
  <2>1. ASSUME NEW i \in 1 .. Len(stack), stack[i].pc \in {"send", "wait"}
        PROVE  conn = "set" /\ i = 1
    <3>1. i = 1
      BY <2>1 DEF IInv, TypeOK, Nested
    <3>2. stack # <<>> /\ Top = stack[1]
      BY <2>1, <3>1, TailFacts DEF IInv, TypeOK, Top
    <3> QED
      BY <2>1, <3>1, <3>2 DEF IInv, Connected, Running
  <2> QED
    BY <2>1 DEF IInv, SendsOnConnection
<1> QED
  BY <1>1, Inductive, PTL

(* The server executes a command again only if a failure hit this very      *)
(* call, and never more often than command retries it (client.go:200).      *)
THEOREM RepeatsPaidFor == Spec => []RepeatedOnlyAfterFault
<1>1. IInv => RepeatedOnlyAfterFault
  BY DEF IInv, Executions, RepeatedOnlyAfterFault
<1> QED
  BY <1>1, Inductive, PTL

(* A call that returns without an error has been executed, and an answer    *)
(* that decrypts belongs to the command that waits for it.                  *)
THEOREM OwnAnswer == Spec => []AnswerIsOwn
<1>1. IInv => AnswerIsOwn
  BY AnswerFits DEF IInv, Executions, AnswerIsOwn
<1> QED
  BY <1>1, Inductive, PTL

(* command, reconnect, connect and command nest no deeper than the failures *)
(* that hit the call.                                                       *)
THEOREM DepthBounded == Spec => []DepthBoundedByFaults
<1>1. IInv => DepthBoundedByFaults
  BY DEF IInv, Depth, DepthBoundedByFaults
<1> QED
  BY <1>1, Inductive, PTL

-----------------------------------------------------------------------------
(* The updater that sends its commands through such clients, one for every  *)
(* server: DnsdistSync, for any set of servers, names and addresses.  What  *)
(* the module assumes of its constants is not needed.                       *)

(* What is left to do for a server: nothing is missing that is not going to *)
(* be added, nothing is too much that is not going to be removed, and the   *)
(* commands still to be sent undo none of it.                               *)
Repairing(v, rm, add) ==
  /\ D!FlaggedNames \subseteq D!NamesOf(rules[v]) \cup D!NamesOf(add)
  /\ D!NamesOf(D!Parsed(rules[v])) \subseteq D!FlaggedNames \cup rm
  /\ rm \cap D!FlaggedNames = {}
  /\ add \subseteq D!ReadAll(flagged)

(* Where the goroutine of a server of an undisturbed round is. *)
RoundJob(v) ==
  /\ job[v].pc = "show" => job[v].seen = D!ReadAll(flagged)
  /\ job[v].pc = "read" => job[v].seen = D!Parsed(rules[v])
  /\ job[v].pc = "apply" => Repairing(v, job[v].rm, job[v].add)
  /\ job[v].pc = "done" => D!NamesAgree(v)

(* Nothing disturbs a round that has begun in peace. *)
RoundUndisturbed ==
  \A v \in round : quiet /\ calls = <<>> /\ v \notin down \cup Untracked /\ RoundJob(v)

(* A call that announces a service has its address. *)
Announcements ==
  {c \in [up : BOOLEAN, name : Names, ip : IPs \cup {none}] : c.up => c.ip \in IPs}

(* The inductive invariant of the synchronisation. *)
SyncInv == D!TypeOK /\ calls \in Seq(Announcements) /\ RoundUndisturbed

-----------------------------------------------------------------------------
(* What ReadAll returns are rules. *)
LEMMA ReadAllType ==
  ASSUME NEW f \in [Names -> IPs \cup {none}]
  PROVE  D!ReadAll(f) \subseteq D!Rule
BY DEF D!ReadAll, D!Rule

(* A call is an announcement. *)
LEMMA CallType ==
  ASSUME NEW n \in Names, NEW ip \in IPs \cup {none}, NEW b \in BOOLEAN, b => ip \in IPs
  PROVE  D!Call(b, n, ip) \in Announcements
BY DEF D!Call, Announcements

(* A sequence of one call or of two. *)
LEMMA OneOrTwo ==
  ASSUME NEW S, NEW a \in S, NEW b \in S
  PROVE  /\ <<a>> \in Seq(S) /\ Len(<<a>>) <= 2
         /\ <<a, b>> \in Seq(S) /\ Len(<<a, b>>) <= 2
OBVIOUS

(* The first call, and what is left after it. *)
LEMMA FirstAndRest ==
  ASSUME NEW S, NEW cs \in Seq(S), cs # <<>>
  PROVE  Head(cs) \in S /\ Tail(cs) \in Seq(S) /\ Len(Tail(cs)) <= Len(cs)
OBVIOUS

(* Announcements are calls of the type TypeOK asks for. *)
LEMMA CallsTypeOK ==
  ASSUME NEW cs \in Seq(Announcements)
  PROVE  cs \in Seq([up : BOOLEAN, name : Names, ip : IPs \cup {none}])
<1>1. Announcements \subseteq [up : BOOLEAN, name : Names, ip : IPs \cup {none}]
  BY DEF Announcements
<1> QED
  BY <1>1, SeqMonotonic

(* The types hold initially. *)
LEMMA TypesInit == D!Init => D!TypeOK /\ calls \in Seq(Announcements)
<1> SUFFICES ASSUME D!Init PROVE D!TypeOK /\ calls \in Seq(Announcements)
  OBVIOUS
<1>1. calls \in Seq(Announcements) /\ Len(calls) <= 2
  BY DEF D!Init
<1>2. job \in [Servers -> [pc : {"show", "read", "apply", "done"}, seen : SUBSET D!Rule,
                          rm : SUBSET Names, add : SUBSET D!Rule]]
  BY DEF D!Init, D!Idle
<1> QED
  BY <1>1, <1>2, CallsTypeOK DEF D!Init, D!TypeOK

(* The manager's steps keep the types. *)
LEMMA ManagerTypes ==
  ASSUME D!TypeOK, calls \in Seq(Announcements), D!Manager
  PROVE  D!TypeOK' /\ (calls \in Seq(Announcements))'
<1>1. ASSUME NEW old \in Names, NEW new \in Names, NEW ip \in IPs, D!Promote(old, new, ip)
      PROVE  D!TypeOK' /\ (calls \in Seq(Announcements))'
  <2>1. D!Call(FALSE, old, none) \in Announcements /\ D!Call(TRUE, new, ip) \in Announcements
    BY CallType
  <2>2. /\ <<D!Call(FALSE, old, none), D!Call(TRUE, new, ip)>> \in Seq(Announcements)
        /\ Len(<<D!Call(FALSE, old, none), D!Call(TRUE, new, ip)>>) <= 2
    BY <2>1, OneOrTwo, Zenon
  <2>3. calls' = <<D!Call(FALSE, old, none), D!Call(TRUE, new, ip)>>
    BY <1>1 DEF D!Promote, D!Promise
  <2>4. calls' \in Seq(Announcements) /\ Len(calls') <= 2
    BY <2>2, <2>3, Zenon
  <2> QED
    BY <1>1, <2>4, CallsTypeOK DEF D!Promote, D!Promise, D!TypeOK
<1>2. ASSUME NEW n \in Names, NEW ip \in IPs, D!FirstUp(n, ip)
      PROVE  D!TypeOK' /\ (calls \in Seq(Announcements))'
  <2>1. D!Call(TRUE, n, ip) \in Announcements
    BY CallType
  <2>2. /\ <<D!Call(TRUE, n, ip)>> \in Seq(Announcements)
        /\ Len(<<D!Call(TRUE, n, ip)>>) <= 2
    BY <2>1, OneOrTwo, Zenon
  <2>3. calls' = <<D!Call(TRUE, n, ip)>>
    BY <1>2 DEF D!FirstUp, D!Promise
  <2>4. calls' \in Seq(Announcements) /\ Len(calls') <= 2
    BY <2>2, <2>3, Zenon
  <2> QED
    BY <1>2, <2>4, CallsTypeOK DEF D!FirstUp, D!Promise, D!TypeOK
<1>3. ASSUME NEW n \in Names, D!AllDown(n)
      PROVE  D!TypeOK' /\ (calls \in Seq(Announcements))'
  <2>1. D!Call(FALSE, n, none) \in Announcements
    BY CallType
  <2>2. /\ <<D!Call(FALSE, n, none)>> \in Seq(Announcements)
        /\ Len(<<D!Call(FALSE, n, none)>>) <= 2
    BY <2>1, OneOrTwo, Zenon
  <2>3. calls' = <<D!Call(FALSE, n, none)>>
    BY <1>3 DEF D!AllDown, D!Promise
  <2>4. calls' \in Seq(Announcements) /\ Len(calls') <= 2
    BY <2>2, <2>3, Zenon
  <2> QED
    BY <1>3, <2>4, CallsTypeOK DEF D!AllDown, D!Promise, D!TypeOK
<1>4. ASSUME NEW n \in Names, NEW ip \in IPs \cup {none}, D!Rewrite(n, ip)
      PROVE  D!TypeOK' /\ (calls \in Seq(Announcements))'
  BY <1>4 DEF D!Rewrite, D!TypeOK
<1> QED
  BY <1>1, <1>2, <1>3, <1>4 DEF D!Manager

(* A command leaves every server with rules. *)
LEMMA CommandTypes ==
  ASSUME D!TypeOK, NEW v \in Servers, NEW R \in SUBSET D!Rule, D!Answers(v, R) \/ D!Fails(v, R)
  PROVE  rules' \in [Servers -> SUBSET D!Rule]
BY DEF D!TypeOK, D!Answers, D!Fails, D!Having

(* So does a call of the updater. *)
LEMMA UpdateTypes ==
  ASSUME D!TypeOK, calls \in Seq(Announcements), NEW v \in Servers, D!DNSUpdate(v)
  PROVE  D!TypeOK' /\ (calls \in Seq(Announcements))'
<1> DEFINE c == Head(calls)
<1>1. /\ c \in Announcements
      /\ Tail(calls) \in Seq(Announcements)
      /\ Len(Tail(calls)) <= Len(calls)
  BY FirstAndRest DEF D!DNSUpdate
<1>2. D!Effect(c, v) \in SUBSET D!Rule
  BY <1>1 DEF D!TypeOK, D!Effect, D!Without, D!Rule, Announcements
<1>3. rules' \in [Servers -> SUBSET D!Rule]
  BY <1>2, CommandTypes DEF D!DNSUpdate
<1>4. calls' \in Seq(Announcements) /\ Len(calls') <= 2 /\ todo' \subseteq Servers
  BY <1>1 DEF D!DNSUpdate, D!NextCall, D!TypeOK
<1> QED
  BY <1>3, <1>4, CallsTypeOK DEF D!DNSUpdate, D!TypeOK

(* So do the synchronisation of a server, and everything else. *)
LEMMA SynchronizeTypes ==
  ASSUME D!TypeOK, NEW v \in Servers, D!Synchronize(v)
  PROVE  D!TypeOK'
<1> DEFINE Jobs == [pc : {"show", "read", "apply", "done"}, seen : SUBSET D!Rule,
                    rm : SUBSET Names, add : SUBSET D!Rule]
<1>1. job \in [Servers -> Jobs] /\ rules \in [Servers -> SUBSET D!Rule]
  BY DEF D!TypeOK
<1>2. D!Idle \in Jobs
  BY DEF D!Idle
<1>3. SUFFICES /\ rules' \in [Servers -> SUBSET D!Rule]
               /\ \E r \in Jobs : job' = [job EXCEPT ![v] = r]
  <2>1. job' \in [Servers -> Jobs]
    BY <1>1, <1>3
  <2>2. UNCHANGED <<flagged, down, calls, todo, quiet, round>>
    BY DEF D!Synchronize, D!ShowRules, D!Reconcile, D!RmRule, D!AddRule, D!Reconciled
  <2> QED
    BY <1>3, <2>1, <2>2 DEF D!TypeOK
<1>4. PICK j \in Jobs : j = job[v]
  BY <1>1
<1>5. CASE D!ShowRules(v)
  <2>1. D!Parsed(rules[v]) \in SUBSET D!Rule
    BY <1>1 DEF D!Parsed
  <2>2. [j EXCEPT !.pc = "read", !.seen = D!Parsed(rules[v])] \in Jobs
    BY <2>1
  <2>3. \/ job' = [job EXCEPT ![v] = D!Idle]
        \/ job' = [job EXCEPT ![v] = [j EXCEPT !.pc = "read", !.seen = D!Parsed(rules[v])]]
    BY <1>4, <1>5 DEF D!ShowRules
  <2> QED
    BY <1>1, <1>2, <1>5, <2>2, <2>3 DEF D!ShowRules
<1>6. CASE D!Reconcile(v)
  <2>1. D!ReadAll(flagged) \subseteq D!Rule
    BY ReadAllType DEF D!TypeOK
  <2>2. D!Missing(j.seen, D!ReadAll(flagged)) \in SUBSET D!Rule
    BY <2>1 DEF D!Missing
  <2>3. D!Superfluous(j.seen, D!ReadAll(flagged)) \in SUBSET Names
    BY DEF D!Superfluous, D!NamesOf, D!Rule
  <2> QED
    BY <1>1, <1>4, <1>6, <2>2, <2>3 DEF D!Reconcile
<1>7. CASE D!RmRule(v)
  <2>1. \A n : D!Without(rules[v], n) \in SUBSET D!Rule
    BY <1>1 DEF D!Without
  <2>2. rules' \in [Servers -> SUBSET D!Rule]
    BY <1>7, <2>1, CommandTypes DEF D!RmRule
  <2>3. \/ job' = [job EXCEPT ![v] = D!Idle]
        \/ \E n : job' = [job EXCEPT ![v] = [j EXCEPT !.rm = @ \ {n}]]
    BY <1>4, <1>7 DEF D!RmRule
  <2>4. \A n : [j EXCEPT !.rm = @ \ {n}] \in Jobs
    OBVIOUS
  <2> QED
    BY <1>2, <2>2, <2>3, <2>4
<1>8. CASE D!AddRule(v)
  <2>1. \A r \in job[v].add : rules[v] \cup {r} \in SUBSET D!Rule
    BY <1>1
  <2>2. rules' \in [Servers -> SUBSET D!Rule]
    BY <1>8, <2>1, CommandTypes DEF D!AddRule
  <2>3. \/ job' = [job EXCEPT ![v] = D!Idle]
        \/ \E r : job' = [job EXCEPT ![v] = [j EXCEPT !.add = @ \ {r}]]
    BY <1>4, <1>8 DEF D!AddRule
  <2>4. \A r : [j EXCEPT !.add = @ \ {r}] \in Jobs
    OBVIOUS
  <2> QED
    BY <1>2, <2>2, <2>3, <2>4
<1>9. CASE D!Reconciled(v)
  BY <1>1, <1>2, <1>9 DEF D!Reconciled
<1> QED
  BY <1>5, <1>6, <1>7, <1>8, <1>9 DEF D!Synchronize

(* Every step keeps the types. *)
LEMMA TypesNext ==
  ASSUME D!TypeOK, calls \in Seq(Announcements), [D!Next]_(D!vars)
  PROVE  D!TypeOK' /\ (calls \in Seq(Announcements))'
<1>1. CASE D!Manager
  BY <1>1, ManagerTypes
<1>2. ASSUME NEW v \in Servers, D!DNSUpdate(v)
      PROVE  D!TypeOK' /\ (calls \in Seq(Announcements))'
  BY <1>2, UpdateTypes
<1>3. CASE D!SyncStart
  <2>1. D!ReadAll(flagged) \subseteq D!Rule
    BY ReadAllType DEF D!TypeOK
  <2> QED
    BY <1>3, <2>1 DEF D!SyncStart, D!TypeOK, D!Idle, D!Start
<1>4. ASSUME NEW v \in Servers, D!Synchronize(v)
      PROVE  D!TypeOK' /\ (calls \in Seq(Announcements))'
  <2>1. calls' = calls
    BY <1>4 DEF D!Synchronize, D!ShowRules, D!Reconcile, D!RmRule, D!AddRule, D!Reconciled
  <2> QED
    BY <1>4, <2>1, SynchronizeTypes
<1>5. ASSUME NEW v \in Servers, D!ServerDown(v) \/ D!ServerUp(v)
      PROVE  D!TypeOK' /\ (calls \in Seq(Announcements))'
  BY <1>5 DEF D!ServerDown, D!ServerUp, D!TypeOK
<1>6. CASE D!Restart
  <2>1. calls' \in Seq(Announcements) /\ Len(calls') <= 2
    BY <1>6 DEF D!Restart
  <2> QED
    BY <1>6, <2>1, CallsTypeOK DEF D!Restart, D!TypeOK, D!Idle
<1>7. CASE D!Settle \/ UNCHANGED D!vars
  BY <1>7 DEF D!Settle, D!vars, D!TypeOK
<1> QED
  BY <1>1, <1>2, <1>3, <1>4, <1>5, <1>6, <1>7 DEF D!Next

-----------------------------------------------------------------------------
(* Equal hashes: the names agree. *)
LEMMA SameHashAgrees ==
  ASSUME NEW v \in Servers, D!Parsed(rules[v]) = D!ReadAll(flagged)
  PROVE  D!NamesAgree(v)
BY DEF D!NamesAgree, D!FlaggedNames, D!NamesOf, D!Parsed

(* reconcileServer finds every difference there is. *)
LEMMA ReconcileFindsAll ==
  ASSUME NEW v \in Servers
  PROVE  Repairing(v, D!Superfluous(D!Parsed(rules[v]), D!ReadAll(flagged)),
                      D!Missing(D!Parsed(rules[v]), D!ReadAll(flagged)))
BY DEF Repairing, D!Superfluous, D!Missing, D!FlaggedNames, D!NamesOf, D!Parsed

(* An RmRule that is answered leaves less to do. *)
LEMMA RemovalRepairs ==
  ASSUME NEW v \in Servers, NEW rm, NEW add, NEW n \in rm, Repairing(v, rm, add),
         rules'[v] = D!Without(rules[v], n), flagged' = flagged
  PROVE  Repairing(v, rm \ {n}, add)'
BY DEF Repairing, D!FlaggedNames, D!NamesOf, D!Parsed, D!Without, D!ReadAll

(* So does an AddRule. *)
LEMMA AdditionRepairs ==
  ASSUME NEW v \in Servers, NEW rm, NEW add, NEW r \in add, Repairing(v, rm, add),
         rules'[v] = rules[v] \cup {r}, flagged' = flagged
  PROVE  Repairing(v, rm, add \ {r})'
BY DEF Repairing, D!FlaggedNames, D!NamesOf, D!Parsed, D!ReadAll

(* When nothing is left to do, the names agree. *)
LEMMA RepairedAgrees ==
  ASSUME NEW v \in Servers, Repairing(v, {}, {})
  PROVE  D!NamesAgree(v)
BY DEF Repairing, D!NamesAgree, D!NamesOf

(* What another server does, and what happens to it, is no matter to v. *)
LEMMA RoundJobFrame ==
  ASSUME NEW v \in Servers, RoundJob(v),
         flagged' = flagged, rules'[v] = rules[v], job'[v] = job[v]
  PROVE  RoundJob(v)'
BY DEF RoundJob, Repairing, D!NamesAgree, D!FlaggedNames

(* Its own goroutine brings a server that answers on its way. *)
LEMMA RoundJobStep ==
  ASSUME D!TypeOK, NEW v \in Servers, v \notin down \cup Untracked, RoundJob(v), D!Synchronize(v)
  PROVE  RoundJob(v)'
<1> USE DEF D!TypeOK
<1>1. flagged' = flagged
  BY DEF D!Synchronize, D!ShowRules, D!Reconcile, D!RmRule, D!AddRule, D!Reconciled
<1>2. CASE D!ShowRules(v)
  <2>1. rules' = rules /\ job[v].seen = D!ReadAll(flagged)
    BY <1>2 DEF D!ShowRules, RoundJob
  <2>2. CASE D!Parsed(rules[v]) = D!ReadAll(flagged)
    <3>1. job'[v] = D!Idle
      BY <1>2, <2>1, <2>2 DEF D!ShowRules, D!SameHash
    <3>2. D!NamesAgree(v)'
      BY <1>1, <2>1, <2>2, SameHashAgrees DEF D!NamesAgree, D!FlaggedNames
    <3> QED
      BY <3>1, <3>2 DEF RoundJob, D!Idle
  <2>3. CASE D!Parsed(rules[v]) # D!ReadAll(flagged)
    <3>1. job'[v].pc = "read" /\ job'[v].seen = D!Parsed(rules[v])
      BY <1>2, <2>1, <2>3 DEF D!ShowRules, D!SameHash
    <3> QED
      BY <2>1, <3>1 DEF RoundJob
  <2> QED
    BY <2>2, <2>3
<1>3. CASE D!Reconcile(v)
  <2>1. rules' = rules /\ job[v].seen = D!Parsed(rules[v])
    BY <1>3 DEF D!Reconcile, RoundJob
  <2>2. PICK rm, add : /\ rm = D!Superfluous(D!Parsed(rules[v]), D!ReadAll(flagged))
                       /\ add = D!Missing(D!Parsed(rules[v]), D!ReadAll(flagged))
    OBVIOUS
  <2>3. job'[v].pc = "apply" /\ job'[v].rm = rm /\ job'[v].add = add
    BY <1>3, <2>1, <2>2 DEF D!Reconcile
  <2>4. Repairing(v, rm, add)
    BY <2>2, ReconcileFindsAll
  <2>5. Repairing(v, rm, add)'
    BY <1>1, <2>1, <2>4 DEF Repairing, D!FlaggedNames
  <2> QED
    BY <2>3, <2>5 DEF RoundJob
<1>4. CASE D!RmRule(v)
  <2>1. PICK rm, add : rm = job[v].rm /\ add = job[v].add
    OBVIOUS
  <2>2. PICK n \in rm : /\ D!Answers(v, D!Without(rules[v], n))
                        /\ job' = [job EXCEPT ![v].rm = @ \ {n}]
    BY <1>4, <2>1 DEF D!RmRule, D!Fails
  <2>3. rules'[v] = D!Without(rules[v], n)
    BY <2>2 DEF D!Answers, D!Having
  <2>4. Repairing(v, rm, add)
    BY <1>4, <2>1 DEF RoundJob, D!RmRule
  <2>5. Repairing(v, rm \ {n}, add)'
    BY <1>1, <2>3, <2>4, RemovalRepairs
  <2>6. job'[v].pc = "apply" /\ job'[v].rm = rm \ {n} /\ job'[v].add = add
    BY <1>4, <2>1, <2>2 DEF D!RmRule
  <2> QED
    BY <2>5, <2>6 DEF RoundJob
<1>5. CASE D!AddRule(v)
  <2>1. PICK rm, add : rm = job[v].rm /\ add = job[v].add
    OBVIOUS
  <2>2. PICK r \in add : /\ D!Answers(v, rules[v] \cup {r})
                         /\ job' = [job EXCEPT ![v].add = @ \ {r}]
    BY <1>5, <2>1 DEF D!AddRule, D!Fails
  <2>3. rules'[v] = rules[v] \cup {r}
    BY <2>2 DEF D!Answers, D!Having
  <2>4. Repairing(v, rm, add)
    BY <1>5, <2>1 DEF RoundJob, D!AddRule
  <2>5. Repairing(v, rm, add \ {r})'
    BY <1>1, <2>3, <2>4, AdditionRepairs
  <2>6. job'[v].pc = "apply" /\ job'[v].rm = rm /\ job'[v].add = add \ {r}
    BY <1>5, <2>1, <2>2 DEF D!AddRule
  <2> QED
    BY <2>5, <2>6 DEF RoundJob
<1>6. CASE D!Reconciled(v)
  <2>1. D!NamesAgree(v) /\ rules' = rules
    BY <1>6, RepairedAgrees DEF D!Reconciled, RoundJob
  <2>2. D!NamesAgree(v)'
    BY <1>1, <2>1 DEF D!NamesAgree, D!FlaggedNames
  <2> QED
    BY <1>6, <2>2 DEF RoundJob, D!Reconciled, D!Idle
<1> QED
  BY <1>2, <1>3, <1>4, <1>5, <1>6 DEF D!Synchronize

(* The other goroutines leave the server alone. *)
LEMMA OthersSynchronize ==
  ASSUME D!TypeOK, NEW v \in Servers, NEW w \in Servers, v # w, D!Synchronize(w)
  PROVE  flagged' = flagged /\ rules'[v] = rules[v] /\ job'[v] = job[v]
BY DEF D!TypeOK, D!Synchronize, D!ShowRules, D!Reconcile, D!RmRule, D!AddRule, D!Reconciled,
       D!Answers, D!Fails, D!Having

(* No step disturbs a round. *)
LEMMA RoundNext ==
  ASSUME D!TypeOK, RoundUndisturbed, [D!Next]_(D!vars)
  PROVE  RoundUndisturbed'
<1>1. CASE D!SyncStart
  <2> SUFFICES ASSUME NEW v \in round'
               PROVE  (quiet /\ calls = <<>> /\ v \notin down \cup Untracked /\ RoundJob(v))'
    BY DEF RoundUndisturbed
  <2>1. quiet /\ calls = <<>> /\ v \in Servers \ (down \cup Untracked)
    BY <1>1 DEF D!SyncStart
  <2>2. job'[v] = D!Start(flagged) /\ flagged' = flagged
    BY <1>1, <2>1 DEF D!SyncStart
  <2>3. RoundJob(v)'
    BY <2>2 DEF RoundJob, D!Start, D!Idle
  <2> QED
    BY <1>1, <2>1, <2>3 DEF D!SyncStart
<1> SUFFICES ASSUME ~ D!SyncStart, NEW v \in round'
             PROVE  (quiet /\ calls = <<>> /\ v \notin down \cup Untracked /\ RoundJob(v))'
  BY <1>1 DEF RoundUndisturbed
<1>2. round' = round
  BY DEF D!Next, D!Manager, D!Promote, D!FirstUp, D!AllDown, D!Rewrite, D!DNSUpdate, D!Synchronize, D!ShowRules,
         D!Reconcile, D!RmRule, D!AddRule, D!Reconciled, D!ServerDown, D!ServerUp, D!Restart, D!Settle, D!vars
<1>3. /\ v \in Servers /\ quiet /\ calls = <<>>
      /\ v \notin down \cup Untracked /\ RoundJob(v)
  BY <1>2 DEF RoundUndisturbed, D!TypeOK
<1>4. ASSUME NEW w \in Servers, D!Synchronize(w)
      PROVE  (quiet /\ calls = <<>> /\ v \notin down \cup Untracked /\ RoundJob(v))'
  <2>1. UNCHANGED <<quiet, calls, down>>
    BY <1>4 DEF D!Synchronize, D!ShowRules, D!Reconcile, D!RmRule, D!AddRule, D!Reconciled
  <2>2. RoundJob(v)'
    BY <1>3, <1>4, RoundJobStep, OthersSynchronize, RoundJobFrame
  <2> QED
    BY <1>3, <2>1, <2>2
<1>5. ASSUME NEW w \in Servers, D!ServerUp(w)
      PROVE  (quiet /\ calls = <<>> /\ v \notin down \cup Untracked /\ RoundJob(v))'
  BY <1>3, <1>5, RoundJobFrame DEF D!ServerUp
<1>6. CASE UNCHANGED D!vars
  BY <1>3, <1>6, RoundJobFrame DEF D!vars
<1>7. ~ D!Manager /\ ~ D!Restart /\ ~ D!Settle /\ \A w \in Servers : ~ D!DNSUpdate(w) /\ ~ D!ServerDown(w)
  BY <1>3 DEF D!Manager, D!Promote, D!FirstUp, D!AllDown, D!Rewrite, D!Restart, D!Settle, D!DNSUpdate, D!ServerDown
<1> QED
  BY <1>4, <1>5, <1>6, <1>7 DEF D!Next

(* The first synchronisation that nothing disturbs leaves every server that *)
(* answered with the names flagged in the repository and, among those       *)
(* ParseRuleSet can read, no others: whatever rules it had, whatever order  *)
(* the goroutines run in, for any set of servers, names and addresses.      *)
THEOREM SyncRoundRepairs == SyncSpec => []RoundRepairs
<1>1. D!Init => SyncInv
  BY TypesInit DEF D!Init, SyncInv, RoundUndisturbed
<1>2. SyncInv /\ [D!Next]_(D!vars) => SyncInv'
  BY TypesNext, RoundNext DEF SyncInv
<1>3. SyncInv => RoundRepairs
  BY DEF RoundRepairs, SyncInv, RoundUndisturbed, RoundJob, D!RoundRepairs
<1> QED
  BY <1>1, <1>2, <1>3, PTL DEF SyncSpec, D!Spec

=============================================================================
