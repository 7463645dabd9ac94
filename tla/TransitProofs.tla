---------------------------- MODULE TransitProofs ----------------------------
(***************************************************************************)
(* Theorems about module Transit, for any number of clients, tokens and    *)
(* lines.                                                                  *)
(*                                                                         *)
(* Who is whose Buddy may change at any time, and under a running Pipe.    *)
(* What holds of every pair of clients ever connected is that they are     *)
(* mates (TokenInv).  A line is read once and is newer than all that was   *)
(* piped before (LineInv).  And a client that has closed itself has chosen *)
(* the Buddy it will close: one that is connected with it later finds its  *)
(* conn nil and panics before it releases the lock (BuddyInv).             *)
(*                                                                         *)
(* With the first two, and the fact that no client is matched with itself  *)
(* (SelfInv), each step is one of TransitWire, or none of it.              *)
(***************************************************************************)
EXTENDS Transit, TLAPS

Bonding == {"bond", "ok", "bondself", "okself"}

\* By what the peers ask for, h, the two name one token, and two sides if
\* both name one.
Mates(h, c, d) ==
  /\ h[c].token # None /\ h[c].token = h[d].token
  /\ h[c].side # None /\ h[d].side # None => h[c].side # h[d].side

ConnInv(c) ==
  /\ gotToken[c] => Token(c) # None
  /\ pc[c] \in Bonding \cup {"token", "pipe", "write"} => gotToken[c]
  /\ pc[c] \in Bonding =>
       match[c] \in Conns /\ gotToken[match[c]] /\ Mates(hello, c, match[c])
  /\ pc[c] = "pipe" => buddy[c] # None
  /\ pc[c] = "write" => dest[c] \in Conns /\ Mates(hello, c, dest[c])
  /\ buddy[c] # None => Mates(hello, c, buddy[c])
  /\ sentOK[c] => gotToken[c]

PendingInv ==
  \A t \in Tokens : pending[t] # None =>
    Token(pending[t]) = t /\ gotToken[pending[t]]

PipedToMates ==
  \A d \in Conns : \A i \in DOMAIN got[d] : Mates(hello, got[d][i].from, d)

TokenInv == (\A c \in Conns : ConnInv(c)) /\ PendingInv /\ PipedToMates

\* A client deals with a line.
Dealing == {"handle", "pipe", "write"}

LineOf(c) ==
  /\ line[c] <= seen[c]
  /\ gotToken[c] => seen[c] >= 1
  /\ pc[c] \in Dealing <=> line[c] >= 1
  /\ pc[c] \in Dealing /\ gotToken[c] => line[c] > 1

\* A line that was written, e, is older than what its sender deals with.
Older(e) ==
  /\ e.line <= seen[e.from]
  /\ pc[e.from] \in Dealing => e.line < line[e.from]

PipedIsOlder ==
  \A d \in Conns : \A j \in DOMAIN got[d] : Older(got[d][j])

LineInv == (\A c \in Conns : LineOf(c)) /\ PipedIsOlder /\ PipedInOrder

TInv == TypeOK /\ TokenInv /\ LineInv

-----------------------------------------------------------------------------
(* Types. *)

LEMMA AppendType ==
  ASSUME NEW S, NEW s \in Seq(S), NEW x \in S
  PROVE  Append(s, x) \in Seq(S)
OBVIOUS

\* What is written to b goes to the end, and to nobody else.
Appended(b, x) ==
  /\ \A d \in Conns \ {b} : got'[d] = got[d]
  /\ \A i \in DOMAIN got[b] : got'[b][i] = got[b][i]
  /\ \A i \in DOMAIN got'[b] :
       /\ 1 .. i - 1 \subseteq DOMAIN got[b]
       /\ i \in DOMAIN got[b] \/ got'[b][i] = x

LEMMA Written ==
  ASSUME TypeOK, NEW b \in Conns, NEW x,
         got' = [got EXCEPT ![b] = Append(got[b], x)]
  PROVE  Appended(b, x)
<1> DEFINE S == [from : Conns, line : 1 .. MaxLines]
<1>1. got \in [Conns -> Seq(S)]
  BY DEF TypeOK
<1> HIDE DEF S
<1>2. got'[b] = Append(got[b], x) /\ got[b] \in Seq(S)
  BY <1>1
<1>3. /\ \A i \in DOMAIN got[b] : Append(got[b], x)[i] = got[b][i]
      /\ \A i \in DOMAIN Append(got[b], x) :
           /\ 1 .. i - 1 \subseteq DOMAIN got[b]
           /\ i \in DOMAIN got[b] \/ Append(got[b], x)[i] = x
  BY <1>2
<1> QED
  BY <1>1, <1>2, <1>3 DEF Appended

LEMMA WrittenType ==
  ASSUME TypeOK, NEW d \in Conns, NEW j \in DOMAIN got[d]
  PROVE  got[d][j].from \in Conns /\ got[d][j].line \in Nat
<1> DEFINE S == [from : Conns, line : 1 .. MaxLines]
<1>1. got \in [Conns -> Seq(S)]
  BY DEF TypeOK
<1>2. got[d][j] \in S
  <2> HIDE DEF S
  <2> QED
    BY <1>1
<1> QED
  BY <1>2, TransitAssumption

\* A line is written to an open socket, or is gone.
LEMMA WriteGot ==
  ASSUME TypeOK, NEW c \in Conns, Write(c)
  PROVE  LET d   == dest[c]
             new == [from |-> c, line |-> line[c]]
         IN  IF sock[d] = "open"
               THEN got' = [got EXCEPT ![d] = Append(got[d], new)]
               ELSE got' = got
<1> DEFINE d == dest[c]
           new == [from |-> c, line |-> line[c]]
<1>1. got' = [got EXCEPT ![d] = IF sock[d] = "open" THEN Append(got[d], new)
                                                    ELSE got[d]]
  BY DEF Write
<1>2. got = [x \in Conns |-> got[x]]
  BY DEF TypeOK
<1>3. ASSUME sock[d] = "open" PROVE got' = [got EXCEPT ![d] = Append(got[d], new)]
  <2> HIDE DEF d, new
  <2> QED
    BY <1>1, <1>3
<1>4. ASSUME sock[d] # "open" PROVE got' = got
  <2> HIDE DEF d, new
  <2> QED
    BY <1>1, <1>2, <1>4
<1> QED
  BY <1>3, <1>4

LEMMA InitTInv == Init => TInv
<1> SUFFICES ASSUME Init PROVE TInv
  OBVIOUS
<1>1. TypeOK
  <2>1. got \in [Conns -> Seq([from : Conns, line : 1 .. MaxLines])]
    <3>1. <<>> \in Seq([from : Conns, line : 1 .. MaxLines])
      OBVIOUS
    <3> QED
      BY <3>1 DEF Init
  <2>2. /\ seen \in [Conns -> 0 .. MaxLines] /\ line \in [Conns -> 0 .. MaxLines]
        /\ pending \in [Tokens -> Conns \cup {None}] /\ lock \in Conns \cup {None}
    BY TransitAssumption DEF Init
  <2> QED
    BY <2>1, <2>2 DEF Init, TypeOK
<1>2. TokenInv
  BY DEF Init, TokenInv, ConnInv, PendingInv, PipedToMates, Bonding
<1>3. LineInv
  BY TransitAssumption
  DEF Init, LineInv, LineOf, PipedIsOlder, PipedInOrder, Dealing
<1> QED
  BY <1>1, <1>2, <1>3 DEF TInv

LEMMA TypeNext ==
  ASSUME TInv, [Next]_vars
  PROVE  TypeOK'
<1> USE TransitAssumption DEF TInv, TypeOK, At, Goto, Panic, fields
<1>1. CASE UNCHANGED vars
  BY <1>1 DEF vars
<1>2. ASSUME NEW c \in Conns, Cut(c) PROVE TypeOK'
  BY <1>2 DEF Cut
<1>3. ASSUME NEW c \in Conns, NewReader(c) PROVE TypeOK'
  BY <1>3 DEF NewReader
<1>4. ASSUME NEW c \in Conns, ReadLine(c) PROVE TypeOK'
  <2>1. PICK n \in seen[c] + 1 .. MaxLines : seen' = [seen EXCEPT ![c] = n]
    BY <1>4 DEF ReadLine
  <2>2. seen[c] + 1 \in 0 .. MaxLines /\ n \in 0 .. MaxLines
    BY <2>1
  <2> QED
    BY <1>4, <2>1, <2>2 DEF ReadLine
<1>5. ASSUME NEW c \in Conns, ReadFails(c) PROVE TypeOK'
  BY <1>5 DEF ReadFails
<1>6. ASSUME NEW c \in Conns, Handle(c) PROVE TypeOK'
  <2>1. PICK step \in {"pipe", "close", "impatient", "token"} :
          pc' = [pc EXCEPT ![c] = step]
    BY <1>6 DEF Handle
  <2>2. gotToken' \in [Conns -> BOOLEAN]
    BY <1>6 DEF Handle
  <2>3. line' \in [Conns -> 0 .. MaxLines]
    <3>1. line' = [line EXCEPT ![c] = IF pc'[c] = "pipe" THEN line[c] ELSE 0]
      BY <1>6 DEF Handle
    <3>2. (IF pc'[c] = "pipe" THEN line[c] ELSE 0) \in 0 .. MaxLines
      OBVIOUS
    <3> QED
      BY <3>1, <3>2
  <2>4. UNCHANGED <<hello, seen, target, match, dest, sock, isNil, sentOK, buddy,
                    pending, lock, died, got>>
    BY <1>6 DEF Handle
  <2> QED
    BY <2>1, <2>2, <2>3, <2>4
<1>7. ASSUME NEW c \in Conns, Pipe(c) PROVE TypeOK'
  <2>1. buddy[c] \in Conns
    BY <1>7 DEF Pipe, TokenInv, ConnInv
  <2> QED
    BY <1>7, <2>1 DEF Pipe
<1>17. ASSUME NEW c \in Conns, Write(c) PROVE TypeOK'
  <2>1. dest[c] \in Conns /\ line[c] \in 1 .. MaxLines
    BY <1>17 DEF Write, TokenInv, ConnInv, LineInv, LineOf, Dealing
  <2>2. got' \in [Conns -> Seq([from : Conns, line : 1 .. MaxLines])]
    <3> DEFINE new == [from |-> c, line |-> line[c]]
               d == dest[c]
    <3>1. new \in [from : Conns, line : 1 .. MaxLines]
      BY <2>1
    <3>2. Append(got[d], new) \in Seq([from : Conns, line : 1 .. MaxLines])
      BY <2>1, <3>1, AppendType
    <3>3. got' = got \/ got' = [got EXCEPT ![d] = Append(got[d], new)]
      BY <1>17, WriteGot
    <3> QED
      BY <2>1, <3>2, <3>3
  <2>3. /\ dest' = [dest EXCEPT ![c] = None] /\ line' = [line EXCEPT ![c] = 0]
        /\ pc' = [pc EXCEPT ![c] = "top"]
        /\ UNCHANGED <<hello, seen, target, match, sock, isNil, gotToken, sentOK,
                       buddy, pending, lock, died>>
    BY <1>17 DEF Write
  <2>4. line' \in [Conns -> 0 .. MaxLines]
    BY <2>3
  <2>5. dest' \in [Conns -> Conns \cup {None}]
    BY <2>3
  <2>6. pc' = [pc EXCEPT ![c] = "top"]
        /\ UNCHANGED <<hello, seen, target, match, sock, isNil, gotToken, sentOK,
                       buddy, pending, lock, died>>
    BY <2>3
  <2> QED
    BY <2>2, <2>4, <2>5, <2>6
<1>8. ASSUME NEW c \in Conns, Impatient(c) PROVE TypeOK'
  BY <1>8 DEF Impatient
<1>9. ASSUME NEW c \in Conns, Wait(c) PROVE TypeOK'
  BY <1>9 DEF Wait
<1>10. ASSUME NEW c \in Conns, Match(c) PROVE TypeOK'
  <2>1. Token(c) \in Tokens
    BY <1>10 DEF Match, TokenInv, ConnInv, Bonding, Token, Hellos
  <2> QED
    BY <1>10, <2>1 DEF Match
<1>11. ASSUME NEW c \in Conns, Bond(c) PROVE TypeOK'
  <2>1. match[c] \in Conns
    BY <1>11 DEF Bond, TokenInv, ConnInv, Bonding
  <2>2. buddy' \in [Conns -> Conns \cup {None}]
    <3>1. \/ buddy' = [buddy EXCEPT ![match[c]] = c]
          \/ buddy' = [buddy EXCEPT ![c] = match[c]]
      BY <1>11 DEF Bond
    <3> QED
      BY <2>1, <3>1
  <2>3. pc' = [pc EXCEPT ![c] = "ok"] \/ pc' = [pc EXCEPT ![c] = "okself"]
    BY <1>11 DEF Bond
  <2> QED
    <3>1. UNCHANGED <<hello, seen, line, target, match, dest, sock, isNil,
                      gotToken, sentOK, pending, lock, died, got>>
      BY <1>11 DEF Bond
    <3> QED
      BY <2>2, <2>3, <3>1
<1>12. ASSUME NEW c \in Conns, OkMatch(c) PROVE TypeOK'
  BY <1>12 DEF OkMatch
<1>13. ASSUME NEW c \in Conns, OkSelf(c) PROVE TypeOK'
  <2>1. CASE isNil[c]
    BY <1>13, <2>1 DEF OkSelf
  <2>2. CASE ~isNil[c]
    <3>1. /\ sentOK' = [sentOK EXCEPT ![c] = TRUE]
          /\ pending' = [pending EXCEPT ![Token(c)] = c]
          /\ lock' = None
          /\ match' = [match EXCEPT ![c] = None]
          /\ pc' = [pc EXCEPT ![c] = "top"]
          /\ UNCHANGED <<died, hello, seen, line, target, dest, sock, isNil,
                         gotToken, buddy, got>>
      BY <1>13, <2>2 DEF OkSelf
    <3>2. pending' \in [Tokens -> Conns \cup {None}] /\ sentOK' \in [Conns -> BOOLEAN]
      BY <3>1
    <3> QED
      BY <3>1, <3>2
  <2> QED
    BY <2>1, <2>2
<1>14. ASSUME NEW c \in Conns, Close(c) PROVE TypeOK'
  BY <1>14 DEF Close
<1>15. ASSUME NEW c \in Conns, Shut(c) PROVE TypeOK'
  BY <1>15 DEF Shut
<1>18. ASSUME NEW c \in Conns, Unset(c) PROVE TypeOK'
  BY <1>18 DEF Unset
<1>16. ASSUME NEW c \in Conns, CloseBuddy(c) PROVE TypeOK'
  <2>1. UNCHANGED <<hello, seen, line, match, dest, sock, isNil, gotToken,
                    sentOK, buddy, pending, lock, died, got>>
    BY <1>16 DEF CloseBuddy
  <2>2. pc' = [pc EXCEPT ![c] = "close"] \/ pc' = [pc EXCEPT ![c] = "gone"]
    BY <1>16 DEF CloseBuddy
  <2>3. target' \in [Conns -> Conns]
    <3>1. PICK x \in Conns : target' = [target EXCEPT ![c] = x]
      BY <1>16 DEF CloseBuddy
    <3> QED
      BY <3>1
  <2> QED
    BY <2>1, <2>2, <2>3
<1> QED
  BY <1>1, <1>2, <1>3, <1>4, <1>5, <1>6, <1>7, <1>8, <1>9, <1>10, <1>11,
     <1>12, <1>13, <1>14, <1>15, <1>16, <1>17, <1>18
  DEF Next, Step, ServerStep

-----------------------------------------------------------------------------
(* Who is connected with whom. *)

LEMMA MatesSymmetric ==
  ASSUME NEW h, NEW c, NEW d, Mates(h, c, d)
  PROVE  Mates(h, d, c)
BY DEF Mates

LEMMA TokenNext ==
  ASSUME TInv, [Next]_vars
  PROVE  TokenInv'
<1> USE TransitAssumption DEF TInv, TypeOK, TokenInv, ConnInv, PendingInv,
          PipedToMates, At, Goto, fields, Bonding, Token
<1>1. CASE UNCHANGED vars
  BY <1>1 DEF vars
<1>2. ASSUME NEW c \in Conns, Cut(c) PROVE TokenInv'
  BY <1>2 DEF Cut
<1>3. ASSUME NEW c \in Conns, NewReader(c) PROVE TokenInv'
  BY <1>3 DEF NewReader
<1>4. ASSUME NEW c \in Conns, ReadLine(c) PROVE TokenInv'
  BY <1>4 DEF ReadLine
<1>5. ASSUME NEW c \in Conns, ReadFails(c) PROVE TokenInv'
  BY <1>5 DEF ReadFails
<1>6. ASSUME NEW c \in Conns, Handle(c) PROVE TokenInv'
  <2>0. \A d \in Conns : gotToken[d] => gotToken'[d]
    <3>1. \/ gotToken' = gotToken
          \/ ~gotToken[c] /\ gotToken' = [gotToken EXCEPT ![c] = Token(c) # None]
      BY <1>6, Zenon DEF Handle
    <3>2. CASE gotToken' = gotToken
      BY <3>2
    <3>3. CASE ~gotToken[c] /\ gotToken' = [gotToken EXCEPT ![c] = Token(c) # None]
      <4>1. \A d \in Conns : d # c => gotToken'[d] = gotToken[d]
        BY <3>3
      <4>2. \A d \in Conns : gotToken[d] => d # c
        BY <3>3
      <4> QED
        BY <4>1, <4>2
    <3> QED
      BY <3>1, <3>2, <3>3
  <2>1. ASSUME NEW d \in Conns, d # c PROVE ConnInv(d)'
    BY <1>6, <2>0, <2>1 DEF Handle
  <2>2. ConnInv(c)'
    <3>1. CASE sentOK[c]
      <4>1. /\ UNCHANGED <<hello, match, dest, gotToken, sentOK, buddy>>
            /\ \/ pc' = [pc EXCEPT ![c] = "close"]
               \/ buddy[c] # None /\ pc' = [pc EXCEPT ![c] = "pipe"]
        BY <1>6, <3>1 DEF Handle
      <4> QED
        BY <3>1, <4>1
    <3>2. CASE ~sentOK[c] /\ gotToken[c]
      <4>1. /\ UNCHANGED <<hello, match, dest, gotToken, sentOK, buddy>>
            /\ pc' = [pc EXCEPT ![c] = "impatient"]
        BY <1>6, <3>2 DEF Handle
      <4> QED
        BY <3>2, <4>1
    <3>3. CASE ~sentOK[c] /\ ~gotToken[c]
      <4>1. gotToken' = [gotToken EXCEPT ![c] = Token(c) # None]
        BY <1>6, <3>3, Zenon DEF Handle
      <4>2. gotToken'[c] <=> Token(c) # None
        <5>1. gotToken \in [Conns -> BOOLEAN]
          OBVIOUS
        <5> HIDE DEF TypeOK, TInv, ConnInv, PendingInv, PipedToMates, Token
        <5> QED
          BY <4>1, <5>1, Zenon
      <4>3. /\ pc' = [pc EXCEPT ![c] = IF Token(c) # None THEN "token" ELSE "close"]
            /\ UNCHANGED <<hello, sentOK, buddy>>
        BY <1>6, <3>3 DEF Handle
      <4> QED
        BY <3>3, <4>2, <4>3
    <3> QED
      BY <3>1, <3>2, <3>3
  <2>4. PendingInv'
    BY <1>6, <2>0 DEF Handle
  <2>3. PipedToMates'
    BY <1>6 DEF Handle
  <2> HIDE DEF ConnInv, PendingInv, PipedToMates
  <2> QED
    BY <2>1, <2>2, <2>3, <2>4
<1>7. ASSUME NEW c \in Conns, Pipe(c) PROVE TokenInv'
  <2>1. \A d \in Conns : ConnInv(d)'
    BY <1>7 DEF Pipe
  <2>2. PendingInv' /\ PipedToMates'
    BY <1>7 DEF Pipe
  <2> QED
    BY <2>1, <2>2
<1>17. ASSUME NEW c \in Conns, Write(c) PROVE TokenInv'
  <2>0. /\ dest' = [dest EXCEPT ![c] = None] /\ pc' = [pc EXCEPT ![c] = "top"]
        /\ UNCHANGED <<hello, match, gotToken, sentOK, buddy, pending>>
    BY <1>17 DEF Write
  <2>1. \A d \in Conns : ConnInv(d)'
    BY <2>0
  <2>2. PendingInv'
    BY <2>0
  <2>3. PipedToMates'
    <3> DEFINE b == dest[c]
               new == [from |-> c, line |-> line[c]]
    <3>1. b \in Conns /\ Mates(hello, c, b)
      BY <1>17 DEF Write
    <3>2. CASE got' = got
      BY <1>17, <3>2 DEF Write
    <3>3. CASE got' = [got EXCEPT ![b] = Append(got[b], new)]
      <4>1. hello' = hello
        BY <1>17 DEF Write
      <4>2. Appended(b, new)
        <5>1. TypeOK
          OBVIOUS
        <5> HIDE DEF new, b, TypeOK
        <5> QED
          BY <5>1, <3>1, <3>3, Written
      <4>5. Mates(hello, new.from, b)
        BY <3>1
      <4> HIDE DEF new
      <4>6. ASSUME NEW d \in Conns, NEW i \in DOMAIN got'[d]
            PROVE  Mates(hello, got'[d][i].from, d)
        <5>1. CASE d = b
          BY <4>2, <4>5, <4>6, <5>1 DEF Appended
        <5>2. CASE d # b
          BY <4>2, <4>6, <5>2 DEF Appended
        <5> QED
          BY <5>1, <5>2
      <4> QED
        BY <4>1, <4>6
    <3>4. got' = got \/ got' = [got EXCEPT ![b] = Append(got[b], new)]
      BY <1>17, WriteGot
    <3> QED
      BY <3>2, <3>3, <3>4
  <2> QED
    BY <2>1, <2>2, <2>3
<1>8. ASSUME NEW c \in Conns, Impatient(c) PROVE TokenInv'
  BY <1>8 DEF Impatient
<1>9. ASSUME NEW c \in Conns, Wait(c) PROVE TokenInv'
  BY <1>9 DEF Wait
<1>10. ASSUME NEW c \in Conns, Match(c) PROVE TokenInv'
  <2> DEFINE w == pending[Token(c)]
  <2>1. Token(c) \in Tokens /\ w \in Conns /\ gotToken[w]
    BY <1>10 DEF Match, Hellos
  <2>2. Mates(hello, c, w)
    BY <1>10, <2>1 DEF Match, Mates, Pairs, Side
  <2>3. \A d \in Conns : ConnInv(d)'
    BY <1>10, <2>1, <2>2 DEF Match
  <2>4. PendingInv'
    BY <1>10 DEF Match
  <2>5. PipedToMates'
    BY <1>10 DEF Match
  <2> QED
    BY <2>3, <2>4, <2>5
<1>11. ASSUME NEW c \in Conns, Bond(c) PROVE TokenInv'
  <2>1. match[c] \in Conns /\ Mates(hello, c, match[c]) /\ Mates(hello, match[c], c)
    BY <1>11, MatesSymmetric DEF Bond
  <2>2. \A d \in Conns : ConnInv(d)'
    <3>0. UNCHANGED <<hello, match, dest, gotToken, sentOK>>
      BY <1>11 DEF Bond
    <3>1. CASE At(c, "bond")
      <4>1. /\ buddy' = [buddy EXCEPT ![match[c]] = c]
            /\ pc' = [pc EXCEPT ![c] = "ok"]
        BY <1>11, <3>1 DEF Bond
      <4> QED
        BY <2>1, <3>0, <3>1, <4>1
    <3>2. CASE At(c, "bondself")
      <4>1. /\ buddy' = [buddy EXCEPT ![c] = match[c]]
            /\ pc' = [pc EXCEPT ![c] = "okself"]
        BY <1>11, <3>2 DEF Bond
      <4> QED
        BY <2>1, <3>0, <3>2, <4>1
    <3> QED
      BY <1>11, <3>1, <3>2 DEF Bond
  <2>3. PendingInv'
    BY <1>11 DEF Bond
  <2>4. PipedToMates'
    BY <1>11 DEF Bond
  <2> QED
    BY <2>2, <2>3, <2>4
<1>12. ASSUME NEW c \in Conns, OkMatch(c) PROVE TokenInv'
  <2>1. \A d \in Conns : ConnInv(d)'
    <3>1. CASE isNil[match[c]]
      BY <1>12, <3>1 DEF OkMatch
    <3>2. CASE ~isNil[match[c]]
      <4>1. /\ pc' = [pc EXCEPT ![c] = "bondself"] /\ pc[c] = "ok"
            /\ sentOK' = [sentOK EXCEPT ![match[c]] = TRUE]
            /\ UNCHANGED <<hello, match, dest, gotToken, buddy>>
        BY <1>12, <3>2 DEF OkMatch
      <4>2. match[c] \in Conns /\ gotToken[match[c]]
        BY <4>1
      <4> QED
        BY <4>1, <4>2
    <3> QED
      BY <3>1, <3>2
  <2>2. PendingInv' /\ PipedToMates'
    BY <1>12 DEF OkMatch
  <2> QED
    BY <2>1, <2>2
<1>13. ASSUME NEW c \in Conns, OkSelf(c) PROVE TokenInv'
  <2>1. \A d \in Conns : ConnInv(d)'
    BY <1>13 DEF OkSelf
  <2>2. PendingInv'
    BY <1>13 DEF OkSelf
  <2>3. PipedToMates'
    BY <1>13 DEF OkSelf
  <2> QED
    BY <2>1, <2>2, <2>3
<1>14. ASSUME NEW c \in Conns, Close(c) PROVE TokenInv'
  BY <1>14 DEF Close
<1>15. ASSUME NEW c \in Conns, Shut(c) PROVE TokenInv'
  <2>1. /\ UNCHANGED <<hello, match, dest, gotToken, sentOK, buddy, pending, got>>
        /\ pc' = pc \/ pc' = [pc EXCEPT ![c] = "unset"]
    BY <1>15 DEF Shut
  <2>2. ASSUME NEW d \in Conns PROVE ConnInv(d)'
    <3>1. pc'[d] = pc[d] \/ pc'[d] = "unset"
      BY <2>1
    <3>2. ConnInv(d)
      OBVIOUS
    <3> HIDE DEF TypeOK, TInv
    <3> QED
      BY <2>1, <3>1, <3>2
  <2>3. PendingInv' /\ PipedToMates'
    BY <2>1
  <2> QED
    BY <2>2, <2>3
<1>18. ASSUME NEW c \in Conns, Unset(c) PROVE TokenInv'
  BY <1>18 DEF Unset
<1>16. ASSUME NEW c \in Conns, CloseBuddy(c) PROVE TokenInv'
  <2>1. /\ UNCHANGED <<hello, match, dest, gotToken, sentOK, buddy, pending, got>>
        /\ \/ pc' = [pc EXCEPT ![c] = "close"]
           \/ pc' = [pc EXCEPT ![c] = "gone"]
    BY <1>16 DEF CloseBuddy
  <2>2. \A d \in Conns : ConnInv(d)'
    BY <2>1
  <2>3. PendingInv' /\ PipedToMates'
    BY <2>1
  <2> QED
    BY <2>2, <2>3
<1> QED
  BY <1>1, <1>2, <1>3, <1>4, <1>5, <1>6, <1>7, <1>8, <1>9, <1>10, <1>11,
     <1>12, <1>13, <1>14, <1>15, <1>16, <1>17, <1>18
  DEF Next, Step, ServerStep

-----------------------------------------------------------------------------
(* Which line is written when. *)

\* A step that writes to nobody, reads nothing, and after which each client
\* deals with the same line as before, or with none.
LEMMA QuietLines ==
  ASSUME TInv, UNCHANGED <<got, seen>>,
         \A c \in Conns :
           \/ line'[c] = line[c] /\ (pc'[c] \in Dealing <=> pc[c] \in Dealing)
           \/ line'[c] = 0 /\ pc'[c] \notin Dealing,
         \A c \in Conns : gotToken'[c] =>
           gotToken[c] \/ (pc[c] = "handle" /\ pc'[c] \notin Dealing)
  PROVE  LineInv'
<1> USE DEF TInv, LineInv
<1>1. ASSUME NEW c \in Conns PROVE LineOf(c)'
  <2>1. LineOf(c) /\ seen[c] \in Nat /\ line[c] \in Nat
    BY DEF TypeOK
  <2>2. CASE line'[c] = line[c] /\ (pc'[c] \in Dealing <=> pc[c] \in Dealing)
    BY <2>1, <2>2 DEF LineOf, Dealing
  <2>3. CASE line'[c] = 0 /\ pc'[c] \notin Dealing
    BY <2>1, <2>3 DEF LineOf, Dealing
  <2> QED
    BY <2>2, <2>3
<1>2. ASSUME NEW d \in Conns, NEW j \in DOMAIN got'[d] PROVE Older(got[d][j])'
  <2>1. got[d][j].from \in Conns
    BY <1>2, WrittenType
  <2> QED
    BY <1>2, <2>1 DEF PipedIsOlder, Older
<1>3. PipedInOrder'
  BY DEF PipedInOrder
<1> QED
  BY <1>1, <1>2, <1>3 DEF PipedIsOlder

LEMMA LineNext ==
  ASSUME TInv, [Next]_vars
  PROVE  LineInv'
<1> USE TransitAssumption DEF TypeOK, At, Goto, fields, Dealing
<1>0. TypeOK
  BY DEF TInv
<1>1. CASE UNCHANGED vars
  BY <1>1, QuietLines DEF vars
<1>2. ASSUME NEW c \in Conns, Cut(c) PROVE LineInv'
  BY <1>2, QuietLines DEF Cut
<1>3. ASSUME NEW c \in Conns, NewReader(c) PROVE LineInv'
  BY <1>0, <1>3, QuietLines DEF NewReader
<1>4. ASSUME NEW c \in Conns, ReadLine(c) PROVE LineInv'
  <2>1. PICK n \in seen[c] + 1 .. MaxLines : seen' = [seen EXCEPT ![c] = n]
    BY <1>4 DEF ReadLine
  <2>2. /\ line' = [line EXCEPT ![c] = seen[c] + 1]
        /\ pc' = [pc EXCEPT ![c] = "handle"]
        /\ UNCHANGED <<got, gotToken>>
    BY <1>4 DEF ReadLine
  <2>3. \A d \in Conns : LineOf(d)'
    BY <1>0, <2>1, <2>2 DEF TInv, LineInv, LineOf
  <2>4. ASSUME NEW d \in Conns, NEW j \in DOMAIN got'[d] PROVE Older(got[d][j])'
    <3>1. got[d][j].from \in Conns /\ got[d][j].line \in Nat /\ Older(got[d][j])
      BY <1>0, <2>2, <2>4, WrittenType DEF TInv, LineInv, PipedIsOlder
    <3> QED
      <4>1. CASE got[d][j].from = c
        <5>1. seen'[c] = n /\ line'[c] = seen[c] + 1 /\ got'[d][j] = got[d][j]
          BY <1>0, <2>1, <2>2
        <5>2. got[d][j].line <= seen[c] /\ seen[c] \in Nat
          BY <1>0, <3>1, <4>1 DEF Older
        <5> QED
          BY <3>1, <4>1, <5>1, <5>2 DEF Older
      <4>2. CASE got[d][j].from # c
        BY <1>0, <2>1, <2>2, <3>1, <4>2 DEF Older
      <4> QED
        BY <4>1, <4>2
  <2>5. PipedInOrder'
    BY <2>2 DEF TInv, LineInv, PipedInOrder
  <2> QED
    BY <2>3, <2>4, <2>5 DEF LineInv, PipedIsOlder
<1>5. ASSUME NEW c \in Conns, ReadFails(c) PROVE LineInv'
  BY <1>0, <1>5, QuietLines DEF ReadFails
<1>6. ASSUME NEW c \in Conns, Handle(c) PROVE LineInv'
  <2>1. /\ UNCHANGED <<got, seen>> /\ pc[c] = "handle"
        /\ line' = [line EXCEPT ![c] = IF pc'[c] = "pipe" THEN line[c] ELSE 0]
        /\ \E step \in {"pipe", "close", "impatient", "token"} :
             pc' = [pc EXCEPT ![c] = step]
    BY <1>6 DEF Handle
  <2>2. \A d \in Conns \ {c} : /\ pc'[d] = pc[d] /\ line'[d] = line[d]
                              /\ gotToken'[d] = gotToken[d]
    BY <1>0, <1>6, <2>1 DEF Handle
  <2>3. \/ line'[c] = line[c] /\ pc'[c] = "pipe"
        \/ line'[c] = 0 /\ pc'[c] \notin Dealing
    BY <1>0, <2>1
  <2>4. gotToken'[c] => gotToken[c] \/ pc'[c] # "pipe"
    <3>1. CASE sentOK[c] \/ gotToken[c]
      BY <1>6, <3>1 DEF Handle
    <3>2. CASE ~sentOK[c] /\ ~gotToken[c]
      BY <1>0, <1>6, <3>2 DEF Handle
    <3> QED
      BY <3>1, <3>2
  <2>5. \A d \in Conns :
          \/ line'[d] = line[d] /\ (pc'[d] \in Dealing <=> pc[d] \in Dealing)
          \/ line'[d] = 0 /\ pc'[d] \notin Dealing
    BY <2>1, <2>2, <2>3
  <2>6. \A d \in Conns : gotToken'[d] =>
          gotToken[d] \/ (pc[d] = "handle" /\ pc'[d] \notin Dealing)
    BY <2>1, <2>2, <2>3, <2>4
  <2> QED
    BY <2>1, <2>5, <2>6, QuietLines
<1>7. ASSUME NEW c \in Conns, Pipe(c) PROVE LineInv'
  BY <1>0, <1>7, QuietLines DEF Pipe
<1>17. ASSUME NEW c \in Conns, Write(c) PROVE LineInv'
  <2> DEFINE b == dest[c]
             new == [from |-> c, line |-> line[c]]
  <2>1. b \in Conns /\ line[c] > 1 /\ line[c] <= seen[c] /\ pc[c] \in Dealing
    BY <1>17 DEF Write, TInv, TokenInv, ConnInv, Bonding, LineInv, LineOf
  <2>2. /\ UNCHANGED <<seen, gotToken>> /\ pc'[c] = "top" /\ line'[c] = 0
        /\ \A d \in Conns \ {c} : pc'[d] = pc[d] /\ line'[d] = line[d]
    BY <1>0, <1>17 DEF Write
  <2>3. CASE got' = got
    BY <2>2, <2>3, QuietLines
  <2>4. CASE got' = [got EXCEPT ![b] = Append(got[b], new)]
    <3>1. Appended(b, new)
      <4> HIDE DEF new, b, TypeOK
      <4>1. b \in Conns /\ got' = [got EXCEPT ![b] = Append(got[b], new)]
        BY <2>1, <2>4
      <4> QED
        BY <1>0, <4>1, Written
    <3>2. ASSUME NEW d \in Conns PROVE LineOf(d)'
      <4>1. LineOf(d) /\ seen[d] \in Nat
        BY <1>0 DEF TInv, LineInv
      <4>2. CASE d = c
        BY <2>2, <4>1, <4>2 DEF LineOf
      <4>3. CASE d # c
        <5>1. /\ pc'[d] = pc[d] /\ line'[d] = line[d]
              /\ seen' = seen /\ gotToken' = gotToken
          BY <2>2, <4>3
        <5> QED
          BY <4>1, <5>1 DEF LineOf
      <4> QED
        BY <4>2, <4>3
    <3>3. \A d \in Conns : \A j \in DOMAIN got[d] :
            /\ got[d][j].from \in Conns /\ got[d][j].line \in Nat
            /\ Older(got[d][j])
      BY <1>0, WrittenType DEF TInv, LineInv, PipedIsOlder
    <3>4. ASSUME NEW d \in Conns, NEW j \in DOMAIN got'[d] PROVE Older(got[d][j])'
      <4>1. CASE got'[d][j] = new
        <5>1. got'[d][j].from = c /\ got'[d][j].line = line[c]
          BY <4>1
        <5>2. pc'[c] \notin Dealing /\ line[c] <= seen'[c]
          BY <2>1, <2>2
        <5> QED
          BY <5>1, <5>2 DEF Older
      <4>2. CASE j \in DOMAIN got[d] /\ got'[d][j] = got[d][j]
        BY <2>2, <3>3, <4>2 DEF Older
      <4> QED
        BY <3>1, <3>4, <4>1, <4>2 DEF Appended
    <3>5. PipedInOrder'
      <4>1. ASSUME NEW d \in Conns \ {b} PROVE got'[d] = got[d]
        BY <3>1 DEF Appended
      <4>2. ASSUME NEW j \in DOMAIN got'[b], j \in DOMAIN got[b]
            PROVE  /\ got'[b][j].line > 1
                   /\ \A i \in 1 .. j - 1 : got'[b][i].from = got'[b][j].from =>
                        got'[b][i].line < got'[b][j].line
        BY <2>1, <3>1, <4>2 DEF Appended, TInv, LineInv, PipedInOrder
      <4>3. ASSUME NEW j \in DOMAIN got'[b], j \notin DOMAIN got[b]
            PROVE  /\ got'[b][j].line > 1
                   /\ \A i \in 1 .. j - 1 : got'[b][i].from = got'[b][j].from =>
                        got'[b][i].line < got'[b][j].line
        BY <2>1, <3>1, <3>3, <4>3 DEF Appended, Older
      <4> QED
        BY <4>1, <4>2, <4>3 DEF TInv, LineInv, PipedInOrder
    <3> QED
      BY <3>2, <3>4, <3>5 DEF LineInv, PipedIsOlder
  <2>5. got' = got \/ got' = [got EXCEPT ![b] = Append(got[b], new)]
    BY <1>0, <1>17, WriteGot
  <2> QED
    BY <2>3, <2>4, <2>5
<1>8. ASSUME NEW c \in Conns, Impatient(c) PROVE LineInv'
  BY <1>0, <1>8, QuietLines DEF Impatient
<1>9. ASSUME NEW c \in Conns, Wait(c) PROVE LineInv'
  BY <1>0, <1>9, QuietLines DEF Wait
<1>10. ASSUME NEW c \in Conns, Match(c) PROVE LineInv'
  BY <1>0, <1>10, QuietLines DEF Match
<1>11. ASSUME NEW c \in Conns, Bond(c) PROVE LineInv'
  BY <1>0, <1>11, QuietLines DEF Bond
<1>12. ASSUME NEW c \in Conns, OkMatch(c) PROVE LineInv'
  BY <1>0, <1>12, QuietLines DEF OkMatch
<1>13. ASSUME NEW c \in Conns, OkSelf(c) PROVE LineInv'
  BY <1>0, <1>13, QuietLines DEF OkSelf
<1>14. ASSUME NEW c \in Conns, Close(c) PROVE LineInv'
  BY <1>0, <1>14, QuietLines DEF Close
<1>15. ASSUME NEW c \in Conns, Shut(c) PROVE LineInv'
  BY <1>0, <1>15, QuietLines DEF Shut
<1>18. ASSUME NEW c \in Conns, Unset(c) PROVE LineInv'
  BY <1>0, <1>18, QuietLines DEF Unset
<1>16. ASSUME NEW c \in Conns, CloseBuddy(c) PROVE LineInv'
  <2>1. pc[c] = "next" /\ UNCHANGED <<got, seen, line, gotToken>>
    BY <1>16 DEF CloseBuddy
  <2>2. pc' = [pc EXCEPT ![c] = "close"] \/ pc' = [pc EXCEPT ![c] = "gone"]
    BY <1>16 DEF CloseBuddy
  <2>3. \A d \in Conns : pc'[d] \in Dealing <=> pc[d] \in Dealing
    BY <1>0, <2>1, <2>2
  <2> QED
    BY <2>1, <2>3, QuietLines
<1> QED
  BY <1>1, <1>2, <1>3, <1>4, <1>5, <1>6, <1>7, <1>8, <1>9, <1>10, <1>11,
     <1>12, <1>13, <1>14, <1>15, <1>16, <1>17, <1>18
  DEF Next, Step, ServerStep

-----------------------------------------------------------------------------
(* Who is closed with whom. *)

\* The client is through with closing itself.
Past(c) ==
  \/ pc[c] = "gone"
  \/ pc[c] \in {"close", "shut", "unset", "next"} /\ target[c] # c

\* It was just connected with, by one that will find its conn nil or not.
Chosen(c) == \E e \in Conns : pc[e] = "ok" /\ match[e] = c

CloseInv(c) ==
  /\ pc[c] \in Bonding => lock = c
  /\ pc[c] \notin {"close", "shut", "unset", "next"} => target[c] = c
  /\ Past(c) \/ pc[c] = "next" => isNil[c]
  /\ pc[c] = "ok" => buddy[match[c]] # None
  /\ pc[c] = "okself" \/ sentOK[c] => buddy[c] # None
  /\ Past(c) /\ sentOK[c] /\ ~Chosen(c) =>
       \/ isNil[buddy[c]]
       \/ pc[c] \in {"close", "shut", "unset"} /\ target[c] = buddy[c]

BuddyInv == \A c \in Conns : CloseInv(c)

LEMMA InitBuddy == Init => BuddyInv
<1> SUFFICES ASSUME Init PROVE BuddyInv
  OBVIOUS
<1>1. \A c \in Conns : pc[c] = "top" /\ target[c] = c /\ ~sentOK[c]
  BY DEF Init
<1> QED
  BY <1>1 DEF BuddyInv, CloseInv, Past, Bonding

\* What BuddyInv is about; a panic, for one, changes none of it.
bonds == <<target, match, isNil, sentOK, buddy, lock>>

LEMMA StillBuddy ==
  ASSUME BuddyInv, UNCHANGED <<pc, bonds>>
  PROVE  BuddyInv'
BY DEF BuddyInv, CloseInv, Past, Chosen, bonds

LEMMA SameChosen ==
  ASSUME TypeOK, NEW c \in Conns, NEW step, step # "ok", pc[c] # "ok",
         pc' = [pc EXCEPT ![c] = step], match' = match
  PROVE  \A d : Chosen(d)' <=> Chosen(d)
BY DEF TypeOK, Chosen

Serving == {"top", "read", "handle", "pipe", "write", "impatient", "token"}

\* A step of a client that serves its peer, or finds that it is to close.
LEMMA QuietBuddy ==
  ASSUME TypeOK, BuddyInv, NEW c \in Conns, NEW step \in Serving \cup {"close"},
         pc[c] \in Serving, pc' = [pc EXCEPT ![c] = step], UNCHANGED bonds
  PROVE  BuddyInv'
<1>1. \A d : Chosen(d)' <=> Chosen(d)
  BY SameChosen DEF Serving, bonds
<1>2. ASSUME NEW d \in Conns PROVE CloseInv(d)'
  <2>1. CASE d = c
    BY <1>1, <2>1 DEF TypeOK, BuddyInv, CloseInv, Past, Bonding, Serving, bonds
  <2>2. CASE d # c
    BY <1>1, <2>2 DEF TypeOK, BuddyInv, CloseInv, Past, Bonding, bonds
  <2> QED
    BY <2>1, <2>2
<1> QED
  BY <1>2 DEF BuddyInv

LEMMA QuietStepBuddy ==
  ASSUME TypeOK, BuddyInv, NEW c \in Conns,
         \/ NewReader(c) \/ ReadLine(c) \/ ReadFails(c) \/ Handle(c)
         \/ Pipe(c) \/ Write(c) \/ Impatient(c) \/ Wait(c)
  PROVE  BuddyInv'
<1>1. pc[c] \in Serving
  BY DEF NewReader, ReadLine, ReadFails, Handle, Pipe, Write, Impatient,
         Wait, At, Serving
<1>2. UNCHANGED bonds
  BY DEF NewReader, ReadLine, ReadFails, Handle, Pipe, Write, Impatient,
         Wait, fields, bonds
<1>3. pc' = pc \/ \E step \in Serving \cup {"close"} : pc' = [pc EXCEPT ![c] = step]
  BY DEF NewReader, ReadLine, ReadFails, Handle, Pipe, Write, Impatient,
         Wait, Goto, Serving
<1> QED
  BY <1>1, <1>2, <1>3, StillBuddy, QuietBuddy

LEMMA BuddyNext ==
  ASSUME TInv, BuddyInv, [Next]_vars
  PROVE  BuddyInv'
<1>0. TypeOK
  BY DEF TInv
<1>1. CASE UNCHANGED vars
  BY <1>1, StillBuddy DEF vars, fields, bonds
<1>2. ASSUME NEW c \in Conns, Cut(c) PROVE BuddyInv'
  BY <1>2, StillBuddy DEF Cut, fields, bonds
<1>3. ASSUME NEW c \in Conns,
             \/ NewReader(c) \/ ReadLine(c) \/ ReadFails(c) \/ Handle(c)
             \/ Pipe(c) \/ Write(c) \/ Impatient(c) \/ Wait(c)
      PROVE  BuddyInv'
  BY <1>0, <1>3, QuietStepBuddy
<1> USE TransitAssumption DEF TypeOK, At, Goto, fields, BuddyInv, CloseInv,
          Past, Bonding
<1>4. ASSUME NEW c \in Conns, Match(c) PROVE BuddyInv'
  BY <1>0, <1>4 DEF Match, Chosen
<1>5. ASSUME NEW c \in Conns, Bond(c) PROVE BuddyInv'
  <2>1. match[c] \in Conns /\ target[c] = c /\ lock = c
    BY <1>0, <1>5 DEF Bond, TInv, TokenInv, ConnInv
  <2>2. UNCHANGED <<target, match, isNil, sentOK, lock>>
    BY <1>5 DEF Bond
  <2>3. CASE pc[c] = "bond"
    <3>1. /\ buddy' = [buddy EXCEPT ![match[c]] = c]
          /\ pc' = [pc EXCEPT ![c] = "ok"]
      BY <1>5, <2>3 DEF Bond
    <3>2. ASSUME NEW d \in Conns PROVE CloseInv(d)'
      <4>1. CASE d = c
        BY <1>0, <2>1, <2>2, <3>1, <4>1
      <4>2. CASE d # c
        BY <1>0, <2>1, <2>2, <2>3, <3>1, <4>2 DEF Chosen
      <4> QED
        BY <4>1, <4>2
    <3> QED
      BY <3>2
  <2>4. CASE pc[c] = "bondself"
    <3>1. /\ buddy' = [buddy EXCEPT ![c] = match[c]]
          /\ pc' = [pc EXCEPT ![c] = "okself"]
      BY <1>5, <2>4 DEF Bond
    <3>2. ASSUME NEW d \in Conns PROVE CloseInv(d)'
      <4>1. CASE d = c
        BY <1>0, <2>1, <2>2, <3>1, <4>1
      <4>2. CASE d # c
        BY <1>0, <2>1, <2>2, <2>4, <3>1, <4>2 DEF Chosen
      <4> QED
        BY <4>1, <4>2
    <3> QED
      BY <3>2
  <2> QED
    BY <1>5, <2>3, <2>4 DEF Bond
<1>6. ASSUME NEW c \in Conns, OkMatch(c) PROVE BuddyInv'
  <2>1. match[c] \in Conns
    BY <1>0, <1>6 DEF OkMatch, TInv, TokenInv, ConnInv
  <2> QED
    <3>1. CASE isNil[match[c]]
      <4>1. UNCHANGED <<pc, bonds>>
        BY <1>6, <3>1 DEF OkMatch, bonds
      <4> HIDE DEF BuddyInv
      <4> QED
        BY <4>1, StillBuddy
    <3>2. CASE ~isNil[match[c]]
      <4>1. /\ sentOK' = [sentOK EXCEPT ![match[c]] = TRUE]
            /\ pc[c] = "ok" /\ pc' = [pc EXCEPT ![c] = "bondself"]
            /\ UNCHANGED <<target, match, isNil, buddy, lock>>
        BY <1>6, <3>2 DEF OkMatch
      <4>2. ASSUME NEW d \in Conns PROVE CloseInv(d)'
        <5>1. CASE d = match[c]
          BY <1>0, <2>1, <3>2, <4>1, <5>1
        <5>2. CASE d # match[c] /\ d = c
          <6>1. target[c] = c /\ lock = c /\ (sentOK[c] => buddy[c] # None)
            BY <4>1
          <6>2. sentOK'[c] = sentOK[c] /\ pc'[c] = "bondself"
            BY <1>0, <2>1, <4>1, <5>2
          <6> QED
            BY <4>1, <5>2, <6>1, <6>2
        <5>3. CASE d # match[c] /\ d # c
          <6>1. Chosen(d)' <=> Chosen(d)
            BY <1>0, <4>1, <5>3 DEF Chosen
          <6>2. sentOK'[d] = sentOK[d] /\ pc'[d] = pc[d]
            BY <1>0, <2>1, <4>1, <5>3
          <6> QED
            BY <1>0, <4>1, <5>3, <6>1, <6>2
        <5> QED
          BY <5>1, <5>2, <5>3
      <4> QED
        BY <4>2
    <3> QED
      BY <3>1, <3>2
<1>7. ASSUME NEW c \in Conns, OkSelf(c) PROVE BuddyInv'
  BY <1>0, <1>7, SMTT(30) DEF OkSelf, Chosen
<1>8. ASSUME NEW c \in Conns, Close(c) PROVE BuddyInv'
  BY <1>0, <1>8, SMTT(30) DEF Close, Chosen
<1>9. ASSUME NEW c \in Conns, Shut(c) PROVE BuddyInv'
  <2>1. CASE isNil[target[c]]
    <3>1. UNCHANGED <<pc, bonds>>
      BY <1>9, <2>1 DEF Shut, bonds
    <3> HIDE DEF BuddyInv
    <3> QED
      BY <3>1, StillBuddy
  <2>2. CASE ~isNil[target[c]]
    <3>1. /\ pc[c] = "shut" /\ pc' = [pc EXCEPT ![c] = "unset"]
          /\ UNCHANGED bonds
      BY <1>9, <2>2 DEF Shut, bonds
    <3>2. \A d : Chosen(d)' <=> Chosen(d)
      <4> HIDE DEF TypeOK
      <4> QED
        BY <1>0, <3>1, SameChosen DEF bonds
    <3> QED
      BY <1>0, <3>1, <3>2 DEF bonds
  <2> QED
    BY <2>1, <2>2
<1>11. ASSUME NEW c \in Conns, Unset(c) PROVE BuddyInv'
  <2>1. /\ isNil' = [isNil EXCEPT ![target[c]] = TRUE]
        /\ pc[c] = "unset" /\ pc' = [pc EXCEPT ![c] = "next"]
        /\ UNCHANGED <<target, match, sentOK, buddy, lock>>
    BY <1>11 DEF Unset
  <2>2. \A d \in Conns : isNil[d] => isNil'[d]
    BY <1>0, <2>1
  <2>3. target[c] \in Conns /\ isNil'[target[c]]
    BY <1>0, <2>1
  <2>4. \A d : Chosen(d)' <=> Chosen(d)
    <3> HIDE DEF TypeOK
    <3> QED
      BY <1>0, <2>1, SameChosen
  <2>5. ASSUME NEW d \in Conns PROVE CloseInv(d)'
    <3>1. sentOK[d] => buddy[d] \in Conns
      BY <1>0
    <3>2. CASE d = c
      BY <1>0, <2>1, <2>3, <2>4, <3>1, <3>2
    <3>3. CASE d # c
      BY <1>0, <2>1, <2>2, <2>4, <3>1, <3>3
    <3> QED
      BY <3>2, <3>3
  <2> QED
    BY <2>5
<1>10. ASSUME NEW c \in Conns, CloseBuddy(c) PROVE BuddyInv'
  <2> DEFINE b == buddy[target[c]]
  <2>1. pc[c] = "next" /\ UNCHANGED <<match, isNil, sentOK, buddy, lock>>
    BY <1>10 DEF CloseBuddy
  <2>2. isNil[c]
    BY <2>1
  <2>3. CASE b # None /\ ~isNil[b]
    <3>1. /\ pc' = [pc EXCEPT ![c] = "close"]
          /\ target' = [target EXCEPT ![c] = b]
          /\ b # c
      BY <1>10, <2>2, <2>3 DEF CloseBuddy
    <3>2. \A d : Chosen(d)' <=> Chosen(d)
      <4> HIDE DEF TypeOK
      <4> QED
        BY <1>0, <2>1, <3>1, SameChosen
    <3>3. ASSUME NEW d \in Conns PROVE CloseInv(d)'
      <4>1. CASE d = c
        <5>1. pc'[c] = "close" /\ target'[c] = b /\ buddy'[c] = buddy[c]
          BY <1>0, <2>1, <3>1
        <5>2. sentOK[c] => buddy[c] # None
          OBVIOUS
        <5>3. sentOK[c] /\ ~Chosen(c) => isNil[buddy[c]] \/ b = buddy[c]
          BY <2>1
        <5> QED
          BY <2>1, <2>2, <3>1, <3>2, <4>1, <5>1, <5>2, <5>3
      <4>2. CASE d # c
        <5>1. pc'[d] = pc[d] /\ target'[d] = target[d]
          BY <1>0, <3>1, <4>2
        <5> QED
          BY <2>1, <3>2, <5>1
      <4> QED
        BY <4>1, <4>2
    <3> QED
      BY <3>3
  <2>4. CASE ~(b # None /\ ~isNil[b])
    <3>1. pc' = [pc EXCEPT ![c] = "gone"] /\ target' = [target EXCEPT ![c] = c]
      BY <1>10, <2>4 DEF CloseBuddy
    <3>2. \A d : Chosen(d)' <=> Chosen(d)
      <4> HIDE DEF TypeOK
      <4> QED
        BY <1>0, <2>1, <3>1, SameChosen
    <3>3. ASSUME NEW d \in Conns PROVE CloseInv(d)'
      <4>1. CASE d = c
        <5>1. pc'[c] = "gone" /\ target'[c] = c
          BY <1>0, <3>1
        <5>2. sentOK[c] => buddy[c] # None
          OBVIOUS
        <5>3. sentOK[c] /\ ~Chosen(c) => isNil[buddy[c]]
          <6>1. CASE target[c] = c
            BY <2>4, <5>2, <6>1
          <6>2. CASE target[c] # c
            BY <2>1, <6>2
          <6> QED
            BY <6>1, <6>2
        <5> QED
          BY <2>1, <2>2, <3>1, <3>2, <4>1, <5>1, <5>2, <5>3
      <4>2. CASE d # c
        <5>1. pc'[d] = pc[d] /\ target'[d] = target[d]
          BY <1>0, <3>1, <4>2
        <5> QED
          BY <2>1, <3>2, <5>1
      <4> QED
        BY <4>1, <4>2
    <3> QED
      BY <3>3
  <2> QED
    BY <2>3, <2>4
<1> QED
  BY <1>1, <1>2, <1>3, <1>4, <1>5, <1>6, <1>7, <1>8, <1>9, <1>10,
     <1>11
  DEF Next, Step, ServerStep

-----------------------------------------------------------------------------
(* The theorems. *)

LEMMA TransitInvariance == Spec => [](TInv /\ BuddyInv)
<1>1. Init => TInv /\ BuddyInv
  BY InitTInv, InitBuddy
<1>2. TInv /\ BuddyInv /\ [Next]_vars => (TInv /\ BuddyInv)'
  BY TypeNext, TokenNext, LineNext, BuddyNext DEF TInv
<1> QED
  BY <1>1, <1>2, PTL DEF Spec

\* The state of the transit server has its types.
THEOREM TransitTypeCorrect == Spec => []TypeOK
<1>1. TInv => TypeOK
  BY DEF TInv
<1> QED
  BY <1>1, TransitInvariance, PTL

\* However often buddies are stolen, clients are only piped what clients with
\* their token, and another side, send.
THEOREM PipeIsolation == Spec => []PipedByToken
<1>1. TInv => PipedByToken
  BY DEF TInv, TokenInv, PipedToMates, Mates, PipedByToken, Token, Side
<1> QED
  BY <1>1, TransitInvariance, PTL

\* However many lines are sent, and from wherever they are read, they are
\* written at most once and in their order.
THEOREM PipeOrder == Spec => []PipedInOrder
<1>1. TInv => PipedInOrder
  BY DEF TInv, LineInv
<1> QED
  BY <1>1, TransitInvariance, PTL

\* However many clients are connected with one another, a client that was
\* told "ok" does not go without its Buddy.
THEOREM BuddyIsClosed == Spec => []BuddyGoesToo
<1>1. ASSUME TInv, BuddyInv, lock = None, NEW c \in Conns, pc[c] = "gone", sentOK[c]
      PROVE  isNil[buddy[c]]
  <2>1. CloseInv(c) /\ Past(c)
    BY <1>1 DEF BuddyInv, Past
  <2>2. ~Chosen(c)
    <3>1. \A e \in Conns : pc[e] = "ok" => lock = e
      BY <1>1 DEF BuddyInv, CloseInv, Bonding
    <3> QED
      BY <1>1, <3>1, TransitAssumption DEF Chosen
  <2> QED
    BY <1>1, <2>1, <2>2 DEF CloseInv
<1>2. TInv /\ BuddyInv => BuddyGoesToo
  BY <1>1 DEF BuddyGoesToo
<1> QED
  BY <1>2, TransitInvariance, PTL

-----------------------------------------------------------------------------
(* The wire. *)

\* No client is its own Buddy: who looks for a match does not wait for one.
SelfInv ==
  \A c \in Conns :
    /\ pc[c] \in Bonding \cup {"token"} => \A t \in Tokens : pending[t] # c
    /\ pc[c] \in Bonding => match[c] # c
    /\ buddy[c] # c
    /\ pc[c] = "write" => dest[c] # c

LEMMA InitSelf == Init => SelfInv
<1> SUFFICES ASSUME Init PROVE SelfInv
  OBVIOUS
<1>1. \A c \in Conns : pc[c] = "top" /\ buddy[c] = None /\ c # None
  BY TransitAssumption DEF Init
<1> QED
  BY <1>1 DEF SelfInv, Bonding

\* A step that changes neither who waits nor who is connected.
LEMMA QuietSelf ==
  ASSUME SelfInv, UNCHANGED <<pending, match, buddy>>,
         \A d \in Conns : pc'[d] = "write" => pc[d] = "write" /\ dest'[d] = dest[d],
         \A d \in Conns : pc'[d] \in Bonding \cup {"token"} =>
           pc[d] \in Bonding \cup {"token"} \/ \A t \in Tokens : pending[t] # d,
         \A d \in Conns : pc'[d] \in Bonding => pc[d] \in Bonding
  PROVE  SelfInv'
BY DEF SelfInv

LEMMA SelfNext ==
  ASSUME TInv, SelfInv, [Next]_vars
  PROVE  SelfInv'
<1> USE DEF At, Goto, fields, Bonding
<1>0. TypeOK /\ TokenInv
  BY DEF TInv
<1>1. CASE UNCHANGED vars
  BY <1>1, QuietSelf DEF vars
<1>2. ASSUME NEW c \in Conns, Cut(c) PROVE SelfInv'
  BY <1>2, QuietSelf DEF Cut
<1>3. ASSUME NEW c \in Conns,
             \/ NewReader(c) \/ ReadLine(c) \/ ReadFails(c)
             \/ Impatient(c) \/ Close(c) \/ Shut(c) \/ Unset(c) \/ CloseBuddy(c)
      PROVE  SelfInv'
  <2>1. UNCHANGED <<pending, match, buddy, dest>>
    BY <1>3 DEF NewReader, ReadLine, ReadFails, Impatient, Close, Shut, Unset,
                CloseBuddy
  <2>2. \A d \in Conns :
          pc'[d] \in Bonding \cup {"token", "write"} => pc'[d] = pc[d]
    <3>1. pc' = pc \/ \E step \in {"read", "handle", "close", "next", "shut",
                                   "unset", "gone"} : pc' = [pc EXCEPT ![c] = step]
      BY <1>3 DEF NewReader, ReadLine, ReadFails, Impatient, Close, Shut, Unset,
                  CloseBuddy
    <3> QED
      BY <1>0, <3>1 DEF TypeOK
  <2> QED
    BY <2>1, <2>2, QuietSelf
<1>10. ASSUME NEW c \in Conns, Pipe(c) PROVE SelfInv'
  <2>1. CASE isNil[buddy[c]]
    BY <1>10, <2>1, QuietSelf DEF Pipe
  <2>2. CASE ~isNil[buddy[c]]
    <3>1. /\ pc' = [pc EXCEPT ![c] = "write"]
          /\ dest' = [dest EXCEPT ![c] = buddy[c]]
          /\ UNCHANGED <<match, pending, buddy>>
      BY <1>10, <2>2 DEF Pipe
    <3> QED
      BY <1>0, <3>1 DEF SelfInv, TypeOK
  <2> QED
    BY <2>1, <2>2
<1>11. ASSUME NEW c \in Conns, Write(c) PROVE SelfInv'
  <2>1. /\ pc' = [pc EXCEPT ![c] = "top"]
        /\ dest' = [dest EXCEPT ![c] = None]
        /\ UNCHANGED <<match, pending, buddy>>
    BY <1>11 DEF Write
  <2> QED
    BY <1>0, <2>1 DEF SelfInv, TypeOK
<1>4. ASSUME NEW c \in Conns, Handle(c) PROVE SelfInv'
  <2>1. UNCHANGED <<pending, match, buddy, dest>>
    BY <1>4 DEF Handle
  <2>2. \A d \in Conns \ {c} : pc'[d] = pc[d]
    BY <1>0, <1>4 DEF Handle, TypeOK
  <2>3. /\ pc'[c] \notin Bonding \cup {"write"}
        /\ pc'[c] = "token" => ~gotToken[c]
    BY <1>0, <1>4 DEF Handle, TypeOK
  <2>4. ~gotToken[c] => \A t \in Tokens : pending[t] # c
    BY <1>0, TransitAssumption DEF TokenInv, PendingInv
  <2> QED
    BY <2>1, <2>2, <2>3, <2>4, QuietSelf
<1>5. ASSUME NEW c \in Conns, Wait(c) PROVE SelfInv'
  <2>1. /\ pc[c] = "token" /\ pc' = [pc EXCEPT ![c] = "top"]
        /\ pending' = [pending EXCEPT ![Token(c)] = c]
        /\ UNCHANGED <<match, buddy, dest>>
    BY <1>5 DEF Wait
  <2> QED
    BY <1>0, <2>1 DEF SelfInv, TypeOK
<1>6. ASSUME NEW c \in Conns, Match(c) PROVE SelfInv'
  <2>1. /\ pc[c] = "token" /\ pc' = [pc EXCEPT ![c] = "bond"]
        /\ match' = [match EXCEPT ![c] = pending[Token(c)]]
        /\ pending' = [pending EXCEPT ![Token(c)] = None]
        /\ UNCHANGED <<buddy, dest>>
    BY <1>6 DEF Match
  <2>2. Token(c) \in Tokens
    BY <1>0, <2>1, TransitAssumption
    DEF TypeOK, TokenInv, ConnInv, Token, Hellos
  <2>3. pending[Token(c)] # c
    BY <2>1, <2>2 DEF SelfInv
  <2> QED
    BY <1>0, <2>1, <2>3, TransitAssumption DEF SelfInv, TypeOK
<1>7. ASSUME NEW c \in Conns, Bond(c) PROVE SelfInv'
  <2>1. /\ pc[c] \in Bonding /\ UNCHANGED <<match, pending, dest>>
        /\ \/ /\ buddy' = [buddy EXCEPT ![match[c]] = c]
              /\ pc' = [pc EXCEPT ![c] = "ok"]
           \/ /\ buddy' = [buddy EXCEPT ![c] = match[c]]
              /\ pc' = [pc EXCEPT ![c] = "okself"]
    BY <1>7 DEF Bond
  <2>2. match[c] \in Conns /\ match[c] # c
    BY <1>0, <2>1 DEF SelfInv, TokenInv, ConnInv
  <2>3. \A d \in Conns : pc'[d] \in Bonding \cup {"token"} =>
          pc[d] \in Bonding \/ (pc[d] = pc'[d] /\ d # c)
    BY <1>0, <2>1 DEF TypeOK
  <2>4. \A d \in Conns : pc'[d] \in Bonding => pc[d] \in Bonding
    BY <1>0, <2>1 DEF TypeOK
  <2>5. \A d \in Conns : buddy'[d] # d
    BY <1>0, <2>1, <2>2 DEF SelfInv, TypeOK
  <2>6. \A d \in Conns : pc'[d] = "write" => pc[d] = "write"
    BY <1>0, <2>1 DEF TypeOK
  <2> QED
    BY <2>1, <2>3, <2>4, <2>5, <2>6 DEF SelfInv
<1>8. ASSUME NEW c \in Conns, OkMatch(c) PROVE SelfInv'
  <2>1. /\ pc[c] \in Bonding /\ UNCHANGED <<match, pending, buddy, dest>>
        /\ pc' = pc \/ pc' = [pc EXCEPT ![c] = "bondself"]
    BY <1>8 DEF OkMatch
  <2> QED
    BY <1>0, <2>1, QuietSelf DEF TypeOK
<1>9. ASSUME NEW c \in Conns, OkSelf(c) PROVE SelfInv'
  <2>1. CASE isNil[c]
    BY <1>9, <2>1, QuietSelf DEF OkSelf
  <2>2. CASE ~isNil[c]
    <3>1. /\ pc' = [pc EXCEPT ![c] = "top"]
          /\ pending' = [pending EXCEPT ![Token(c)] = c]
          /\ match' = [match EXCEPT ![c] = None]
          /\ UNCHANGED <<buddy, dest>>
      BY <1>9, <2>2 DEF OkSelf
    <3> QED
      BY <1>0, <3>1 DEF SelfInv, TypeOK
  <2> QED
    BY <2>1, <2>2
<1> QED
  BY <1>1, <1>2, <1>3, <1>4, <1>5, <1>6, <1>7, <1>8, <1>9, <1>10, <1>11
  DEF Next, Step, ServerStep

\* Who can be written to.
Open == {c \in Conns : sock[c] = "open"}

WireStep == [Wire!Next]_(Wire!wire)

LEMMA WireStutter ==
  ASSUME UNCHANGED <<hello, seen, got, line>>, Open' = Open
  PROVE  WireStep
BY DEF WireStep, Wire!wire, Open

LEMMA WireTake ==
  ASSUME UNCHANGED <<hello, got>>, Open' = Open, NEW c \in Conns, line[c] = 0,
         NEW n \in seen[c] + 1 .. MaxLines, seen' = [seen EXCEPT ![c] = n],
         line' = [line EXCEPT ![c] = seen[c] + 1]
  PROVE  WireStep
<1>1. Wire!Take(c)
  BY DEF Wire!Take, Open
<1> QED
  BY <1>1 DEF WireStep, Wire!Next

LEMMA WireDrop ==
  ASSUME UNCHANGED <<hello, seen, got>>, Open' = Open, NEW c \in Conns,
         line[c] # 0, line' = [line EXCEPT ![c] = 0]
  PROVE  WireStep
<1>1. Wire!Drop(c)
  BY DEF Wire!Drop, Open
<1> QED
  BY <1>1 DEF WireStep, Wire!Next

LEMMA WireWrite ==
  ASSUME UNCHANGED <<hello, seen>>, Open' = Open, NEW c \in Conns,
         NEW d \in Conns, d \in Open, d # c, Mates(hello, c, d),
         line[c] > 1, line' = [line EXCEPT ![c] = 0],
         got' = [got EXCEPT ![d] = Append(got[d], [from |-> c, line |-> line[c]])]
  PROVE  WireStep
<1>1. Wire!Write(c, d)
  BY DEF Wire!Write, Wire!Mates, Mates, Open
<1> QED
  BY <1>1 DEF WireStep, Wire!Next

LEMMA WireLose ==
  ASSUME UNCHANGED <<hello, seen, got, line>>, NEW d \in Conns,
         d \in Open, Open' = Open \ {d}
  PROVE  WireStep
<1>1. Wire!Lose(d)
  BY DEF Wire!Lose, Open
<1> QED
  BY <1>1 DEF WireStep, Wire!Next

LEMMA WireNext ==
  ASSUME TInv, SelfInv, [Next]_vars
  PROVE  WireStep
<1> USE DEF At, Goto, fields, Dealing
<1>0. TypeOK /\ TokenInv /\ LineInv
  BY DEF TInv
<1>1. CASE UNCHANGED vars
  BY <1>1, WireStutter DEF vars, Open
<1>2. ASSUME NEW c \in Conns, Cut(c) PROVE WireStep
  <2>1. sock[c] = "open" /\ sock' = [sock EXCEPT ![c] = "cut"]
        /\ UNCHANGED <<hello, seen, got, line>>
    BY <1>2 DEF Cut
  <2>2. c \in Open /\ Open' = Open \ {c}
    BY <1>0, <2>1 DEF TypeOK, Open
  <2> QED
    BY <2>1, <2>2, WireLose
<1>3. ASSUME NEW c \in Conns,
             \/ NewReader(c) \/ ReadFails(c) \/ Pipe(c) \/ Impatient(c) \/ Wait(c)
             \/ Match(c) \/ Bond(c) \/ OkMatch(c) \/ OkSelf(c) \/ Close(c)
             \/ Unset(c) \/ CloseBuddy(c)
      PROVE  WireStep
  <2>1. UNCHANGED <<hello, seen, got, line, sock>>
    BY <1>3 DEF NewReader, ReadFails, Pipe, Impatient, Wait, Match, Bond, OkMatch,
                OkSelf, Close, Unset, CloseBuddy
  <2> QED
    BY <2>1, WireStutter DEF Open
<1>4. ASSUME NEW c \in Conns, ReadLine(c) PROVE WireStep
  <2>1. PICK n \in seen[c] + 1 .. MaxLines : seen' = [seen EXCEPT ![c] = n]
    BY <1>4 DEF ReadLine
  <2>2. /\ pc[c] = "read" /\ line' = [line EXCEPT ![c] = seen[c] + 1]
        /\ UNCHANGED <<hello, got, sock>>
    BY <1>4 DEF ReadLine
  <2>3. line[c] = 0
    <3>1. pc[c] \notin Dealing /\ line[c] \in Nat
      BY <1>0, <2>2, TransitAssumption DEF TypeOK
    <3> QED
      BY <1>0, <3>1 DEF LineInv, LineOf
  <2>4. Open' = Open
    BY <2>2 DEF Open
  <2> QED
    BY <2>1, <2>2, <2>3, <2>4, WireTake
<1>5. ASSUME NEW c \in Conns, Handle(c) PROVE WireStep
  <2>1. /\ pc[c] = "handle" /\ UNCHANGED <<hello, seen, sock, got>>
        /\ line' = [line EXCEPT ![c] = IF pc'[c] = "pipe" THEN line[c] ELSE 0]
    BY <1>5 DEF Handle
  <2>2. Open' = Open
    BY <2>1 DEF Open
  <2>3. line[c] # 0
    BY <1>0, <2>1 DEF LineInv, LineOf, TypeOK
  <2>4. CASE pc'[c] = "pipe"
    <3>1. line' = line
      BY <1>0, <2>1, <2>4 DEF TypeOK
    <3> QED
      BY <2>1, <2>2, <3>1, WireStutter
  <2>5. CASE pc'[c] # "pipe"
    BY <2>1, <2>2, <2>3, <2>5, WireDrop
  <2> QED
    BY <2>4, <2>5
<1>6. ASSUME NEW c \in Conns, Write(c) PROVE WireStep
  <2> DEFINE d == dest[c]
  <2>1. /\ pc[c] = "write" /\ UNCHANGED <<hello, seen, sock>>
        /\ line' = [line EXCEPT ![c] = 0]
    BY <1>6 DEF Write
  <2>2. Open' = Open
    BY <2>1 DEF Open
  <2>3. d \in Conns /\ d # c /\ Mates(hello, c, d)
    BY <1>0, <2>1 DEF TokenInv, ConnInv, SelfInv
  <2>4. line[c] > 1 /\ line[c] # 0
    <3>1. gotToken[c]
      BY <1>0, <2>1 DEF TokenInv, ConnInv
    <3> QED
      BY <1>0, <2>1, <3>1 DEF LineInv, LineOf, TypeOK
  <2>5. IF sock[d] = "open"
          THEN got' = [got EXCEPT ![d] = Append(got[d], [from |-> c, line |-> line[c]])]
          ELSE got' = got
    BY <1>0, <1>6, WriteGot
  <2>6. CASE sock[d] # "open"
    BY <2>1, <2>2, <2>4, <2>5, <2>6, WireDrop
  <2>7. CASE sock[d] = "open"
    <3>1. d \in Open
      BY <2>3, <2>7 DEF Open
    <3>2. got' = [got EXCEPT ![d] = Append(got[d], [from |-> c, line |-> line[c]])]
      BY <2>5, <2>7
    <3> HIDE DEF d
    <3> QED
      BY <2>1, <2>2, <2>3, <2>4, <3>1, <3>2, WireWrite
  <2> QED
    BY <2>6, <2>7
<1>7. ASSUME NEW c \in Conns, Shut(c) PROVE WireStep
  <2> DEFINE x == target[c]
  <2>1. /\ UNCHANGED <<hello, seen, line, got>>
        /\ sock' = sock \/ sock' = [sock EXCEPT ![x] = "closed"]
    BY <1>7 DEF Shut
  <2>2. x \in Conns
    BY <1>0 DEF TypeOK
  <2>3. Open' = Open \/ (x \in Open /\ Open' = Open \ {x})
    <3>1. CASE sock' = sock
      BY <3>1 DEF Open
    <3>2. CASE sock' = [sock EXCEPT ![x] = "closed"]
      BY <1>0, <2>2, <3>2 DEF Open, TypeOK
    <3> QED
      BY <2>1, <3>1, <3>2
  <2> QED
    BY <2>1, <2>2, <2>3, WireStutter, WireLose
<1> QED
  BY <1>1, <1>2, <1>3, <1>4, <1>5, <1>6, <1>7 DEF Next, Step, ServerStep

\* The transit server, for any number of clients that name a token, leave and
\* take over each other's Buddy, implements the wire: no line goes to two
\* clients, to its own sender, or to one that cannot be written to any more.
THEOREM TransitImplementsWire == Spec => WireSpec
<1>1. Init => Wire!Init
  BY DEF Init, Wire!Init
<1>2. TInv /\ SelfInv /\ [Next]_vars => SelfInv'
  BY SelfNext
<1>3. TInv /\ SelfInv /\ [Next]_vars => [Wire!Next]_(Wire!wire)
  BY WireNext DEF WireStep
<1> QED
  BY <1>1, <1>2, <1>3, InitSelf, TransitInvariance, PTL
  DEF Spec, WireSpec, Wire!Spec

=============================================================================
