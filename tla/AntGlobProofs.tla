---------------------------- MODULE AntGlobProofs ----------------------------
(***************************************************************************)
(* Proofs about AntGlob, for every pattern and every path: into which      *)
(* tokens a pattern is cut, what the tokens take, and that the patterns    *)
(* of the convention match the paths that fit.                             *)
(***************************************************************************)
EXTENDS AntGlob, FiniteSetTheorems, SequenceTheorems, WellFoundedInduction, TLAPS

-----------------------------------------------------------------------------
(* Numbers.                                                                 *)

(* A set of numbers has a least one.                                        *)
LEMMA Least ==
  ASSUME NEW T, T \subseteq Nat, T # {}
  PROVE  \E x \in T : \A y \in T : ~(y < x)
<1> DEFINE R == {ss \in Nat \X Nat : ss[1] < ss[2]}
<1>1. IsWellFoundedOn(R, Nat)
  BY NatLessThanWellFounded DEF OpToRel
<1> HIDE DEF R
<1>2. \E x \in T : \A y \in T : ~(<<y, x>> \in R)
  BY <1>1, WFMin
<1> QED
  BY <1>2 DEF R

(* Induction on the set of the numbers for which something holds.           *)
LEMMA NatSetInduction ==
  ASSUME NEW S, 0 \in S, \A n \in Nat : n \in S => n + 1 \in S
  PROVE  \A n \in Nat : n \in S
<1> SUFFICES ASSUME Nat \ S # {} PROVE FALSE
  OBVIOUS
<1>1. PICK T : T = Nat \ S
  OBVIOUS
<1>2. PICK x \in T : \A y \in T : ~(y < x)
  BY <1>1, Least
<1>3. x \in Nat /\ x # 0
  BY <1>1
<1>4. x - 1 \in Nat /\ x - 1 < x /\ (x - 1) + 1 = x
  BY <1>3
<1>5. x - 1 \in S
  BY <1>1, <1>2, <1>4
<1> QED
  BY <1>1, <1>4, <1>5

-----------------------------------------------------------------------------
(* The loop of Matches, from the last token to the first.                   *)
Places(tokens, text, f, i) ==
  IF i > Len(tokens) THEN {Len(text) + 1}
  ELSE {j \in 1 .. Len(text) + 1 : \E k \in f[i + 1] :
          j <= k /\ Accepts(tokens[i], SubSeq(text, j, k - 1))}
PlacesOf(tokens, text, f) ==
  f = [i \in 1 .. Len(tokens) + 1 |-> Places(tokens, text, f, i)]

(* There are places for every token.                                        *)
LEMMA PlacesExist ==
  ASSUME NEW tokens, Len(tokens) \in Nat, NEW text
  PROVE  \E f : PlacesOf(tokens, text, f)
<1> DEFINE L == Len(tokens)
           Row(f, n) == \A i \in L + 1 - n .. L + 1 : f[i] = Places(tokens, text, f, i)
           S == {n \in Nat : n <= L => \E f : f = [i \in 1 .. L + 1 |-> f[i]] /\ Row(f, n)}
<1>1. 0 \in S
  <2>1. PICK f : f = [i \in 1 .. L + 1 |-> {Len(text) + 1}]
    OBVIOUS
  <2>2. f = [i \in 1 .. L + 1 |-> f[i]]
    BY <2>1
  <2>3. Row(f, 0)
    BY <2>1 DEF Places
  <2> QED
    BY <2>2, <2>3
<1>2. ASSUME NEW n \in Nat, n \in S PROVE n + 1 \in S
  <2> SUFFICES ASSUME n + 1 <= L
               PROVE  \E f : f = [i \in 1 .. L + 1 |-> f[i]] /\ Row(f, n + 1)
    OBVIOUS
  <2>1. PICK f : f = [i \in 1 .. L + 1 |-> f[i]] /\ Row(f, n)
    BY <1>2
  <2>2. PICK h : h = [i \in 1 .. L + 1 |-> IF i = L - n THEN Places(tokens, text, f, i) ELSE f[i]]
    OBVIOUS
  <2>3. h = [i \in 1 .. L + 1 |-> h[i]]
    BY <2>2
  <2>4. ASSUME NEW i \in L - n .. L + 1
        PROVE  Places(tokens, text, h, i) = Places(tokens, text, f, i)
    <3>1. CASE i = L + 1
      BY <3>1 DEF Places
    <3>2. CASE i # L + 1
      <4>1. i + 1 \in 1 .. L + 1 /\ i + 1 # L - n
        BY <3>2
      <4>2. h[i + 1] = f[i + 1]
        BY <2>2, <4>1
      <4> QED
        BY <4>2, Zenon DEF Places
    <3> QED
      BY <3>1, <3>2
  <2>5. ASSUME NEW i \in L - n .. L + 1 PROVE h[i] = Places(tokens, text, f, i)
    <3>1. i \in 1 .. L + 1 /\ (i # L - n => i \in L + 1 - n .. L + 1)
      OBVIOUS
    <3>2. h[i] = IF i = L - n THEN Places(tokens, text, f, i) ELSE f[i]
      BY <2>2, <3>1
    <3> QED
      BY <2>1, <3>1, <3>2
  <2>6. Row(h, n + 1)
    <3>1. L + 1 - (n + 1) = L - n
      OBVIOUS
    <3> QED
      BY <2>4, <2>5, <3>1
  <2> QED
    BY <2>3, <2>6
<1>3. L \in S
  <2> HIDE DEF S
  <2> QED
    BY <1>1, <1>2, NatSetInduction
<1>4. PICK f : f = [i \in 1 .. L + 1 |-> f[i]] /\ Row(f, L)
  BY <1>3
<1>5. \A i \in 1 .. L + 1 : f[i] = Places(tokens, text, f, i)
  BY <1>4
<1>6. f = [i \in 1 .. L + 1 |-> Places(tokens, text, f, i)]
  BY <1>4, <1>5, Zenon
<1> QED
  BY <1>6 DEF PlacesOf

(* Matches looks for the first place among those of the first token.        *)
LEMMA MatchesIs ==
  ASSUME NEW tokens, Len(tokens) \in Nat, NEW text
  PROVE  \E f : /\ \A i \in 1 .. Len(tokens) + 1 : f[i] = Places(tokens, text, f, i)
                /\ Matches(tokens, text) <=> 1 \in f[1]
<1> DEFINE f == CHOOSE f : PlacesOf(tokens, text, f)
<1>1. PlacesOf(tokens, text, f)
  BY PlacesExist, Zenon
<1>2. Matches(tokens, text) <=> 1 \in f[1]
  BY Zenon DEF Matches, PlacesOf, Places
<1> HIDE DEF f
<1>3. \A i \in 1 .. Len(tokens) + 1 : f[i] = Places(tokens, text, f, i)
  BY <1>1, Zenon DEF PlacesOf
<1> QED
  BY <1>2, <1>3

(* A prefix, atom by atom.                                                  *)
LEMMA PrefixIs ==
  ASSUME NEW C, NEW D, NEW s \in Seq(C), NEW p \in Seq(D)
  PROVE  IsPrefix(s, p) <=> Len(s) <= Len(p) /\ \A k \in 1 .. Len(s) : s[k] = p[k]
<1>1. ASSUME Len(s) <= Len(p)
      PROVE  SubSeq(s, 1, Len(s)) = SubSeq(p, 1, Len(s)) <=> \A k \in 1 .. Len(s) : s[k] = p[k]
  BY <1>1
<1> QED
  BY <1>1 DEF IsPrefix

(* The alternatives of _ANT_RE by their numbers.                            *)
LEMMA AlternativesAre ==
  /\ DOMAIN Alternatives = 1 .. 5
  /\ Alternatives[1] = <<"/", "*", "*", "/">> /\ Alternatives[2] = <<"*", "*", "/">>
  /\ Alternatives[3] = <<"/", "*", "*">> /\ Alternatives[4] = <<"*">>
  /\ Alternatives[5] = <<"/">>
BY DEF Alternatives

(* Which alternatives fit is a matter of the first four atoms.              *)
LEMMA FitIs ==
  ASSUME NEW C, NEW p \in Seq(C), p # <<>>
  PROVE  /\ IsPrefix(Alternatives[1], p) <=>
              Len(p) >= 4 /\ p[1] = "/" /\ p[2] = "*" /\ p[3] = "*" /\ p[4] = "/"
         /\ IsPrefix(Alternatives[2], p) <=>
              Len(p) >= 3 /\ p[1] = "*" /\ p[2] = "*" /\ p[3] = "/"
         /\ IsPrefix(Alternatives[3], p) <=>
              Len(p) >= 3 /\ p[1] = "/" /\ p[2] = "*" /\ p[3] = "*"
         /\ IsPrefix(Alternatives[4], p) <=> p[1] = "*"
         /\ IsPrefix(Alternatives[5], p) <=> p[1] = "/"
<1>1. Len(p) \in Nat /\ Len(p) >= 1
  OBVIOUS
<1>2. IsPrefix(Alternatives[1], p) <=>
        Len(p) >= 4 /\ p[1] = "/" /\ p[2] = "*" /\ p[3] = "*" /\ p[4] = "/"
  <2>0. <<"/", "*", "*", "/">> \in Seq({"*", "/"})
    OBVIOUS
  <2>1. PICK s \in Seq({"*", "/"}) : s = <<"/", "*", "*", "/">>
    BY <2>0
  <2>2. Len(s) = 4 /\ s[1] = "/" /\ s[2] = "*" /\ s[3] = "*" /\ s[4] = "/"
    BY <2>1
  <2>3. IsPrefix(s, p) <=> Len(s) <= Len(p) /\ \A k \in 1 .. Len(s) : s[k] = p[k]
    BY PrefixIs
  <2>4. 1 .. Len(s) = {1, 2, 3, 4}
    BY <2>2
  <2> QED
    BY <1>1, <2>1, <2>2, <2>3, <2>4, AlternativesAre
<1>3. IsPrefix(Alternatives[2], p) <=>
        Len(p) >= 3 /\ p[1] = "*" /\ p[2] = "*" /\ p[3] = "/"
  <2>0. <<"*", "*", "/">> \in Seq({"*", "/"})
    OBVIOUS
  <2>1. PICK s \in Seq({"*", "/"}) : s = <<"*", "*", "/">>
    BY <2>0
  <2>2. Len(s) = 3 /\ s[1] = "*" /\ s[2] = "*" /\ s[3] = "/"
    BY <2>1
  <2>3. IsPrefix(s, p) <=> Len(s) <= Len(p) /\ \A k \in 1 .. Len(s) : s[k] = p[k]
    BY PrefixIs
  <2>4. 1 .. Len(s) = {1, 2, 3}
    BY <2>2
  <2> QED
    BY <1>1, <2>1, <2>2, <2>3, <2>4, AlternativesAre
<1>4. IsPrefix(Alternatives[3], p) <=>
        Len(p) >= 3 /\ p[1] = "/" /\ p[2] = "*" /\ p[3] = "*"
  <2>0. <<"/", "*", "*">> \in Seq({"*", "/"})
    OBVIOUS
  <2>1. PICK s \in Seq({"*", "/"}) : s = <<"/", "*", "*">>
    BY <2>0
  <2>2. Len(s) = 3 /\ s[1] = "/" /\ s[2] = "*" /\ s[3] = "*"
    BY <2>1
  <2>3. IsPrefix(s, p) <=> Len(s) <= Len(p) /\ \A k \in 1 .. Len(s) : s[k] = p[k]
    BY PrefixIs
  <2>4. 1 .. Len(s) = {1, 2, 3}
    BY <2>2
  <2> QED
    BY <1>1, <2>1, <2>2, <2>3, <2>4, AlternativesAre
<1>5. ASSUME NEW a PROVE IsPrefix(<<a>>, p) <=> p[1] = a
  <2>0. <<a>> \in Seq({a})
    OBVIOUS
  <2>1. PICK s \in Seq({a}) : s = <<a>>
    BY <2>0
  <2>2. Len(s) = 1 /\ s[1] = a /\ 1 .. Len(s) = {1}
    BY <2>1
  <2>3. IsPrefix(s, p) <=> Len(s) <= Len(p) /\ \A k \in 1 .. Len(s) : s[k] = p[k]
    BY PrefixIs
  <2> QED
    BY <1>1, <2>1, <2>2, <2>3
<1>6. IsPrefix(Alternatives[4], p) <=> p[1] = "*"
  BY <1>5, AlternativesAre
<1>7. IsPrefix(Alternatives[5], p) <=> p[1] = "/"
  BY <1>5, AlternativesAre
<1> QED
  BY <1>2, <1>3, <1>4, <1>6, <1>7, Zenon

(* The first alternative that fits is the token.                            *)
LEMMA TokenIs ==
  ASSUME NEW p, NEW i \in 1 .. 5, IsPrefix(Alternatives[i], p),
         \A j \in 1 .. 5 : j < i => ~IsPrefix(Alternatives[j], p)
  PROVE  Token(p) = Alternatives[i]
<1> DEFINE fit == {k \in DOMAIN Alternatives : IsPrefix(Alternatives[k], p)}
<1>1. i \in fit /\ \A j \in fit : i <= j
  BY AlternativesAre
<1>2. \A k : k \in fit /\ (\A j \in fit : k <= j) => k = i
  BY <1>1, AlternativesAre
<1>3. (CHOOSE k \in fit : \A j \in fit : k <= j) = i
  BY <1>1, <1>2
<1>4. Token(p) = Alternatives[CHOOSE k \in fit : \A j \in fit : k <= j]
  BY <1>1, Zenon DEF Token
<1> QED
  BY <1>3, <1>4

(* The tokens of the patterns that occur.                                  *)
LEMMA TokenCases ==
  ASSUME NEW C, NEW p \in Seq(C), p # <<>>
  PROVE  /\ p[1] \notin {"*", "/"} => Token(p) = <<p[1]>>
         /\ Len(p) >= 3 /\ p[1] = "*" /\ p[2] = "*" /\ p[3] = "/" => Token(p) = <<"*", "*", "/">>
         /\ p[1] = "*" /\ (Len(p) >= 2 => p[2] # "*") => Token(p) = <<"*">>
         /\ Len(p) = 3 /\ p[1] = "/" /\ p[2] = "*" /\ p[3] = "*" => Token(p) = <<"/", "*", "*">>
<1>0. Len(p) \in Nat /\ Head(p) = p[1]
  OBVIOUS
<1>1. CASE p[1] \notin {"*", "/"}
  <2>1. {k \in DOMAIN Alternatives : IsPrefix(Alternatives[k], p)} = {}
    <3>1. \A k \in 1 .. 5 : k = 1 \/ k = 2 \/ k = 3 \/ k = 4 \/ k = 5
      OBVIOUS
    <3>2. \A k \in 1 .. 5 : ~IsPrefix(Alternatives[k], p)
      BY <1>1, <3>1, FitIs
    <3> QED
      BY <3>2, AlternativesAre
  <2> QED
    BY <1>0, <1>1, <2>1 DEF Token
<1>2. CASE Len(p) >= 3 /\ p[1] = "*" /\ p[2] = "*" /\ p[3] = "/"
  <2>1. IsPrefix(Alternatives[2], p) /\ ~IsPrefix(Alternatives[1], p)
    BY <1>2, FitIs
  <2>2. \A j \in 1 .. 5 : j < 2 => j = 1
    OBVIOUS
  <2>3. Token(p) = Alternatives[2]
    BY <2>1, <2>2, TokenIs
  <2> QED
    BY <1>2, <2>3, AlternativesAre
<1>3. CASE p[1] = "*" /\ (Len(p) >= 2 => p[2] # "*")
  <2>1. IsPrefix(Alternatives[4], p) /\ ~IsPrefix(Alternatives[1], p)
        /\ ~IsPrefix(Alternatives[2], p) /\ ~IsPrefix(Alternatives[3], p)
    BY <1>0, <1>3, FitIs
  <2>2. \A j \in 1 .. 5 : j < 4 => j = 1 \/ j = 2 \/ j = 3
    OBVIOUS
  <2>3. Token(p) = Alternatives[4]
    BY <2>1, <2>2, TokenIs
  <2> QED
    BY <1>0, <1>3, <2>3, AlternativesAre
<1>4. CASE Len(p) = 3 /\ p[1] = "/" /\ p[2] = "*" /\ p[3] = "*"
  <2>1. IsPrefix(Alternatives[3], p) /\ ~IsPrefix(Alternatives[1], p)
        /\ ~IsPrefix(Alternatives[2], p)
    BY <1>4, FitIs
  <2>2. \A j \in 1 .. 5 : j < 3 => j = 1 \/ j = 2
    OBVIOUS
  <2>3. Token(p) = Alternatives[3]
    BY <2>1, <2>2, TokenIs
  <2> QED
    BY <1>4, <2>3, AlternativesAre
<1> QED
  BY <1>0, <1>1, <1>2, <1>3, <1>4, Zenon

(* A token is neither empty nor longer than the pattern.                    *)
LEMMA TokenShort ==
  ASSUME NEW C, NEW p \in Seq(C), p # <<>>
  PROVE  Len(Token(p)) \in 1 .. Len(p)
<1> DEFINE fit == {k \in DOMAIN Alternatives : IsPrefix(Alternatives[k], p)}
<1>1. Len(p) \in Nat /\ Len(p) >= 1
  OBVIOUS
<1>2. CASE fit = {}
  BY <1>1, <1>2 DEF Token
<1>3. CASE fit # {}
  <2>1. PICK i \in fit : \A j \in fit : ~(j < i)
    <3>1. fit \subseteq Nat
      BY AlternativesAre
    <3> HIDE DEF fit
    <3> QED
      BY <1>3, <3>1, Least
  <2>2. i \in 1 .. 5 /\ IsPrefix(Alternatives[i], p)
    BY AlternativesAre
  <2>3. \A j \in 1 .. 5 : j < i => ~IsPrefix(Alternatives[j], p)
    BY <2>1, AlternativesAre
  <2>4. Token(p) = Alternatives[i]
    BY <2>2, <2>3, TokenIs
  <2>5. Len(Alternatives[i]) <= Len(p)
    BY <2>2 DEF IsPrefix
  <2>6. Len(Alternatives[i]) \in 1 .. 4
    <3>1. i = 1 \/ i = 2 \/ i = 3 \/ i = 4 \/ i = 5
      BY <2>2
    <3>2. Len(<<"/", "*", "*", "/">>) = 4 /\ Len(<<"*", "*", "/">>) = 3
          /\ Len(<<"/", "*", "*">>) = 3 /\ Len(<<"*">>) = 1 /\ Len(<<"/">>) = 1
      OBVIOUS
    <3>3. Len(Alternatives[i]) \in {1, 3, 4}
      BY <3>1, <3>2, AlternativesAre, Zenon
    <3> QED
      BY <3>3
  <2> HIDE DEF fit
  <2>7. \A n \in 1 .. 4 : n <= Len(p) => n \in 1 .. Len(p)
    BY <1>1
  <2>8. Len(Alternatives[i]) \in 1 .. Len(p)
    BY <2>5, <2>6, <2>7, Zenon
  <2> QED
    BY <2>4, <2>8, Zenon
<1> QED
  BY <1>2, <1>3

-----------------------------------------------------------------------------
(* The loop of Tokens, from the end of the pattern.                         *)
Rest(p, f, i) ==
  IF i > Len(p) THEN <<>>
  ELSE <<Token(SubSeq(p, i, Len(p)))>> \o f[i + Len(Token(SubSeq(p, i, Len(p))))]
RestOf(p, f) == f = [i \in 1 .. Len(p) + 1 |-> Rest(p, f, i)]

(* After a token the loop goes on behind it, within the pattern.            *)
LEMMA RestOn ==
  ASSUME NEW C, NEW p \in Seq(C), NEW i \in 1 .. Len(p)
  PROVE  i + Len(Token(SubSeq(p, i, Len(p)))) \in i + 1 .. Len(p) + 1
<1>1. SubSeq(p, i, Len(p)) \in Seq(C) /\ Len(SubSeq(p, i, Len(p))) = Len(p) + 1 - i
  OBVIOUS
<1>2. PICK q \in Seq(C) : q = SubSeq(p, i, Len(p))
  BY <1>1
<1>3. q # <<>>
  <2>1. Len(q) >= 1
    BY <1>1, <1>2
  <2> QED
    BY <2>1
<1>4. Len(Token(q)) \in 1 .. Len(p) + 1 - i
  <2>1. Len(Token(q)) \in 1 .. Len(q)
    BY <1>3, TokenShort
  <2> QED
    BY <1>1, <1>2, <2>1
<1>5. PICK n : n = Len(Token(q))
  OBVIOUS
<1>6. n \in 1 .. Len(p) + 1 - i => i + n \in i + 1 .. Len(p) + 1
  OBVIOUS
<1> QED
  BY <1>2, <1>4, <1>5, <1>6

(* There is a rest from every place of the pattern.                         *)
LEMMA RestExist ==
  ASSUME NEW C, NEW p \in Seq(C)
  PROVE  \E f : RestOf(p, f)
<1> DEFINE L == Len(p)
           Row(f, n) == \A i \in L + 1 - n .. L + 1 : f[i] = Rest(p, f, i)
           S == {n \in Nat : n <= L => \E f : f = [i \in 1 .. L + 1 |-> f[i]] /\ Row(f, n)}
<1>0. L \in Nat
  OBVIOUS
<1>1. 0 \in S
  <2>1. PICK f : f = [i \in 1 .. L + 1 |-> <<>>]
    OBVIOUS
  <2>2. f = [i \in 1 .. L + 1 |-> f[i]]
    BY <2>1
  <2>3. Row(f, 0)
    BY <2>1 DEF Rest
  <2> QED
    BY <2>2, <2>3
<1>2. ASSUME NEW n \in Nat, n \in S PROVE n + 1 \in S
  <2> SUFFICES ASSUME n + 1 <= L
               PROVE  \E f : f = [i \in 1 .. L + 1 |-> f[i]] /\ Row(f, n + 1)
    OBVIOUS
  <2>1. PICK f : f = [i \in 1 .. L + 1 |-> f[i]] /\ Row(f, n)
    BY <1>2
  <2>2. PICK h : h = [i \in 1 .. L + 1 |-> IF i = L - n THEN Rest(p, f, i) ELSE f[i]]
    OBVIOUS
  <2>3. h = [i \in 1 .. L + 1 |-> h[i]]
    BY <2>2
  <2>4. ASSUME NEW i \in L - n .. L + 1
        PROVE  Rest(p, h, i) = Rest(p, f, i)
    <3>1. CASE i = L + 1
      BY <3>1 DEF Rest
    <3>2. CASE i # L + 1
      <4>1. i \in 1 .. Len(p)
        BY <1>0, <3>2
      <4>2. PICK k : k = i + Len(Token(SubSeq(p, i, Len(p))))
        OBVIOUS
      <4>3. k \in i + 1 .. Len(p) + 1
        BY <4>1, <4>2, RestOn
      <4>4. k \in 1 .. L + 1 /\ k # L - n
        BY <4>1, <4>3
      <4>5. h[k] = f[k]
        BY <2>2, <4>4
      <4> QED
        BY <4>2, <4>5, Zenon DEF Rest
    <3> QED
      BY <3>1, <3>2
  <2>5. ASSUME NEW i \in L - n .. L + 1 PROVE h[i] = Rest(p, f, i)
    <3>1. i \in 1 .. L + 1 /\ (i # L - n => i \in L + 1 - n .. L + 1)
      OBVIOUS
    <3>2. h[i] = IF i = L - n THEN Rest(p, f, i) ELSE f[i]
      BY <2>2, <3>1
    <3> QED
      BY <2>1, <3>1, <3>2
  <2>6. Row(h, n + 1)
    <3>1. L + 1 - (n + 1) = L - n
      OBVIOUS
    <3> QED
      BY <2>4, <2>5, <3>1
  <2> QED
    BY <2>3, <2>6
<1>3. L \in S
  <2> HIDE DEF S
  <2> QED
    BY <1>0, <1>1, <1>2, NatSetInduction
<1>4. PICK f : f = [i \in 1 .. L + 1 |-> f[i]] /\ Row(f, L)
  BY <1>3
<1>5. \A i \in 1 .. L + 1 : f[i] = Rest(p, f, i)
  BY <1>4
<1>6. f = [i \in 1 .. L + 1 |-> Rest(p, f, i)]
  BY <1>4, <1>5, Zenon
<1> QED
  BY <1>6 DEF RestOf

(* One token after another.                                                 *)
LEMMA TokensIs ==
  ASSUME NEW C, NEW p \in Seq(C)
  PROVE  \E f : /\ Tokens(p) = f[1] /\ f[Len(p) + 1] = <<>>
                /\ \A i \in 1 .. Len(p) :
                     f[i] = <<Token(SubSeq(p, i, Len(p)))>>
                              \o f[i + Len(Token(SubSeq(p, i, Len(p))))]
<1> DEFINE f == CHOOSE f : RestOf(p, f)
<1>1. RestOf(p, f)
  BY RestExist, Zenon
<1>2. Tokens(p) = f[1]
  BY Zenon DEF Tokens, RestOf, Rest
<1> HIDE DEF f
<1>3. \A i \in 1 .. Len(p) + 1 : f[i] = Rest(p, f, i)
  BY <1>1, Zenon DEF RestOf
<1>4. f[Len(p) + 1] = <<>>
  <2>1. Len(p) + 1 \in 1 .. Len(p) + 1 /\ Len(p) + 1 > Len(p)
    OBVIOUS
  <2> QED
    BY <1>3, <2>1, Zenon DEF Rest
<1>5. \A i \in 1 .. Len(p) : i \in 1 .. Len(p) + 1 /\ ~(i > Len(p))
  OBVIOUS
<1>6. \A i \in 1 .. Len(p) :
        f[i] = <<Token(SubSeq(p, i, Len(p)))>> \o f[i + Len(Token(SubSeq(p, i, Len(p))))]
  BY <1>3, <1>5, Zenon DEF Rest
<1> QED
  BY <1>2, <1>4, <1>6

(* Short sequences are their elements.                                      *)
LEMMA Small ==
  ASSUME NEW C, NEW q \in Seq(C)
  PROVE  /\ Len(q) = 1 => q = <<q[1]>>
         /\ Len(q) = 2 => q = <<q[1], q[2]>>
         /\ Len(q) = 3 => q = <<q[1], q[2], q[3]>>
OBVIOUS

(* Short sequences joined.                                                  *)
LEMMA Joins ==
  ASSUME NEW a, NEW b, NEW c
  PROVE  /\ <<a>> \o <<>> = <<a>> /\ <<a>> \o <<b>> = <<a, b>>
         /\ <<a>> \o <<b, c>> = <<a, b, c>>
<1>1. <<a>> \in Seq({a, b, c}) /\ <<b>> \in Seq({a, b, c}) /\ <<b, c>> \in Seq({a, b, c})
  OBVIOUS
<1>2. /\ Len(<<a>>) = 1 /\ Len(<<b>>) = 1 /\ Len(<<b, c>>) = 2
      /\ <<a>>[1] = a /\ <<b>>[1] = b /\ <<b, c>>[1] = b /\ <<b, c>>[2] = c
  OBVIOUS
<1>3. <<a>> \o <<>> = <<a>>
  BY <1>1, ConcatEmptySeq
<1>4. <<a>> \o <<b>> = <<a, b>>
  <2>1. <<a>> \o <<b>> \in Seq({a, b, c})
    BY <1>1, ConcatProperties
  <2>2. PICK q \in Seq({a, b, c}) : q = <<a>> \o <<b>>
    BY <2>1
  <2>3. /\ Len(q) = 1 + 1
        /\ \A i \in 1 .. 1 + 1 : q[i] = IF i <= 1 THEN <<a>>[i] ELSE <<b>>[i - 1]
    BY <1>1, <1>2, <2>2, ConcatProperties
  <2>4. Len(q) = 2 /\ q[1] = a /\ q[2] = b
    BY <1>2, <2>3
  <2> QED
    BY <2>2, <2>4, Small
<1>5. <<a>> \o <<b, c>> = <<a, b, c>>
  <2>1. <<a>> \o <<b, c>> \in Seq({a, b, c})
    BY <1>1, ConcatProperties
  <2>2. PICK q \in Seq({a, b, c}) : q = <<a>> \o <<b, c>>
    BY <2>1
  <2>3. /\ Len(q) = 1 + 2
        /\ \A i \in 1 .. 1 + 2 : q[i] = IF i <= 1 THEN <<a>>[i] ELSE <<b, c>>[i - 1]
    BY <1>1, <1>2, <2>2, ConcatProperties
  <2>4. Len(q) = 3 /\ q[1] = a /\ q[2] = b /\ q[3] = c
    BY <1>2, <2>3
  <2> QED
    BY <2>2, <2>4, Small
<1> QED
  BY <1>3, <1>4, <1>5

(* What is left of a pattern when all but one, two or three atoms are gone. *)
LEMMA Ends ==
  ASSUME NEW C, NEW p \in Seq(C), NEW n \in Nat, Len(p) = n
  PROVE  /\ n >= 1 => SubSeq(p, n, n) = <<p[n]>>
         /\ n >= 2 => SubSeq(p, n - 1, n) = <<p[n - 1], p[n]>>
         /\ n >= 3 => SubSeq(p, n - 2, n) = <<p[n - 2], p[n - 1], p[n]>>
         /\ SubSeq(p, 1, n) = p
<1>0. \A m \in 1 .. n : \A i \in m .. n : p[i] \in C
  OBVIOUS
<1>1. \A m \in 1 .. n : /\ SubSeq(p, m, n) \in Seq(C) /\ Len(SubSeq(p, m, n)) = n - m + 1
                       /\ \A i \in 1 .. n - m + 1 : SubSeq(p, m, n)[i] = p[m + i - 1]
  BY <1>0, SubSeqProperties
<1>2. ASSUME n >= 1 PROVE SubSeq(p, n, n) = <<p[n]>>
  <2>0. n \in 1 .. n /\ n - n + 1 = 1 /\ n + 1 - 1 = n
    BY <1>2
  <2>1. PICK q \in Seq(C) : q = SubSeq(p, n, n)
    BY <1>1, <2>0
  <2>2. Len(q) = 1 /\ q[1] = p[n]
    BY <1>1, <2>0, <2>1
  <2> QED
    BY <2>1, <2>2, Small
<1>3. ASSUME n >= 2 PROVE SubSeq(p, n - 1, n) = <<p[n - 1], p[n]>>
  <2>0. n - 1 \in 1 .. n /\ n - (n - 1) + 1 = 2 /\ (n - 1) + 2 - 1 = n
    BY <1>3
  <2>1. PICK q \in Seq(C) : q = SubSeq(p, n - 1, n)
    BY <1>1, <2>0
  <2>2. Len(q) = 2 /\ q[1] = p[n - 1] /\ q[2] = p[n]
    BY <1>1, <2>0, <2>1
  <2> QED
    BY <2>1, <2>2, Small
<1>4. ASSUME n >= 3 PROVE SubSeq(p, n - 2, n) = <<p[n - 2], p[n - 1], p[n]>>
  <2>0. n - 2 \in 1 .. n /\ n - (n - 2) + 1 = 3 /\ (n - 2) + 2 - 1 = n - 1 /\ (n - 2) + 3 - 1 = n
    BY <1>4
  <2>1. PICK q \in Seq(C) : q = SubSeq(p, n - 2, n)
    BY <1>1, <2>0
  <2>2. Len(q) = 3 /\ q[1] = p[n - 2] /\ q[2] = p[n - 1] /\ q[3] = p[n]
    BY <1>1, <2>0, <2>1
  <2> QED
    BY <2>1, <2>2, Small
<1> QED
  BY <1>2, <1>3, <1>4, SubSeqFull

(* The tokens of an include pattern.                                        *)
LEMMA SourceTokens ==
  ASSUME NEW x, x \notin {"*", "/"}
  PROVE  Tokens(<<"*", "*", "/", "*", x>>) = << <<"*", "*", "/">>, <<"*">>, <<x>> >>
<1>0. <<"*", "*", "/", "*", x>> \in Seq({"*", "/", x})
  OBVIOUS
<1>1. PICK p \in Seq({"*", "/", x}) : p = <<"*", "*", "/", "*", x>>
  BY <1>0
<1>2. Len(p) = 5 /\ p[1] = "*" /\ p[2] = "*" /\ p[3] = "/" /\ p[4] = "*" /\ p[5] = x
  BY <1>1
<1>3. PICK f : /\ Tokens(p) = f[1] /\ f[Len(p) + 1] = <<>>
               /\ \A i \in 1 .. Len(p) :
                    f[i] = <<Token(SubSeq(p, i, Len(p)))>>
                             \o f[i + Len(Token(SubSeq(p, i, Len(p))))]
  BY TokensIs
<1>4. SubSeq(p, 1, 5) = p /\ SubSeq(p, 4, 5) = <<"*", x>> /\ SubSeq(p, 5, 5) = <<x>>
  BY <1>2, Ends
<1>5. Token(p) = <<"*", "*", "/">>
  BY <1>2, TokenCases
<1>6. Token(<<"*", x>>) = <<"*">>
  <2>1. <<"*", x>> \in Seq({"*", x}) /\ <<"*", x>> # <<>>
    OBVIOUS
  <2>2. Len(<<"*", x>>) = 2 /\ <<"*", x>>[1] = "*" /\ <<"*", x>>[2] = x
    OBVIOUS
  <2> QED
    BY <2>1, <2>2, TokenCases
<1>7. Token(<<x>>) = <<x>>
  <2>1. <<x>> \in Seq({x}) /\ <<x>> # <<>> /\ <<x>>[1] = x
    OBVIOUS
  <2> QED
    BY <2>1, TokenCases
<1>8. Len(<<"*", "*", "/">>) = 3 /\ Len(<<"*">>) = 1 /\ Len(<<x>>) = 1
  OBVIOUS
<1>9. f[6] = <<>> /\ f[5] = << <<x>> >> \o f[6]
  <2>1. 5 \in 1 .. Len(p) /\ 5 + 1 = 6
    BY <1>2
  <2>2. f[5] = <<Token(SubSeq(p, 5, 5))>> \o f[5 + Len(Token(SubSeq(p, 5, 5)))]
    BY <1>2, <1>3, <2>1, Zenon
  <2> QED
    BY <1>2, <1>3, <1>4, <1>7, <1>8, <2>1, <2>2, Zenon
<1>10. f[4] = << <<"*">> >> \o f[5]
  <2>1. 4 \in 1 .. Len(p) /\ 4 + 1 = 5
    BY <1>2
  <2>2. f[4] = <<Token(SubSeq(p, 4, 5))>> \o f[4 + Len(Token(SubSeq(p, 4, 5)))]
    BY <1>2, <1>3, <2>1, Zenon
  <2> QED
    BY <1>4, <1>6, <1>8, <2>1, <2>2, Zenon
<1>11. f[1] = << <<"*", "*", "/">> >> \o f[4]
  <2>1. 1 \in 1 .. Len(p) /\ 1 + 3 = 4
    BY <1>2
  <2>2. f[1] = <<Token(SubSeq(p, 1, 5))>> \o f[1 + Len(Token(SubSeq(p, 1, 5)))]
    BY <1>2, <1>3, <2>1, Zenon
  <2> QED
    BY <1>4, <1>5, <1>8, <2>1, <2>2, Zenon
<1> QED
  <2>1. f[5] = << <<x>> >>
    BY <1>9, Joins
  <2>2. f[4] = << <<"*">>, <<x>> >>
    BY <1>10, <2>1, Joins
  <2>3. \A a, b, c : <<a>> \o <<b, c>> = <<a, b, c>>
    BY Joins
  <2>4. f[1] = << <<"*", "*", "/">>, <<"*">>, <<x>> >>
    BY <1>11, <2>2, <2>3, Zenon
  <2> QED
    BY <1>1, <1>3, <2>4

(* The tokens of the exclude patterns.                                      *)
LEMMA GitTokens ==
  /\ Tokens(<<"*", "*", "/", ".git">>) = << <<"*", "*", "/">>, <<".git">> >>
  /\ Tokens(<<"*", "*", "/", ".git", "/", "*", "*">>)
       = << <<"*", "*", "/">>, <<".git">>, <<"/", "*", "*">> >>
<1>0. Len(<<"*", "*", "/">>) = 3 /\ Len(<<".git">>) = 1 /\ Len(<<"/", "*", "*">>) = 3
  OBVIOUS
<1>1. Token(<<".git">>) = <<".git">>
  <2>1. <<".git">> \in Seq({".git"}) /\ <<".git">> # <<>> /\ <<".git">>[1] = ".git"
    OBVIOUS
  <2> QED
    BY <2>1, TokenCases
<1>2. Tokens(<<"*", "*", "/", ".git">>) = << <<"*", "*", "/">>, <<".git">> >>
  <2>0. <<"*", "*", "/", ".git">> \in Seq({"*", "/", ".git"})
    OBVIOUS
  <2>1. PICK p \in Seq({"*", "/", ".git"}) : p = <<"*", "*", "/", ".git">>
    BY <2>0
  <2>2. Len(p) = 4 /\ p[1] = "*" /\ p[2] = "*" /\ p[3] = "/" /\ p[4] = ".git"
    BY <2>1
  <2>3. PICK f : /\ Tokens(p) = f[1] /\ f[Len(p) + 1] = <<>>
                 /\ \A i \in 1 .. Len(p) :
                      f[i] = <<Token(SubSeq(p, i, Len(p)))>>
                               \o f[i + Len(Token(SubSeq(p, i, Len(p))))]
    BY TokensIs
  <2>4. SubSeq(p, 1, 4) = p /\ SubSeq(p, 4, 4) = <<".git">>
    <3>1. 4 \in Nat /\ 4 >= 1
      OBVIOUS
    <3>2. SubSeq(p, 1, 4) = p /\ SubSeq(p, 4, 4) = <<p[4]>>
      BY <2>2, <3>1, Ends
    <3> QED
      BY <2>2, <3>2
  <2>5. Token(p) = <<"*", "*", "/">>
    <3>1. p # <<>>
      <4>1. Len(p) >= 1
        BY <2>2
      <4> QED
        BY <4>1
    <3>2. Len(p) >= 3 /\ p[1] = "*" /\ p[2] = "*" /\ p[3] = "/"
      BY <2>2
    <3> QED
      BY <3>1, <3>2, TokenCases
  <2>6. f[5] = <<>> /\ f[4] = << <<".git">> >> \o f[5]
    <3>1. 4 \in 1 .. Len(p) /\ 4 + 1 = 5
      BY <2>2
    <3>2. f[4] = <<Token(SubSeq(p, 4, 4))>> \o f[4 + Len(Token(SubSeq(p, 4, 4)))]
      BY <2>2, <2>3, <3>1, Zenon
    <3> QED
      BY <1>0, <1>1, <2>2, <2>3, <2>4, <3>1, <3>2, Zenon
  <2>7. f[1] = << <<"*", "*", "/">> >> \o f[4]
    <3>1. 1 \in 1 .. Len(p) /\ 1 + 3 = 4
      BY <2>2
    <3>2. f[1] = <<Token(SubSeq(p, 1, 4))>> \o f[1 + Len(Token(SubSeq(p, 1, 4)))]
      BY <2>2, <2>3, <3>1, Zenon
    <3> QED
      BY <1>0, <2>4, <2>5, <3>1, <3>2, Zenon
  <2>8. f[4] = << <<".git">> >>
    BY <2>6, Joins
  <2>9. f[1] = << <<"*", "*", "/">>, <<".git">> >>
    BY <2>7, <2>8, Joins
  <2> QED
    BY <2>1, <2>3, <2>9
<1>3. Tokens(<<"*", "*", "/", ".git", "/", "*", "*">>)
        = << <<"*", "*", "/">>, <<".git">>, <<"/", "*", "*">> >>
  <2>0. <<"*", "*", "/", ".git", "/", "*", "*">> \in Seq({"*", "/", ".git"})
    OBVIOUS
  <2>1. PICK p \in Seq({"*", "/", ".git"}) : p = <<"*", "*", "/", ".git", "/", "*", "*">>
    BY <2>0
  <2>2. Len(p) = 7 /\ p[1] = "*" /\ p[2] = "*" /\ p[3] = "/" /\ p[4] = ".git"
        /\ p[5] = "/" /\ p[6] = "*" /\ p[7] = "*"
    BY <2>1
  <2>3. PICK f : /\ Tokens(p) = f[1] /\ f[Len(p) + 1] = <<>>
                 /\ \A i \in 1 .. Len(p) :
                      f[i] = <<Token(SubSeq(p, i, Len(p)))>>
                               \o f[i + Len(Token(SubSeq(p, i, Len(p))))]
    BY TokensIs
  <2>4. SubSeq(p, 1, 7) = p /\ SubSeq(p, 5, 7) = <<"/", "*", "*">>
    <3>1. 7 \in Nat /\ 7 >= 3 /\ 7 - 2 = 5 /\ 7 - 1 = 6
      OBVIOUS
    <3>2. SubSeq(p, 1, 7) = p /\ SubSeq(p, 7 - 2, 7) = <<p[7 - 2], p[7 - 1], p[7]>>
      BY <2>2, <3>1, Ends
    <3> QED
      BY <2>2, <3>1, <3>2
  <2>5. Token(p) = <<"*", "*", "/">>
    <3>1. p # <<>>
      <4>1. Len(p) >= 1
        BY <2>2
      <4> QED
        BY <4>1
    <3>2. Len(p) >= 3 /\ p[1] = "*" /\ p[2] = "*" /\ p[3] = "/"
      BY <2>2
    <3> QED
      BY <3>1, <3>2, TokenCases
  <2>6. Token(SubSeq(p, 4, 7)) = <<".git">>
    <3>1. \A i \in 4 .. 7 : p[i] \in {"*", "/", ".git"}
      BY <2>2
    <3>2. /\ SubSeq(p, 4, 7) \in Seq({"*", "/", ".git"}) /\ Len(SubSeq(p, 4, 7)) = 4
          /\ SubSeq(p, 4, 7)[1] = ".git"
      BY <2>2, <3>1, SubSeqProperties
    <3>3. PICK q \in Seq({"*", "/", ".git"}) : q = SubSeq(p, 4, 7)
      BY <3>2
    <3>4. Len(q) = 4 /\ q[1] = ".git"
      BY <3>2, <3>3
    <3>5. q # <<>>
      <4>1. Len(q) >= 1
        BY <3>4
      <4> QED
        BY <4>1
    <3>6. Token(q) = <<".git">>
      BY <3>4, <3>5, TokenCases
    <3> QED
      BY <3>3, <3>6
  <2>7. Token(<<"/", "*", "*">>) = <<"/", "*", "*">>
    <3>1. PICK q : q = <<"/", "*", "*">>
      OBVIOUS
    <3>2. q \in Seq({"*", "/"}) /\ Len(q) = 3 /\ q[1] = "/" /\ q[2] = "*" /\ q[3] = "*"
      BY <3>1
    <3>3. q # <<>>
      BY <3>2
    <3>4. Token(q) = <<"/", "*", "*">>
      BY <3>2, <3>3, TokenCases
    <3> QED
      BY <3>1, <3>4
  <2>8. f[8] = <<>> /\ f[5] = << <<"/", "*", "*">> >> \o f[8]
    <3>1. 5 \in 1 .. Len(p) /\ 5 + 3 = 8 /\ 7 + 1 = 8
      BY <2>2
    <3>2. f[5] = <<Token(SubSeq(p, 5, 7))>> \o f[5 + Len(Token(SubSeq(p, 5, 7)))]
      BY <2>2, <2>3, <3>1, Zenon
    <3> QED
      BY <1>0, <2>2, <2>3, <2>4, <2>7, <3>1, <3>2, Zenon
  <2>9. f[4] = << <<".git">> >> \o f[5]
    <3>1. 4 \in 1 .. Len(p) /\ 4 + 1 = 5
      BY <2>2
    <3>2. f[4] = <<Token(SubSeq(p, 4, 7))>> \o f[4 + Len(Token(SubSeq(p, 4, 7)))]
      BY <2>2, <2>3, <3>1, Zenon
    <3> QED
      BY <1>0, <2>6, <3>1, <3>2, Zenon
  <2>10. f[1] = << <<"*", "*", "/">> >> \o f[4]
    <3>1. 1 \in 1 .. Len(p) /\ 1 + 3 = 4
      BY <2>2
    <3>2. f[1] = <<Token(SubSeq(p, 1, 7))>> \o f[1 + Len(Token(SubSeq(p, 1, 7)))]
      BY <2>2, <2>3, <3>1, Zenon
    <3> QED
      BY <1>0, <2>4, <2>5, <3>1, <3>2, Zenon
  <2>11. f[5] = << <<"/", "*", "*">> >>
    BY <2>8, Joins
  <2>12. f[4] = << <<".git">>, <<"/", "*", "*">> >>
    BY <2>9, <2>11, Joins
  <2>13. \A a, b, c : <<a>> \o <<b, c>> = <<a, b, c>>
    BY Joins
  <2>14. f[1] = << <<"*", "*", "/">>, <<".git">>, <<"/", "*", "*">> >>
    BY <2>10, <2>12, <2>13, Zenon
  <2> QED
    BY <2>1, <2>3, <2>14
<1> QED
  BY <1>2, <1>3

-----------------------------------------------------------------------------
(* What a token takes from a place to a place.                             *)
LEMMA AcceptsIs ==
  ASSUME NEW t
  PROVE  /\ Accepts(<<"*", "*", "/">>, t) <=> t = <<>> \/ Last(t) = "/"
         /\ Accepts(<<"*">>, t) <=> \A i \in DOMAIN t : t[i] # "/"
         /\ Accepts(<<"/", "*", "*">>, t) <=> t # <<>> /\ Head(t) = "/"
         /\ \A x : x # "*" => (Accepts(<<x>>, t) <=> t = <<x>>)
<1>1. /\ Len(<<"*", "*", "/">>) = 3 /\ Len(<<"/", "*", "*">>) = 3
      /\ Len(<<"/", "*", "*", "/">>) = 4
      /\ \A x : Len(<<x>>) = 1 /\ <<x>>[1] = x
  OBVIOUS
<1>2. <<"*", "*", "/">>[1] = "*" /\ <<"/", "*", "*">>[1] = "/"
  OBVIOUS
<1>3. Accepts(<<"*", "*", "/">>, t) <=> t = <<>> \/ Last(t) = "/"
  BY <1>1, <1>2 DEF Accepts
<1>4. Accepts(<<"*">>, t) <=> \A i \in DOMAIN t : t[i] # "/"
  BY <1>1, <1>2 DEF Accepts
<1>5. Accepts(<<"/", "*", "*">>, t) <=> t # <<>> /\ Head(t) = "/"
  BY <1>1, <1>2 DEF Accepts
<1>6. ASSUME NEW x, x # "*" PROVE Accepts(<<x>>, t) <=> t = <<x>>
  BY <1>1, <1>2, <1>6 DEF Accepts
<1> QED
  BY <1>3, <1>4, <1>5, <1>6

(* The expressions on a piece of a text.                                    *)
LEMMA PieceIs ==
  ASSUME NEW C, NEW t \in Seq(C), NEW j \in 1 .. Len(t) + 1, NEW k \in j .. Len(t) + 1
  PROVE  /\ Accepts(<<"*", "*", "/">>, SubSeq(t, j, k - 1)) <=> k = j \/ t[k - 1] = "/"
         /\ Accepts(<<"*">>, SubSeq(t, j, k - 1)) <=> \A i \in j .. k - 1 : t[i] # "/"
         /\ Accepts(<<"/", "*", "*">>, SubSeq(t, j, k - 1)) <=> k # j /\ t[j] = "/"
         /\ \A x : x # "*" =>
              (Accepts(<<x>>, SubSeq(t, j, k - 1)) <=> k = j + 1 /\ t[j] = x)
<1>0. j \in Int /\ k - 1 \in Int /\ \A i \in j .. k - 1 : t[i] \in C
  OBVIOUS
<1>1. /\ SubSeq(t, j, k - 1) \in Seq(C)
      /\ Len(SubSeq(t, j, k - 1)) = IF j <= k - 1 THEN (k - 1) - j + 1 ELSE 0
      /\ \A i \in 1 .. (k - 1) - j + 1 : SubSeq(t, j, k - 1)[i] = t[j + i - 1]
  BY <1>0, SubSeqProperties
<1>2. PICK q \in Seq(C) : q = SubSeq(t, j, k - 1)
  BY <1>1
<1>3. Len(q) = k - j /\ \A i \in 1 .. k - j : q[i] = t[j + i - 1]
  BY <1>1, <1>2
<1>4. /\ q = <<>> <=> k = j
      /\ k # j => q[1] = t[j] /\ Head(q) = t[j] /\ Last(q) = t[k - 1]
      /\ DOMAIN q = 1 .. k - j
  <2>1. q = <<>> <=> k = j
    BY <1>3, EmptySeq
  <2>2. ASSUME k # j PROVE q[1] = t[j] /\ Head(q) = t[j] /\ Last(q) = t[k - 1]
    <3>1. 1 \in 1 .. k - j /\ k - j \in 1 .. k - j /\ j + 1 - 1 = j /\ j + (k - j) - 1 = k - 1
      BY <2>2
    <3>2. q[1] = t[j] /\ q[Len(q)] = t[k - 1]
      BY <1>3, <3>1
    <3>3. Head(q) = q[1]
      OBVIOUS
    <3> QED
      BY <3>2, <3>3 DEF Last
  <2> QED
    BY <1>3, <2>1, <2>2, LenProperties
<1>5. Accepts(<<"*", "*", "/">>, q) <=> k = j \/ t[k - 1] = "/"
  BY <1>4, AcceptsIs, Zenon
<1>6. Accepts(<<"*">>, q) <=> \A i \in j .. k - 1 : t[i] # "/"
  <2>1. Accepts(<<"*">>, q) <=> \A i \in DOMAIN q : q[i] # "/"
    BY AcceptsIs, Zenon
  <2>2. ASSUME \A i \in j .. k - 1 : t[i] # "/", NEW i \in DOMAIN q PROVE q[i] # "/"
    <3>1. j + i - 1 \in j .. k - 1 /\ q[i] = t[j + i - 1]
      BY <1>3, <1>4
    <3> QED
      BY <2>2, <3>1
  <2>3. ASSUME \A i \in DOMAIN q : q[i] # "/", NEW i \in j .. k - 1 PROVE t[i] # "/"
    <3>1. i - j + 1 \in 1 .. k - j /\ j + (i - j + 1) - 1 = i
      OBVIOUS
    <3>2. q[i - j + 1] = t[i]
      BY <1>3, <3>1
    <3> QED
      BY <1>4, <2>3, <3>1, <3>2
  <2> QED
    BY <2>1, <2>2, <2>3
<1>7. Accepts(<<"/", "*", "*">>, q) <=> k # j /\ t[j] = "/"
  BY <1>4, AcceptsIs, Zenon
<1>8. ASSUME NEW x, x # "*" PROVE Accepts(<<x>>, q) <=> k = j + 1 /\ t[j] = x
  <2>1. Accepts(<<x>>, q) <=> q = <<x>>
    BY <1>8, AcceptsIs
  <2>2. Len(<<x>>) = 1 /\ <<x>>[1] = x
    OBVIOUS
  <2>3. ASSUME q = <<x>> PROVE k = j + 1 /\ t[j] = x
    <3>1. k - j = 1
      BY <1>3, <2>2, <2>3
    <3> QED
      BY <1>4, <2>2, <2>3, <3>1
  <2>4. ASSUME k = j + 1, t[j] = x PROVE q = <<x>>
    <3>1. Len(q) = 1 /\ q[1] = x
      BY <1>3, <1>4, <2>4
    <3> QED
      BY <3>1, Small
  <2> QED
    BY <2>1, <2>3, <2>4
<1> QED
  BY <1>2, <1>5, <1>6, <1>7, <1>8, Zenon

-----------------------------------------------------------------------------
(* A match is a cut of the text into pieces that the tokens take.          *)
Takes(token, t, j, k) == j <= k /\ Accepts(token, SubSeq(t, j, k - 1))

RowsOf(tokens, t, f) ==
  /\ Matches(tokens, t) <=> 1 \in f[1]
  /\ f[Len(tokens) + 1] = {Len(t) + 1}
  /\ \A i \in 1 .. Len(tokens) :
       f[i] = {j \in 1 .. Len(t) + 1 : \E k \in f[i + 1] : Takes(tokens[i], t, j, k)}

(* The places of MatchesIs, by pieces.                                      *)
LEMMA Rows ==
  ASSUME NEW tokens, Len(tokens) \in Nat, NEW t
  PROVE  \E f : RowsOf(tokens, t, f)
<1>1. PICK f : /\ \A i \in 1 .. Len(tokens) + 1 : f[i] = Places(tokens, t, f, i)
               /\ Matches(tokens, t) <=> 1 \in f[1]
  BY MatchesIs
<1>2. Len(tokens) + 1 \in 1 .. Len(tokens) + 1 /\ Len(tokens) + 1 > Len(tokens)
  OBVIOUS
<1>3. f[Len(tokens) + 1] = {Len(t) + 1}
  BY <1>1, <1>2, Zenon DEF Places
<1>4. \A i \in 1 .. Len(tokens) : i \in 1 .. Len(tokens) + 1 /\ ~(i > Len(tokens))
  OBVIOUS
<1>5. \A i \in 1 .. Len(tokens) :
        f[i] = {j \in 1 .. Len(t) + 1 : \E k \in f[i + 1] : Takes(tokens[i], t, j, k)}
  BY <1>1, <1>4, Zenon DEF Places, Takes
<1> QED
  BY <1>1, <1>3, <1>5 DEF RowsOf

(* One token takes the whole text.                                          *)
LEMMA Pieces1 ==
  ASSUME NEW a, NEW C, NEW t \in Seq(C)
  PROVE  Matches(<<a>>, t) <=> Takes(a, t, 1, Len(t) + 1)
<1>1. PICK s : s = <<a>>
  OBVIOUS
<1>2. Len(s) = 1 /\ s[1] = a
  BY <1>1
<1>3. PICK f : RowsOf(s, t, f)
  BY <1>2, Rows
<1>4. f[2] = {Len(t) + 1}
  BY <1>2, <1>3 DEF RowsOf
<1>5. f[1] = {j \in 1 .. Len(t) + 1 : \E k \in f[2] : Takes(a, t, j, k)}
  <2>1. 1 \in 1 .. Len(s) /\ 1 + 1 = 2
    BY <1>2
  <2> QED
    BY <1>2, <1>3, <2>1 DEF RowsOf
<1>6. 1 \in 1 .. Len(t) + 1
  OBVIOUS
<1> QED
  BY <1>1, <1>3, <1>4, <1>5, <1>6 DEF RowsOf

(* Two tokens take it in two pieces.                                        *)
LEMMA Pieces2 ==
  ASSUME NEW a, NEW b, NEW C, NEW t \in Seq(C)
  PROVE  Matches(<<a, b>>, t) <=>
           \E j \in 1 .. Len(t) + 1 : Takes(a, t, 1, j) /\ Takes(b, t, j, Len(t) + 1)
<1>1. PICK s : s = <<a, b>>
  OBVIOUS
<1>2. Len(s) = 2 /\ s[1] = a /\ s[2] = b
  BY <1>1
<1>3. PICK f : RowsOf(s, t, f)
  BY <1>2, Rows
<1>4. f[3] = {Len(t) + 1}
  BY <1>2, <1>3 DEF RowsOf
<1>5. f[2] = {j \in 1 .. Len(t) + 1 : \E k \in f[3] : Takes(b, t, j, k)}
  <2>1. 2 \in 1 .. Len(s) /\ 2 + 1 = 3
    BY <1>2
  <2> QED
    BY <1>2, <1>3, <2>1 DEF RowsOf
<1>6. f[1] = {j \in 1 .. Len(t) + 1 : \E k \in f[2] : Takes(a, t, j, k)}
  <2>1. 1 \in 1 .. Len(s) /\ 1 + 1 = 2
    BY <1>2
  <2> QED
    BY <1>2, <1>3, <2>1 DEF RowsOf
<1>7. 1 \in 1 .. Len(t) + 1
  OBVIOUS
<1> QED
  BY <1>1, <1>3, <1>4, <1>5, <1>6, <1>7 DEF RowsOf

(* Three tokens take it in three.                                           *)
LEMMA Pieces3 ==
  ASSUME NEW a, NEW b, NEW c, NEW C, NEW t \in Seq(C)
  PROVE  Matches(<<a, b, c>>, t) <=>
           \E j, k \in 1 .. Len(t) + 1 :
             Takes(a, t, 1, j) /\ Takes(b, t, j, k) /\ Takes(c, t, k, Len(t) + 1)
<1>1. PICK s : s = <<a, b, c>>
  OBVIOUS
<1>2. Len(s) = 3 /\ s[1] = a /\ s[2] = b /\ s[3] = c
  BY <1>1
<1>3. PICK f : RowsOf(s, t, f)
  BY <1>2, Rows
<1>4. f[4] = {Len(t) + 1}
  BY <1>2, <1>3 DEF RowsOf
<1>5. f[3] = {j \in 1 .. Len(t) + 1 : \E k \in f[4] : Takes(c, t, j, k)}
  <2>1. 3 \in 1 .. Len(s) /\ 3 + 1 = 4
    BY <1>2
  <2> QED
    BY <1>2, <1>3, <2>1 DEF RowsOf
<1>6. f[2] = {j \in 1 .. Len(t) + 1 : \E k \in f[3] : Takes(b, t, j, k)}
  <2>1. 2 \in 1 .. Len(s) /\ 2 + 1 = 3
    BY <1>2
  <2> QED
    BY <1>2, <1>3, <2>1 DEF RowsOf
<1>7. f[1] = {j \in 1 .. Len(t) + 1 : \E k \in f[2] : Takes(a, t, j, k)}
  <2>1. 1 \in 1 .. Len(s) /\ 1 + 1 = 2
    BY <1>2
  <2> QED
    BY <1>2, <1>3, <2>1 DEF RowsOf
<1>8. 1 \in 1 .. Len(t) + 1
  OBVIOUS
<1>9. Matches(s, t) <=> 1 \in f[1]
  BY <1>3, Zenon DEF RowsOf
<1>10. Len(t) + 1 \in 1 .. Len(t) + 1
  OBVIOUS
<1>11. \A k : k \in f[3] <=> k \in 1 .. Len(t) + 1 /\ Takes(c, t, k, Len(t) + 1)
  BY <1>4, <1>5
<1>12. \A j : j \in f[2] <=> j \in 1 .. Len(t) + 1 /\ \E k \in f[3] : Takes(b, t, j, k)
  BY <1>6
<1>13. 1 \in f[1] <=> \E j \in f[2] : Takes(a, t, 1, j)
  BY <1>7, <1>8
<1> QED
  BY <1>1, <1>9, <1>11, <1>12, <1>13, Zenon

(* What the tokens take, in terms of places.                               *)
LEMMA TakesIs ==
  ASSUME NEW C, NEW t \in Seq(C), NEW j \in 1 .. Len(t) + 1, NEW k \in 1 .. Len(t) + 1
  PROVE  /\ Takes(<<"*", "*", "/">>, t, j, k) <=> j <= k /\ (k = j \/ t[k - 1] = "/")
         /\ Takes(<<"*">>, t, j, k) <=> j <= k /\ \A i \in j .. k - 1 : t[i] # "/"
         /\ Takes(<<"/", "*", "*">>, t, j, k) <=> j < k /\ t[j] = "/"
         /\ \A x : x # "*" => (Takes(<<x>>, t, j, k) <=> k = j + 1 /\ t[j] = x)
<1>1. CASE j <= k
  <2>1. k \in j .. Len(t) + 1 /\ (k # j <=> j < k)
    BY <1>1
  <2>2. /\ Accepts(<<"*", "*", "/">>, SubSeq(t, j, k - 1)) <=> k = j \/ t[k - 1] = "/"
        /\ Accepts(<<"*">>, SubSeq(t, j, k - 1)) <=> \A i \in j .. k - 1 : t[i] # "/"
        /\ Accepts(<<"/", "*", "*">>, SubSeq(t, j, k - 1)) <=> k # j /\ t[j] = "/"
        /\ \A x : x # "*" =>
             (Accepts(<<x>>, SubSeq(t, j, k - 1)) <=> k = j + 1 /\ t[j] = x)
    BY <2>1, PieceIs
  <2> QED
    BY <1>1, <2>1, <2>2, Zenon DEF Takes
<1>2. CASE ~(j <= k)
  <2>1. ~(j < k) /\ k # j + 1
    BY <1>2
  <2> QED
    BY <1>2, <2>1, Zenon DEF Takes
<1> QED
  BY <1>1, <1>2

(* The last place of a set of places.                                       *)
LEMMA Latest ==
  ASSUME NEW T, NEW n \in Nat, T \subseteq 1 .. n, T # {}
  PROVE  \E x \in T : \A y \in T : y <= x
<1> DEFINE S == {n - x : x \in T}
<1>1. S \subseteq Nat /\ S # {}
  <2>1. \A x \in T : n - x \in Nat
    OBVIOUS
  <2> QED
    BY <2>1
<1>2. PICK m \in S : \A y \in S : ~(y < m)
  <2> HIDE DEF S
  <2> QED
    BY <1>1, Least
<1>3. PICK x \in T : m = n - x
  OBVIOUS
<1>4. ASSUME NEW y \in T PROVE y <= x
  <2>1. ~(n - y < n - x)
    BY <1>2, <1>3
  <2> QED
    BY <2>1
<1> QED
  BY <1>4

(* **/*x: whatever ends in x.                                               *)
LEMMA SourceMatches ==
  ASSUME NEW C, NEW t \in Seq(C), NEW x, x \notin {"*", "/"}
  PROVE  Matches(<< <<"*", "*", "/">>, <<"*">>, <<x>> >>, t) <=> t # <<>> /\ Last(t) = x
<1>0. Len(t) \in Nat /\ (t # <<>> <=> Len(t) >= 1)
  OBVIOUS
<1>1. Matches(<< <<"*", "*", "/">>, <<"*">>, <<x>> >>, t) <=>
        \E j, k \in 1 .. Len(t) + 1 :
          Takes(<<"*", "*", "/">>, t, 1, j) /\ Takes(<<"*">>, t, j, k)
            /\ Takes(<<x>>, t, k, Len(t) + 1)
  BY Pieces3
<1>2. 1 \in 1 .. Len(t) + 1 /\ Len(t) + 1 \in 1 .. Len(t) + 1
  OBVIOUS
<1>3. ASSUME NEW j \in 1 .. Len(t) + 1, NEW k \in 1 .. Len(t) + 1, Takes(<<x>>, t, k, Len(t) + 1)
      PROVE  t # <<>> /\ Last(t) = x
  <2>1. Len(t) + 1 = k + 1 /\ t[k] = x
    BY <1>2, <1>3, TakesIs
  <2>2. k = Len(t) /\ Len(t) >= 1
    BY <2>1
  <2> QED
    BY <1>0, <2>1, <2>2 DEF Last
<1>4. ASSUME t # <<>>, Last(t) = x
      PROVE  \E j, k \in 1 .. Len(t) + 1 :
               Takes(<<"*", "*", "/">>, t, 1, j) /\ Takes(<<"*">>, t, j, k)
                 /\ Takes(<<x>>, t, k, Len(t) + 1)
  <2>1. Len(t) \in 1 .. Len(t) + 1 /\ t[Len(t)] = x
    BY <1>0, <1>4 DEF Last
  <2>2. Takes(<<x>>, t, Len(t), Len(t) + 1)
    BY <1>2, <2>1, TakesIs
  <2>3. CASE \A i \in 1 .. Len(t) - 1 : t[i] # "/"
    <3>1. Takes(<<"*", "*", "/">>, t, 1, 1)
      BY <1>2, TakesIs
    <3>2. Takes(<<"*">>, t, 1, Len(t))
      <4>1. 1 <= Len(t)
        BY <1>0, <1>4
      <4> QED
        BY <1>2, <2>1, <2>3, <4>1, TakesIs
    <3> QED
      BY <1>2, <2>1, <2>2, <3>1, <3>2
  <2>4. CASE \E i \in 1 .. Len(t) - 1 : t[i] = "/"
    <3> DEFINE T == {i \in 1 .. Len(t) - 1 : t[i] = "/"}
    <3>1. PICK n \in T : \A y \in T : y <= n
      <4>1. T \subseteq 1 .. Len(t) - 1 /\ T # {} /\ Len(t) - 1 \in Nat
        BY <1>0, <1>4, <2>4
      <4> HIDE DEF T
      <4> QED
        BY <4>1, Latest
    <3>2. n \in 1 .. Len(t) - 1 /\ t[n] = "/"
      OBVIOUS
    <3>3. n + 1 \in 1 .. Len(t) + 1 /\ n + 1 <= Len(t) /\ (n + 1) - 1 = n /\ 1 <= n + 1
      BY <1>0, <3>2
    <3>4. Takes(<<"*", "*", "/">>, t, 1, n + 1)
      BY <1>2, <3>2, <3>3, TakesIs
    <3>5. ASSUME NEW i \in n + 1 .. Len(t) - 1 PROVE t[i] # "/"
      <4>1. i \in 1 .. Len(t) - 1 /\ ~(i <= n)
        BY <3>2
      <4> QED
        BY <3>1, <4>1
    <3>6. Takes(<<"*">>, t, n + 1, Len(t))
      BY <2>1, <3>3, <3>5, TakesIs
    <3> QED
      BY <2>1, <2>2, <3>3, <3>4, <3>6
  <2> QED
    BY <2>3, <2>4
<1> QED
  BY <1>1, <1>3, <1>4

(* **/.git: what ends in .git; **/.git/**: what lies in a .git.             *)
LEMMA GitMatches ==
  ASSUME NEW C, NEW t \in Seq(C)
  PROVE  /\ Matches(<< <<"*", "*", "/">>, <<".git">> >>, t) => t # <<>> /\ Last(t) = ".git"
         /\ Matches(<< <<"*", "*", "/">>, <<".git">>, <<"/", "*", "*">> >>, t) <=>
              \E i \in 1 .. Len(t) - 1 :
                t[i] = ".git" /\ (i > 1 => t[i - 1] = "/") /\ t[i + 1] = "/"
<1>0. 1 \in 1 .. Len(t) + 1 /\ Len(t) + 1 \in 1 .. Len(t) + 1 /\ Len(t) \in Nat
      /\ ".git" # "*"
  OBVIOUS
<1>1. ASSUME Matches(<< <<"*", "*", "/">>, <<".git">> >>, t)
      PROVE  t # <<>> /\ Last(t) = ".git"
  <2>1. PICK j \in 1 .. Len(t) + 1 : Takes(<<".git">>, t, j, Len(t) + 1)
    BY <1>1, Pieces2
  <2>2. Len(t) + 1 = j + 1 /\ t[j] = ".git"
    BY <1>0, <2>1, TakesIs
  <2>3. j = Len(t) /\ Len(t) >= 1
    BY <2>2
  <2> QED
    BY <2>2, <2>3 DEF Last
<1>2. ASSUME Matches(<< <<"*", "*", "/">>, <<".git">>, <<"/", "*", "*">> >>, t)
      PROVE  \E i \in 1 .. Len(t) - 1 :
               t[i] = ".git" /\ (i > 1 => t[i - 1] = "/") /\ t[i + 1] = "/"
  <2>1. PICK j, k \in 1 .. Len(t) + 1 :
          /\ Takes(<<"*", "*", "/">>, t, 1, j) /\ Takes(<<".git">>, t, j, k)
          /\ Takes(<<"/", "*", "*">>, t, k, Len(t) + 1)
    BY <1>2, Pieces3
  <2>2. j = 1 \/ t[j - 1] = "/"
    BY <1>0, <2>1, TakesIs
  <2>3. k = j + 1 /\ t[j] = ".git"
    BY <1>0, <2>1, TakesIs
  <2>4. k < Len(t) + 1 /\ t[k] = "/"
    BY <1>0, <2>1, TakesIs
  <2>5. j \in 1 .. Len(t) - 1
    BY <2>3, <2>4
  <2> QED
    BY <2>2, <2>3, <2>4, <2>5
<1>3. ASSUME NEW i \in 1 .. Len(t) - 1,
             t[i] = ".git", i > 1 => t[i - 1] = "/", t[i + 1] = "/"
      PROVE  Matches(<< <<"*", "*", "/">>, <<".git">>, <<"/", "*", "*">> >>, t)
  <2>1. i \in 1 .. Len(t) + 1 /\ i + 1 \in 1 .. Len(t) + 1 /\ 1 <= i /\ (i # 1 => i > 1)
        /\ i + 1 < Len(t) + 1
    OBVIOUS
  <2>2. Takes(<<"*", "*", "/">>, t, 1, i)
    BY <1>0, <1>3, <2>1, TakesIs
  <2>3. Takes(<<".git">>, t, i, i + 1)
    BY <1>0, <1>3, <2>1, TakesIs
  <2>4. Takes(<<"/", "*", "*">>, t, i + 1, Len(t) + 1)
    BY <1>0, <1>3, <2>1, TakesIs
  <2> QED
    BY <2>1, <2>2, <2>3, <2>4, Pieces3
<1> QED
  BY <1>1, <1>2, <1>3

-----------------------------------------------------------------------------
(* Texts joined from others.                                                 *)

(* The levels of a path one after another.                                  *)
Levels(s, f, i) == IF i = 1 THEN s[i] ELSE f[i - 1] \o s[i]
LevelsOf(s, f) == f = [i \in 1 .. Len(s) |-> Levels(s, f, i)]

(* There is a path for every level.                                         *)
LEMMA LevelsExist ==
  ASSUME NEW s, Len(s) \in Nat, Len(s) >= 1
  PROVE  \E f : LevelsOf(s, f)
<1> DEFINE N == Len(s)
           Row(f, n) == \A i \in 1 .. n : f[i] = Levels(s, f, i)
           S == {n \in Nat : n <= N => \E f : f = [i \in 1 .. N |-> f[i]] /\ Row(f, n)}
<1>1. 0 \in S
  <2>1. PICK f : f = [i \in 1 .. N |-> <<>>]
    OBVIOUS
  <2>2. f = [i \in 1 .. N |-> f[i]]
    BY <2>1
  <2>3. Row(f, 0)
    OBVIOUS
  <2> QED
    BY <2>2, <2>3
<1>2. ASSUME NEW n \in Nat, n \in S PROVE n + 1 \in S
  <2> SUFFICES ASSUME n + 1 <= N
               PROVE  \E f : f = [i \in 1 .. N |-> f[i]] /\ Row(f, n + 1)
    OBVIOUS
  <2>1. PICK f : f = [i \in 1 .. N |-> f[i]] /\ Row(f, n)
    BY <1>2
  <2>2. PICK h : h = [i \in 1 .. N |-> IF i = n + 1 THEN Levels(s, f, i) ELSE f[i]]
    OBVIOUS
  <2>3. h = [i \in 1 .. N |-> h[i]]
    BY <2>2
  <2>4. ASSUME NEW i \in 1 .. n + 1
        PROVE  Levels(s, h, i) = Levels(s, f, i)
    <3>1. CASE i = 1
      BY <3>1, Zenon DEF Levels
    <3>2. CASE i # 1
      <4>1. i - 1 \in 1 .. N /\ i - 1 # n + 1
        BY <3>2
      <4>2. h[i - 1] = f[i - 1]
        BY <2>2, <4>1
      <4> QED
        BY <4>2, Zenon DEF Levels
    <3> QED
      BY <3>1, <3>2
  <2>5. ASSUME NEW i \in 1 .. n + 1 PROVE h[i] = Levels(s, f, i)
    <3>1. i \in 1 .. N /\ (i # n + 1 => i \in 1 .. n)
      OBVIOUS
    <3>2. h[i] = IF i = n + 1 THEN Levels(s, f, i) ELSE f[i]
      BY <2>2, <3>1
    <3> QED
      BY <2>1, <3>1, <3>2
  <2>6. Row(h, n + 1)
    BY <2>4, <2>5
  <2> QED
    BY <2>3, <2>6
<1>3. N \in S
  <2> HIDE DEF S
  <2> QED
    BY <1>1, <1>2, NatSetInduction
<1>4. PICK f : f = [i \in 1 .. N |-> f[i]] /\ Row(f, N)
  BY <1>3
<1>5. \A i \in 1 .. N : f[i] = Levels(s, f, i)
  BY <1>4
<1>6. f = [i \in 1 .. N |-> Levels(s, f, i)]
  BY <1>4, <1>5, Zenon
<1> QED
  BY <1>6 DEF LevelsOf

(* FlattenSeq appends one level after another.                              *)
LEMMA FlattenIs ==
  ASSUME NEW s, Len(s) \in Nat, Len(s) >= 1
  PROVE  \E f : /\ FlattenSeq(s) = f[Len(s)] /\ f[1] = s[1]
                /\ \A i \in 1 .. Len(s) - 1 : f[i + 1] = f[i] \o s[i + 1]
<1> DEFINE f == CHOOSE f : LevelsOf(s, f)
<1>1. LevelsOf(s, f)
  BY LevelsExist, Zenon
<1>2. Len(s) # 0
  OBVIOUS
<1>3. FlattenSeq(s) = f[Len(s)]
  BY <1>2, Zenon DEF FlattenSeq, LevelsOf, Levels
<1> HIDE DEF f
<1>4. \A i \in 1 .. Len(s) : f[i] = Levels(s, f, i)
  BY <1>1, Zenon DEF LevelsOf
<1>5. f[1] = s[1]
  <2>1. 1 \in 1 .. Len(s)
    OBVIOUS
  <2> QED
    BY <1>4, <2>1, Zenon DEF Levels
<1>6. ASSUME NEW i \in 1 .. Len(s) - 1 PROVE f[i + 1] = f[i] \o s[i + 1]
  <2>1. i + 1 \in 1 .. Len(s) /\ i + 1 # 1 /\ (i + 1) - 1 = i
    OBVIOUS
  <2>2. f[i + 1] = f[(i + 1) - 1] \o s[i + 1]
    BY <1>4, <2>1, Zenon DEF Levels
  <2> QED
    BY <2>1, <2>2
<1> QED
  BY <1>3, <1>5, <1>6

(* Where names lie that are joined by slashes: each from its place st[k] on *)
(* and the next one two behind its end.                                     *)
Spaced(s, st) ==
  /\ st \in [1 .. Len(s) + 1 -> Nat \ {0}] /\ st[1] = 1
  /\ \A k \in 1 .. Len(s) : st[k + 1] = st[k] + Len(s[k]) + 1
(* A text in which the first n of them lie, and nothing after them.         *)
Filled(s, n, x, st) ==
  /\ Len(x) + 2 = st[n + 1]
  /\ \A k \in 1 .. n :
       /\ \A m \in 1 .. Len(s[k]) : x[st[k] + m - 1] = s[k][m]
       /\ k > 1 => x[st[k] - 1] = "/"
Laid(s, x, st) == Spaced(s, st) /\ Filled(s, Len(s), x, st)

(* The places and the lengths are numbers.                                  *)
Numbers(C, s, st) ==
  /\ Len(s) \in Nat /\ st[1] = 1
  /\ \A k \in 1 .. Len(s) + 1 : st[k] \in Nat /\ st[k] >= 1
  /\ \A k \in 1 .. Len(s) : s[k] \in Seq(C) /\ Len(s[k]) \in Nat
  /\ \A k \in 1 .. Len(s) : st[k + 1] = st[k] + Len(s[k]) + 1

(* So they are, spaced like that.                                           *)
LEMMA SpacedAre ==
  ASSUME NEW C, NEW s \in Seq(Seq(C)), NEW st, Spaced(s, st)
  PROVE  Numbers(C, s, st)
<1>1. st \in [1 .. Len(s) + 1 -> Nat \ {0}]
  BY Zenon DEF Spaced
<1>2. \A k \in 1 .. Len(s) + 1 : st[k] \in Nat /\ st[k] >= 1
  BY <1>1
<1>3. \A k \in 1 .. Len(s) : st[k + 1] = st[k] + Len(s[k]) + 1
  BY Zenon DEF Spaced
<1>4. \A k \in 1 .. Len(s) : s[k] \in Seq(C) /\ Len(s[k]) \in Nat
  OBVIOUS
<1>5. st[1] = 1 /\ Len(s) \in Nat
  BY DEF Spaced
<1> QED
  BY <1>2, <1>3, <1>4, <1>5, Zenon DEF Numbers

(* The places go up.                                                        *)
LEMMA PlacesUp ==
  ASSUME NEW C, NEW s \in Seq(Seq(C)), NEW st, Spaced(s, st),
         NEW i \in 1 .. Len(s), NEW j \in i + 1 .. Len(s) + 1
  PROVE  st[i] + Len(s[i]) + 1 <= st[j]
<1> DEFINE N == Len(s)
           S == {d \in Nat : i + 1 + d <= N + 1 => st[i + 1] <= st[i + 1 + d]}
<1>0. N \in Nat /\ \A k \in 1 .. N : Len(s[k]) \in Nat
  OBVIOUS
<1>1. \A k \in 1 .. N + 1 : st[k] \in Nat
  BY DEF Spaced
<1>2. \A k \in 1 .. N : st[k + 1] = st[k] + Len(s[k]) + 1
  BY DEF Spaced
<1>3. 0 \in S
  <2>1. i + 1 + 0 = i + 1 /\ i + 1 \in 1 .. N + 1
    BY <1>0
  <2> QED
    BY <1>1, <2>1
<1>4. ASSUME NEW d \in Nat, d \in S PROVE d + 1 \in S
  <2> SUFFICES ASSUME i + 1 + (d + 1) <= N + 1
               PROVE  st[i + 1] <= st[i + 1 + (d + 1)]
    OBVIOUS
  <2>1. i + 1 + d \in 1 .. N /\ i + 1 \in 1 .. N + 1 /\ i + 1 + (d + 1) = (i + 1 + d) + 1
        /\ i + 1 + d \in 1 .. N + 1
    BY <1>0
  <2>2. PICK k : k = i + 1 + d
    OBVIOUS
  <2>3. st[k + 1] = st[k] + Len(s[k]) + 1 /\ Len(s[k]) \in Nat /\ st[k] \in Nat /\ st[i + 1] \in Nat
    BY <1>0, <1>1, <1>2, <2>1, <2>2
  <2>4. st[i + 1] <= st[k]
    BY <1>4, <2>1, <2>2
  <2>5. st[i + 1] <= st[k + 1]
    <3>1. PICK u \in Nat, v \in Nat, l \in Nat : u = st[i + 1] /\ v = st[k] /\ l = Len(s[k])
      BY <2>3
    <3>2. st[k + 1] = v + l + 1 /\ u <= v
      BY <2>3, <2>4, <3>1
    <3>3. u <= v + l + 1
      BY <3>2
    <3> QED
      BY <3>1, <3>2, <3>3
  <2> QED
    BY <2>1, <2>2, <2>5
<1>5. \A d \in Nat : d \in S
  <2> HIDE DEF S
  <2> QED
    BY <1>3, <1>4, NatSetInduction
<1>6. j - (i + 1) \in Nat /\ i + 1 + (j - (i + 1)) = j
  OBVIOUS
<1>7. st[i + 1] <= st[j]
  <2>1. j - (i + 1) \in S
    BY <1>5, <1>6
  <2> QED
    BY <1>0, <1>6, <2>1
<1> QED
  BY <1>2, <1>7

(* Another name comes behind them.                                          *)
LEMMA FilledOn ==
  ASSUME NEW C, "/" \in C, NEW s \in Seq(Seq(C)), NEW st, Spaced(s, st),
         NEW n \in 1 .. Len(s) - 1, NEW x \in Seq(C), Filled(s, n, x, st)
  PROVE  /\ (x \o <<"/">>) \o s[n + 1] \in Seq(C)
         /\ Filled(s, n + 1, (x \o <<"/">>) \o s[n + 1], st)
<1>1. n + 1 \in 1 .. Len(s) /\ n \in Nat /\ Len(s) \in Nat
  OBVIOUS
<1>2. PICK name \in Seq(C) : name = s[n + 1]
  BY <1>1
<1>3. <<"/">> \in Seq(C) /\ Len(<<"/">>) = 1 /\ <<"/">>[1] = "/"
  OBVIOUS
<1>4. PICK p \in Seq(C) : p = x \o <<"/">>
  BY <1>3, ConcatProperties
<1>5. Len(p) = Len(x) + 1 /\ \A i \in 1 .. Len(x) + 1 :
                                p[i] = IF i <= Len(x) THEN x[i] ELSE <<"/">>[i - Len(x)]
  BY <1>3, <1>4, ConcatProperties
<1>6. PICK y \in Seq(C) : y = p \o name
  BY ConcatProperties
<1>7. Len(y) = Len(p) + Len(name) /\ \A i \in 1 .. Len(p) + Len(name) :
                                       y[i] = IF i <= Len(p) THEN p[i] ELSE name[i - Len(p)]
  BY <1>6, ConcatProperties
<1>8. Len(x) \in Nat /\ Len(name) \in Nat /\ Len(p) \in Nat
  OBVIOUS
<1>9. Len(y) = Len(x) + 1 + Len(name) /\ Len(y) \in Nat
  BY <1>5, <1>7, <1>8
<1>10. \A i \in 1 .. Len(x) : y[i] = x[i]
  <2> TAKE i \in 1 .. Len(x)
  <2>1. i \in 1 .. Len(p) + Len(name) /\ i <= Len(p) /\ i \in 1 .. Len(x) + 1 /\ i <= Len(x)
    BY <1>5, <1>8
  <2> QED
    BY <1>5, <1>7, <2>1
<1>11. y[Len(x) + 1] = "/"
  <2>1. Len(x) + 1 \in 1 .. Len(p) + Len(name) /\ Len(x) + 1 <= Len(p)
        /\ Len(x) + 1 \in 1 .. Len(x) + 1 /\ ~(Len(x) + 1 <= Len(x)) /\ Len(x) + 1 - Len(x) = 1
    BY <1>5, <1>8
  <2> QED
    BY <1>3, <1>5, <1>7, <2>1
<1>12. \A m \in 1 .. Len(name) : y[Len(x) + 1 + m] = name[m]
  <2> TAKE m \in 1 .. Len(name)
  <2>1. PICK i : i = Len(x) + 1 + m
    OBVIOUS
  <2>2. i \in 1 .. Len(p) + Len(name) /\ ~(i <= Len(p)) /\ i - Len(p) = m
    BY <1>5, <1>8, <2>1
  <2>3. y[i] = name[i - Len(p)]
    BY <1>7, <2>2
  <2> QED
    BY <2>1, <2>2, <2>3
<1>13. /\ \A k \in 1 .. Len(s) + 1 : st[k] \in Nat /\ st[k] >= 1
       /\ \A k \in 1 .. Len(s) : st[k + 1] = st[k] + Len(s[k]) + 1 /\ Len(s[k]) \in Nat
       /\ st[n + 1] = Len(x) + 2
  <2>1. st[n + 1] = Len(x) + 2
    BY Zenon DEF Filled
  <2>2. Numbers(C, s, st)
    BY SpacedAre
  <2> QED
    BY <2>1, <2>2, Zenon DEF Numbers
<1>14. Len(y) + 2 = st[n + 2]
  <2>1. st[(n + 1) + 1] = st[n + 1] + Len(name) + 1
    BY <1>1, <1>2, <1>13, Zenon
  <2>2. (n + 1) + 1 = n + 2
    BY <1>1
  <2> QED
    BY <1>8, <1>9, <1>13, <2>1, <2>2
<1>15. ASSUME NEW k \in 1 .. n
       PROVE  /\ \A m \in 1 .. Len(s[k]) : y[st[k] + m - 1] = s[k][m]
              /\ k > 1 => y[st[k] - 1] = "/"
  <2>1. /\ \A m \in 1 .. Len(s[k]) : x[st[k] + m - 1] = s[k][m]
        /\ k > 1 => x[st[k] - 1] = "/"
    BY DEF Filled
  <2>2. k \in 1 .. Len(s) /\ k \in 1 .. Len(s) + 1 /\ k \in Nat /\ n + 1 \in k + 1 .. Len(s) + 1
    BY <1>1
  <2>3. st[k] + Len(s[k]) + 1 <= Len(x) + 2
    BY <1>13, <2>2, PlacesUp
  <2>a. st[k] \in Nat /\ st[k] >= 1 /\ Len(s[k]) \in Nat
    BY <1>13, <2>2
  <2>4. \A m \in 1 .. Len(s[k]) : st[k] + m - 1 \in 1 .. Len(x)
    <3>1. \A u, l, b \in Nat : \A m \in 1 .. l :
            u >= 1 /\ u + l + 1 <= b + 2 => u + m - 1 \in 1 .. b
      OBVIOUS
    <3> QED
      BY <1>8, <2>a, <2>3, <3>1
  <2>5. k > 1 => st[k] - 1 \in 1 .. Len(x)
    <3> SUFFICES ASSUME k > 1 PROVE st[k] - 1 \in 1 .. Len(x)
      OBVIOUS
    <3>1. 1 \in 1 .. Len(s) /\ k \in 1 + 1 .. Len(s) + 1
      BY <1>1, <2>2
    <3>2. st[1] + Len(s[1]) + 1 <= st[k]
      BY <3>1, PlacesUp
    <3>3. st[1] = 1
      BY DEF Spaced
    <3>4. Len(s[1]) \in Nat
      BY <1>13, <3>1
    <3>5. \A u, l, h, b \in Nat : 1 + h + 1 <= u /\ u + l + 1 <= b + 2 => u - 1 \in 1 .. b
      OBVIOUS
    <3> QED
      BY <1>8, <2>a, <2>3, <3>2, <3>3, <3>4, <3>5
  <2> QED
    BY <1>10, <2>1, <2>4, <2>5, Zenon
<1>16. /\ \A m \in 1 .. Len(s[n + 1]) : y[st[n + 1] + m - 1] = s[n + 1][m]
       /\ y[st[n + 1] - 1] = "/"
  <2>1. st[n + 1] - 1 = Len(x) + 1
    BY <1>8, <1>13
  <2>2. \A m \in 1 .. Len(name) : st[n + 1] + m - 1 = Len(x) + 1 + m
    BY <1>8, <1>13
  <2> QED
    BY <1>2, <1>11, <1>12, <2>1, <2>2, Zenon
<1>17. Filled(s, n + 1, y, st)
  <2>1. (n + 1) + 1 = n + 2
    BY <1>1
  <2>2. \A k \in 1 .. n + 1 : k \in 1 .. n \/ k = n + 1
    BY <1>1
  <2> QED
    BY <1>14, <1>15, <1>16, <2>1, <2>2, Zenon DEF Filled
<1> QED
  BY <1>2, <1>4, <1>6, <1>17

(* Joined lays the names so.                                                *)
LEMMA JoinedIs ==
  ASSUME NEW C, "/" \in C, NEW s \in Seq(Seq(C)), s # <<>>
  PROVE  Joined(s) \in Seq(C) /\ \E st : Laid(s, Joined(s), st)
<1> DEFINE N == Len(s)
           t == [i \in 1 .. 2 * N - 1 |-> IF i % 2 = 1 THEN s[(i + 1) \div 2] ELSE <<"/">>]
<1>1. N \in Nat /\ N >= 1
  OBVIOUS
<1>2. \A k \in 1 .. N : s[k] \in Seq(C)
  OBVIOUS
<1>3. Len(t) = 2 * N - 1
  <2>1. 2 * N - 1 \in Nat
    BY <1>1
  <2> QED
    BY <2>1
<1>4. \A k \in 1 .. N : t[2 * k - 1] = s[k] /\ (k < N => t[2 * k] = <<"/">>)
  <2> TAKE k \in 1 .. N
  <2>1. 2 * k - 1 \in 1 .. 2 * N - 1 /\ (2 * k - 1) % 2 = 1 /\ ((2 * k - 1) + 1) \div 2 = k
    BY <1>1
  <2>2. k < N => 2 * k \in 1 .. 2 * N - 1 /\ (2 * k) % 2 # 1
    BY <1>1
  <2> QED
    BY <2>1, <2>2
<1>5. Joined(s) = FlattenSeq(t)
  BY Zenon DEF Joined
<1> HIDE DEF t
<1>6. PICK f : /\ FlattenSeq(t) = f[Len(t)] /\ f[1] = t[1]
               /\ \A i \in 1 .. Len(t) - 1 : f[i + 1] = f[i] \o t[i + 1]
  <2>1. Len(t) \in Nat /\ Len(t) >= 1
    BY <1>1, <1>3
  <2> QED
    BY <2>1, FlattenIs
<1>7. f[1] = s[1]
  <2>1. 1 \in 1 .. N /\ 2 * 1 - 1 = 1
    BY <1>1
  <2> QED
    BY <1>4, <1>6, <2>1
<1>8. \A k \in 1 .. N - 1 : f[2 * (k + 1) - 1] = (f[2 * k - 1] \o <<"/">>) \o s[k + 1]
  <2> TAKE k \in 1 .. N - 1
  <2>1. k \in 1 .. N /\ k + 1 \in 1 .. N /\ k < N
    BY <1>1
  <2>2. /\ 2 * k - 1 \in 1 .. Len(t) - 1 /\ (2 * k - 1) + 1 = 2 * k
        /\ 2 * k \in 1 .. Len(t) - 1 /\ 2 * k + 1 = 2 * (k + 1) - 1
    BY <1>1, <1>3
  <2>3. f[2 * k] = f[2 * k - 1] \o <<"/">>
    <3>1. f[(2 * k - 1) + 1] = f[2 * k - 1] \o t[(2 * k - 1) + 1]
      BY <1>6, <2>2, Zenon
    <3>2. t[2 * k] = <<"/">>
      BY <1>4, <2>1
    <3>3. (2 * k - 1) + 1 = 2 * k
      BY <2>2
    <3> QED
      BY <3>1, <3>2, <3>3, Zenon
  <2>4. f[2 * (k + 1) - 1] = f[2 * k] \o s[k + 1]
    <3>1. f[2 * k + 1] = f[2 * k] \o t[2 * k + 1]
      BY <1>6, <2>2, Zenon
    <3>2. t[2 * (k + 1) - 1] = s[k + 1]
      BY <1>4, <2>1, Zenon
    <3>3. 2 * k + 1 = 2 * (k + 1) - 1
      BY <2>2
    <3> QED
      BY <3>1, <3>2, <3>3, Zenon
  <2> QED
    BY <2>3, <2>4, Zenon
<1> DEFINE g == [k \in 1 .. N |-> f[2 * k - 1]]
<1>9. g[1] = s[1] /\ \A k \in 1 .. N - 1 : g[k + 1] = (g[k] \o <<"/">>) \o s[k + 1]
  <2>1. 1 \in 1 .. N /\ 2 * 1 - 1 = 1 /\ \A k \in 1 .. N - 1 : k \in 1 .. N /\ k + 1 \in 1 .. N
    BY <1>1
  <2> QED
    BY <1>7, <1>8, <2>1, Zenon
<1>10. Joined(s) = g[N]
  <2>1. N \in 1 .. N
    BY <1>1
  <2>2. g[N] = f[2 * N - 1]
    BY <2>1, Zenon
  <2> QED
    BY <1>3, <1>5, <1>6, <2>2, Zenon
<1> HIDE DEF g
<1> DEFINE Grown(k) ==
             g[k] \in Seq(C) /\ (k > 1 => Len(g[k]) = Len(g[k - 1]) + 1 + Len(s[k]))
<1>11. \A k \in 1 .. N : Grown(k)
  <2> DEFINE S == {n \in Nat : \A k \in 1 .. n : k <= N => Grown(k)}
  <2>1. ASSUME NEW n \in Nat, n + 1 <= N, \A k \in 1 .. n : k <= N => Grown(k)
        PROVE  Grown(n + 1)
    <3>1. CASE n = 0
      <4>1. n + 1 = 1 /\ 1 \in 1 .. N /\ ~(1 > 1)
        BY <1>1, <3>1
      <4>2. Grown(1)
        BY <1>2, <1>9, <4>1
      <4> QED
        BY <4>1, <4>2
    <3>2. CASE n # 0
      <4>1. n \in 1 .. n /\ n <= N /\ n \in 1 .. N - 1 /\ (n + 1) - 1 = n /\ n + 1 \in 1 .. N
        BY <1>1, <2>1, <3>2
      <4>2. PICK x \in Seq(C) : x = g[n]
        BY <2>1, <4>1
      <4>3. PICK name \in Seq(C) : name = s[n + 1]
        BY <1>2, <4>1
      <4>4. g[n + 1] = (x \o <<"/">>) \o name
        BY <1>9, <4>1, <4>2, <4>3
      <4>5. <<"/">> \in Seq(C) /\ Len(<<"/">>) = 1
        OBVIOUS
      <4>6. PICK p \in Seq(C) : p = x \o <<"/">>
        BY <4>5, ConcatProperties
      <4>7. Len(p) = Len(x) + 1
        BY <4>5, <4>6, ConcatProperties
      <4>8. g[n + 1] \in Seq(C) /\ Len(g[n + 1]) = Len(p) + Len(name)
        BY <4>4, <4>6, ConcatProperties
      <4> QED
        BY <4>1, <4>2, <4>3, <4>7, <4>8
    <3> QED
      BY <3>1, <3>2
  <2> HIDE DEF Grown
  <2>2. 0 \in S
    OBVIOUS
  <2>3. ASSUME NEW n \in Nat, n \in S PROVE n + 1 \in S
    <3>1. \A k \in 1 .. n + 1 : k \in 1 .. n \/ k = n + 1
      OBVIOUS
    <3>2. n + 1 <= N => Grown(n + 1)
      BY <2>1, <2>3
    <3> QED
      BY <2>3, <3>1, <3>2
  <2>4. N \in S
    <3> HIDE DEF S
    <3> QED
      BY <1>1, <2>2, <2>3, NatSetInduction
  <2> QED
    BY <1>1, <2>4
<1>a. \A k \in 1 .. N : g[k] \in Seq(C) /\ Len(g[k]) \in Nat
  <2>1. \A k \in 1 .. N : g[k] \in Seq(C)
    BY <1>11, Zenon
  <2>2. \A q \in Seq(C) : Len(q) \in Nat
    OBVIOUS
  <2> QED
    BY <2>1, <2>2, Zenon
<1>b. \A k \in 1 .. N : k # 1 => Len(g[k]) = Len(g[k - 1]) + 1 + Len(s[k])
  <2>1. \A k \in 1 .. N : k # 1 => k > 1
    OBVIOUS
  <2> QED
    BY <1>11, <2>1, Zenon
<1> HIDE DEF Grown
<1> DEFINE st == [k \in 1 .. N + 1 |-> IF k = 1 THEN 1 ELSE Len(g[k - 1]) + 2]
<1>12. Spaced(s, st)
  <2>1. st \in [1 .. Len(s) + 1 -> Nat \ {0}]
    <3>1. \A k \in 1 .. N + 1 : k # 1 => k - 1 \in 1 .. N
      BY <1>1
    <3>2. \A k \in 1 .. N : Len(g[k]) \in Nat
      BY <1>a
    <3>3. \A n \in Nat : n + 2 \in Nat \ {0}
      OBVIOUS
    <3> QED
      BY <3>1, <3>2, <3>3
  <2>2. st[1] = 1
    BY <1>1
  <2>3. ASSUME NEW k \in 1 .. Len(s) PROVE st[k + 1] = st[k] + Len(s[k]) + 1
    <3>1. k \in 1 .. N + 1 /\ k + 1 \in 1 .. N + 1 /\ k + 1 # 1 /\ (k + 1) - 1 = k
      BY <1>1
    <3>2. st[k + 1] = Len(g[k]) + 2 /\ st[k] = IF k = 1 THEN 1 ELSE Len(g[k - 1]) + 2
      BY <3>1
    <3> HIDE DEF st
    <3>3. Len(s[k]) \in Nat
      BY <1>2
    <3>4. CASE k = 1
      BY <1>9, <3>2, <3>3, <3>4
    <3>5. CASE k # 1
      <4>1. k - 1 \in 1 .. N
        BY <3>5
      <4>2. Len(g[k - 1]) \in Nat /\ Len(g[k]) = Len(g[k - 1]) + 1 + Len(s[k])
        BY <1>a, <1>b, <3>5, <4>1
      <4>3. \A a, b, c \in Nat : b = a + 1 + c => b + 2 = (a + 2) + c + 1
        OBVIOUS
      <4>4. Len(g[k]) \in Nat
        BY <1>a
      <4>5. Len(g[k]) + 2 = (Len(g[k - 1]) + 2) + Len(s[k]) + 1
        BY <3>3, <4>2, <4>3, <4>4, Zenon
      <4>6. st[k] = Len(g[k - 1]) + 2
        BY <3>2, <3>5, Zenon
      <4> QED
        BY <3>2, <4>5, <4>6, Zenon
    <3> QED
      BY <3>4, <3>5
  <2> HIDE DEF st
  <2> QED
    BY <2>1, <2>2, <2>3 DEF Spaced
<1>13. \A k \in 1 .. N : Len(g[k]) + 2 = st[k + 1]
  <2>1. \A k \in 1 .. N : k + 1 \in 1 .. N + 1 /\ k + 1 # 1 /\ (k + 1) - 1 = k
    BY <1>1
  <2> QED
    BY <2>1
<1> HIDE DEF st
<1>14. Filled(s, N, g[N], st)
  <2> DEFINE S == {n \in Nat : n + 1 <= N => Filled(s, n + 1, g[n + 1], st)}
  <2>1. 0 \in S
    <3>1. 1 \in 1 .. N /\ 0 + 1 = 1
      BY <1>1
    <3>2. Len(s[1]) + 2 = st[1 + 1]
      BY <1>9, <1>13, <3>1
    <3>3. \A m \in 1 .. Len(s[1]) : s[1][st[1] + m - 1] = s[1][m]
      <4>1. st[1] = 1 /\ \A m \in 1 .. Len(s[1]) : 1 + m - 1 = m
        BY <1>12 DEF Spaced
      <4> QED
        BY <4>1
    <3>4. \A k \in 1 .. 1 : k = 1 /\ ~(k > 1)
      OBVIOUS
    <3>5. Filled(s, 1, s[1], st)
      BY <3>2, <3>3, <3>4, Zenon DEF Filled
    <3> QED
      BY <1>9, <3>1, <3>5
  <2>2. ASSUME NEW n \in Nat, n \in S PROVE n + 1 \in S
    <3> SUFFICES ASSUME (n + 1) + 1 <= N PROVE Filled(s, (n + 1) + 1, g[(n + 1) + 1], st)
      OBVIOUS
    <3>1. n + 1 \in 1 .. Len(s) - 1 /\ n + 1 <= N /\ n + 1 \in 1 .. N
      BY <1>1
    <3>2. Filled(s, n + 1, g[n + 1], st) /\ g[n + 1] \in Seq(C)
      BY <1>a, <2>2, <3>1
    <3>3. Filled(s, (n + 1) + 1, (g[n + 1] \o <<"/">>) \o s[(n + 1) + 1], st)
      BY <1>12, <3>1, <3>2, FilledOn
    <3> QED
      BY <1>9, <3>1, <3>3, Zenon
  <2>3. N - 1 \in Nat /\ (N - 1) + 1 = N
    BY <1>1
  <2>4. N - 1 \in S
    <3> HIDE DEF S
    <3> QED
      BY <2>1, <2>2, <2>3, NatSetInduction
  <2> QED
    BY <2>3, <2>4
<1> QED
  <2>1. N \in 1 .. N
    BY <1>1
  <2> QED
    BY <1>10, <1>a, <1>12, <1>14, <2>1, Zenon DEF Laid

-----------------------------------------------------------------------------
(* The loop of Fits, from the last name of the pattern to the first.        *)
Fit(pattern, names, f, i) ==
  IF i > Len(pattern) THEN {Len(names) + 1}
  ELSE {j \in 1 .. Len(names) + 1 :
          IF pattern[i] # <<"*", "*">>
          THEN j <= Len(names) /\ FitsName(pattern[i], names[j]) /\ j + 1 \in f[i + 1]
          ELSE IF i = Len(pattern) THEN j <= Len(names)
          ELSE \E k \in f[i + 1] : j <= k}
FitOf(pattern, names, f) ==
  f = [i \in 1 .. Len(pattern) + 1 |-> Fit(pattern, names, f, i)]

(* There are names for every name of the pattern.                           *)
LEMMA FitExist ==
  ASSUME NEW pattern, Len(pattern) \in Nat, NEW names
  PROVE  \E f : FitOf(pattern, names, f)
<1> DEFINE L == Len(pattern)
           Row(f, n) == \A i \in L + 1 - n .. L + 1 : f[i] = Fit(pattern, names, f, i)
           S == {n \in Nat : n <= L => \E f : f = [i \in 1 .. L + 1 |-> f[i]] /\ Row(f, n)}
<1>1. 0 \in S
  <2>1. PICK f : f = [i \in 1 .. L + 1 |-> {Len(names) + 1}]
    OBVIOUS
  <2>2. f = [i \in 1 .. L + 1 |-> f[i]]
    BY <2>1
  <2>3. Row(f, 0)
    BY <2>1 DEF Fit
  <2> QED
    BY <2>2, <2>3
<1>2. ASSUME NEW n \in Nat, n \in S PROVE n + 1 \in S
  <2> SUFFICES ASSUME n + 1 <= L
               PROVE  \E f : f = [i \in 1 .. L + 1 |-> f[i]] /\ Row(f, n + 1)
    OBVIOUS
  <2>1. PICK f : f = [i \in 1 .. L + 1 |-> f[i]] /\ Row(f, n)
    BY <1>2
  <2>2. PICK h : h = [i \in 1 .. L + 1 |-> IF i = L - n THEN Fit(pattern, names, f, i) ELSE f[i]]
    OBVIOUS
  <2>3. h = [i \in 1 .. L + 1 |-> h[i]]
    BY <2>2
  <2>4. ASSUME NEW i \in L - n .. L + 1
        PROVE  Fit(pattern, names, h, i) = Fit(pattern, names, f, i)
    <3>1. CASE i = L + 1
      BY <3>1 DEF Fit
    <3>2. CASE i # L + 1
      <4>1. i + 1 \in 1 .. L + 1 /\ i + 1 # L - n
        BY <3>2
      <4>2. h[i + 1] = f[i + 1]
        BY <2>2, <4>1
      <4> QED
        BY <4>2, Zenon DEF Fit
    <3> QED
      BY <3>1, <3>2
  <2>5. ASSUME NEW i \in L - n .. L + 1 PROVE h[i] = Fit(pattern, names, f, i)
    <3>1. i \in 1 .. L + 1 /\ (i # L - n => i \in L + 1 - n .. L + 1)
      OBVIOUS
    <3>2. h[i] = IF i = L - n THEN Fit(pattern, names, f, i) ELSE f[i]
      BY <2>2, <3>1
    <3> QED
      BY <2>1, <3>1, <3>2
  <2>6. Row(h, n + 1)
    <3>1. L + 1 - (n + 1) = L - n
      OBVIOUS
    <3> QED
      BY <2>4, <2>5, <3>1
  <2> QED
    BY <2>3, <2>6
<1>3. L \in S
  <2> HIDE DEF S
  <2> QED
    BY <1>1, <1>2, NatSetInduction
<1>4. PICK f : f = [i \in 1 .. L + 1 |-> f[i]] /\ Row(f, L)
  BY <1>3
<1>5. \A i \in 1 .. L + 1 : f[i] = Fit(pattern, names, f, i)
  BY <1>4
<1>6. f = [i \in 1 .. L + 1 |-> Fit(pattern, names, f, i)]
  BY <1>4, <1>5, Zenon
<1> QED
  BY <1>6 DEF FitOf

(* The names from which the pattern fits, one name of it after another.     *)
FitRows(pattern, names, f) ==
  /\ Fits(pattern, names) <=> 1 \in f[1]
  /\ f[Len(pattern) + 1] = {Len(names) + 1}
  /\ \A i \in 1 .. Len(pattern) : pattern[i] # <<"*", "*">> =>
       f[i] = {j \in 1 .. Len(names) : FitsName(pattern[i], names[j]) /\ j + 1 \in f[i + 1]}
  /\ \A i \in 1 .. Len(pattern) - 1 : pattern[i] = <<"*", "*">> =>
       f[i] = {j \in 1 .. Len(names) + 1 : \E k \in f[i + 1] : j <= k}
  /\ Len(pattern) >= 1 /\ pattern[Len(pattern)] = <<"*", "*">> =>
       f[Len(pattern)] = 1 .. Len(names)

(* Fits looks for the first name among those of the first.                  *)
LEMMA FitsIs ==
  ASSUME NEW pattern, Len(pattern) \in Nat, NEW names, Len(names) \in Nat
  PROVE  \E f : FitRows(pattern, names, f)
<1> DEFINE f == CHOOSE f : FitOf(pattern, names, f)
<1>1. FitOf(pattern, names, f)
  BY FitExist, Zenon
<1>2. Fits(pattern, names) <=> 1 \in f[1]
  BY Zenon DEF Fits, FitOf, Fit
<1> HIDE DEF f
<1>3. \A i \in 1 .. Len(pattern) + 1 : f[i] = Fit(pattern, names, f, i)
  BY <1>1, Zenon DEF FitOf
<1>4. f[Len(pattern) + 1] = {Len(names) + 1}
  <2>1. Len(pattern) + 1 \in 1 .. Len(pattern) + 1 /\ Len(pattern) + 1 > Len(pattern)
    OBVIOUS
  <2> QED
    BY <1>3, <2>1, Zenon DEF Fit
<1>5. \A i \in 1 .. Len(pattern) : i \in 1 .. Len(pattern) + 1 /\ ~(i > Len(pattern))
  OBVIOUS
<1>6. ASSUME NEW i \in 1 .. Len(pattern), pattern[i] # <<"*", "*">>
      PROVE  f[i] = {j \in 1 .. Len(names) :
                       FitsName(pattern[i], names[j]) /\ j + 1 \in f[i + 1]}
  <2>1. f[i] = {j \in 1 .. Len(names) + 1 :
                  j <= Len(names) /\ FitsName(pattern[i], names[j]) /\ j + 1 \in f[i + 1]}
    BY <1>3, <1>5, <1>6, Zenon DEF Fit
  <2>2. \A j : j \in 1 .. Len(names) <=> j \in 1 .. Len(names) + 1 /\ j <= Len(names)
    OBVIOUS
  <2> QED
    BY <2>1, <2>2
<1>7. ASSUME NEW i \in 1 .. Len(pattern) - 1, pattern[i] = <<"*", "*">>
      PROVE  f[i] = {j \in 1 .. Len(names) + 1 : \E k \in f[i + 1] : j <= k}
  <2>1. i \in 1 .. Len(pattern) /\ i # Len(pattern)
    OBVIOUS
  <2> QED
    BY <1>3, <1>5, <1>7, <2>1, Zenon DEF Fit
<1>8. ASSUME Len(pattern) >= 1, pattern[Len(pattern)] = <<"*", "*">>
      PROVE  f[Len(pattern)] = 1 .. Len(names)
  <2>1. Len(pattern) \in 1 .. Len(pattern)
    BY <1>8
  <2>2. f[Len(pattern)] = {j \in 1 .. Len(names) + 1 : j <= Len(names)}
    BY <1>3, <1>5, <1>8, <2>1, Zenon DEF Fit
  <2> QED
    BY <2>2
<1> QED
  BY <1>2, <1>4, <1>6, <1>7, <1>8, Zenon DEF FitRows

-----------------------------------------------------------------------------
(* Which token stands where.                                                *)

(* The token that begins at a place of a pattern: the slashes and stars     *)
(* that follow decide.                                                      *)
Twice(q, a) == a + 1 <= Len(q) /\ q[a] = "*" /\ q[a + 1] = "*"
Slash(q, a) == a <= Len(q) /\ q[a] = "/"
TokenAt(q, a) == Token(SubSeq(q, a, Len(q)))

(* What stands there decides which it is.                                   *)
LEMMA TokenAtIs ==
  ASSUME NEW C, NEW q \in Seq(C), NEW a \in 1 .. Len(q)
  PROVE  /\ q[a] \notin {"*", "/"} => TokenAt(q, a) = <<q[a]>>
         /\ Twice(q, a) /\ Slash(q, a + 2) => TokenAt(q, a) = <<"*", "*", "/">>
         /\ q[a] = "*" /\ ~(Twice(q, a) /\ Slash(q, a + 2)) => TokenAt(q, a) = <<"*">>
         /\ q[a] = "/" /\ Twice(q, a + 1) /\ Slash(q, a + 3)
              => TokenAt(q, a) = <<"/", "*", "*", "/">>
         /\ q[a] = "/" /\ Twice(q, a + 1) /\ ~Slash(q, a + 3) => TokenAt(q, a) = <<"/", "*", "*">>
         /\ q[a] = "/" /\ ~Twice(q, a + 1) => TokenAt(q, a) = <<"/">>
<1>1. \A i \in a .. Len(q) : q[i] \in C
  OBVIOUS
<1>2. /\ SubSeq(q, a, Len(q)) \in Seq(C) /\ Len(SubSeq(q, a, Len(q))) = Len(q) - a + 1
      /\ \A i \in 1 .. Len(q) - a + 1 : SubSeq(q, a, Len(q))[i] = q[a + i - 1]
  BY <1>1, SubSeqProperties
<1>3. PICK p \in Seq(C) : p = SubSeq(q, a, Len(q))
  BY <1>2
<1>4. Len(p) = Len(q) - a + 1 /\ \A i \in 1 .. Len(p) : p[i] = q[a + i - 1]
  BY <1>2, <1>3
<1>5. Len(q) \in Nat /\ Len(p) \in Nat /\ Len(p) >= 1 /\ a \in Nat
  BY <1>4
<1>6. /\ p[1] = q[a] /\ (Len(p) >= 2 => p[2] = q[a + 1])
      /\ (Len(p) >= 3 => p[3] = q[a + 2]) /\ (Len(p) >= 4 => p[4] = q[a + 3])
  <2>1. a + 1 - 1 = a /\ a + 2 - 1 = a + 1 /\ a + 3 - 1 = a + 2 /\ a + 4 - 1 = a + 3
    BY <1>5
  <2>2. 1 \in 1 .. Len(p) /\ (Len(p) >= 2 => 2 \in 1 .. Len(p))
        /\ (Len(p) >= 3 => 3 \in 1 .. Len(p)) /\ (Len(p) >= 4 => 4 \in 1 .. Len(p))
    BY <1>5
  <2> QED
    BY <1>4, <2>1, <2>2, Zenon
<1>7. p # <<>> /\ Head(p) = p[1]
  BY <1>5
<1>8. /\ Twice(q, a) <=> Len(p) >= 2 /\ p[1] = "*" /\ p[2] = "*"
      /\ Twice(q, a + 1) <=> Len(p) >= 3 /\ p[2] = "*" /\ p[3] = "*"
      /\ Slash(q, a + 2) <=> Len(p) >= 3 /\ p[3] = "/"
      /\ Slash(q, a + 3) <=> Len(p) >= 4 /\ p[4] = "/"
  <2>1. /\ a + 1 <= Len(q) <=> Len(p) >= 2
        /\ (a + 1) + 1 <= Len(q) <=> Len(p) >= 3
        /\ a + 3 <= Len(q) <=> Len(p) >= 4
        /\ (a + 1) + 1 = a + 2
    BY <1>4, <1>5
  <2>2. a + 2 <= Len(q) <=> Len(p) >= 3
    BY <1>4, <1>5
  <2>3. Len(p) >= 3 => Len(p) >= 2
    BY <1>5
  <2> QED
    BY <1>6, <2>1, <2>2, <2>3, Zenon DEF Twice, Slash
<1> DEFINE fit(k) == IsPrefix(Alternatives[k], p)
<1>9. /\ fit(1) <=> p[1] = "/" /\ Twice(q, a + 1) /\ Slash(q, a + 3)
      /\ fit(2) <=> Twice(q, a) /\ Slash(q, a + 2)
      /\ fit(3) <=> p[1] = "/" /\ Twice(q, a + 1)
  <2>1. Len(p) >= 4 => Len(p) >= 3
    BY <1>5
  <2>2. Len(p) >= 3 => Len(p) >= 2
    BY <1>5
  <2> QED
    BY <1>7, <1>8, <2>1, <2>2, FitIs, Zenon
<1>10. (fit(4) <=> p[1] = "*") /\ (fit(5) <=> p[1] = "/")
  BY <1>7, FitIs, Zenon
<1>11. \A k \in 1 .. 5 : k = 1 \/ k = 2 \/ k = 3 \/ k = 4 \/ k = 5
  OBVIOUS
<1>12. ASSUME NEW k \in 1 .. 5, fit(k), \A j \in 1 .. 5 : j < k => ~fit(j)
       PROVE  Token(p) = Alternatives[k]
  BY <1>12, TokenIs
<1>13. p[1] \notin {"*", "/"} => Token(p) = <<p[1]>>
  BY <1>7, TokenCases
<1> HIDE DEF fit
<1>14. ASSUME Twice(q, a), Slash(q, a + 2) PROVE Token(p) = <<"*", "*", "/">>
  <2>1. fit(2) /\ ~fit(1)
    BY <1>8, <1>9, <1>14
  <2>2. \A j \in 1 .. 5 : j < 2 => j = 1
    OBVIOUS
  <2>3. 2 \in 1 .. 5 /\ \A j \in 1 .. 5 : j < 2 => ~fit(j)
    BY <2>1, <2>2
  <2>4. Token(p) = Alternatives[2]
    BY <1>12, <2>1, <2>3
  <2> QED
    BY <2>4, AlternativesAre
<1>15. ASSUME p[1] = "*", ~(Twice(q, a) /\ Slash(q, a + 2)) PROVE Token(p) = <<"*">>
  <2>1. fit(4) /\ ~fit(1) /\ ~fit(2) /\ ~fit(3)
    BY <1>8, <1>9, <1>10, <1>15
  <2>2. \A j \in 1 .. 5 : j < 4 => j = 1 \/ j = 2 \/ j = 3
    OBVIOUS
  <2>3. 4 \in 1 .. 5 /\ \A j \in 1 .. 5 : j < 4 => ~fit(j)
    BY <2>1, <2>2
  <2>4. Token(p) = Alternatives[4]
    BY <1>12, <2>1, <2>3
  <2> QED
    BY <2>4, AlternativesAre
<1>16. ASSUME p[1] = "/", Twice(q, a + 1), Slash(q, a + 3)
       PROVE  Token(p) = <<"/", "*", "*", "/">>
  <2>1. fit(1)
    BY <1>9, <1>16
  <2>2. \A j \in 1 .. 5 : ~(j < 1)
    OBVIOUS
  <2>3. 1 \in 1 .. 5 /\ \A j \in 1 .. 5 : j < 1 => ~fit(j)
    BY <2>1, <2>2
  <2>4. Token(p) = Alternatives[1]
    BY <1>12, <2>1, <2>3
  <2> QED
    BY <2>4, AlternativesAre
<1>17. ASSUME p[1] = "/", Twice(q, a + 1), ~Slash(q, a + 3) PROVE Token(p) = <<"/", "*", "*">>
  <2>1. fit(3) /\ ~fit(1) /\ ~fit(2)
    BY <1>8, <1>9, <1>17
  <2>2. \A j \in 1 .. 5 : j < 3 => j = 1 \/ j = 2
    OBVIOUS
  <2>3. 3 \in 1 .. 5 /\ \A j \in 1 .. 5 : j < 3 => ~fit(j)
    BY <2>1, <2>2
  <2>4. Token(p) = Alternatives[3]
    BY <1>12, <2>1, <2>3
  <2> QED
    BY <2>4, AlternativesAre
<1>18. ASSUME p[1] = "/", ~Twice(q, a + 1) PROVE Token(p) = <<"/">>
  <2>1. fit(5) /\ ~fit(1) /\ ~fit(2) /\ ~fit(3) /\ ~fit(4)
    BY <1>8, <1>9, <1>10, <1>18
  <2>2. \A j \in 1 .. 5 : j < 5 => j = 1 \/ j = 2 \/ j = 3 \/ j = 4
    OBVIOUS
  <2>3. 5 \in 1 .. 5 /\ \A j \in 1 .. 5 : j < 5 => ~fit(j)
    BY <2>1, <2>2
  <2>4. Token(p) = Alternatives[5]
    BY <1>12, <2>1, <2>3
  <2> QED
    BY <2>4, AlternativesAre
<1> QED
  BY <1>3, <1>6, <1>13, <1>14, <1>15, <1>16, <1>17, <1>18, Zenon DEF TokenAt

-----------------------------------------------------------------------------
(* Where a token begins that the loop of Tokens comes to, and from which    *)
(* places of a text the tokens from there on match.                         *)
After(q, a) == a + Len(TokenAt(q, a))
CutsOf(q, f) ==
  /\ Tokens(q) = f[1] /\ f[Len(q) + 1] = <<>>
  /\ \A a \in 1 .. Len(q) : f[a] = <<TokenAt(q, a)>> \o f[After(q, a)]
  /\ \A a \in 1 .. Len(q) + 1 : f[a] \in Seq({TokenAt(q, b) : b \in 1 .. Len(q)})
Walk(q, t, A, T) ==
  /\ Matches(Tokens(q), t) <=> 1 \in T[1]
  /\ 1 \in A /\ T[Len(q) + 1] = {Len(t) + 1}
  /\ \A a \in A : a <= Len(q) =>
       /\ After(q, a) \in A
       /\ T[a] = {j \in 1 .. Len(t) + 1 : \E k \in T[After(q, a)] : Takes(TokenAt(q, a), t, j, k)}

(* The next token begins within the pattern or at its end.                  *)
LEMMA NextIn ==
  ASSUME NEW C, NEW q \in Seq(C), NEW a \in 1 .. Len(q)
  PROVE  After(q, a) \in a + 1 .. Len(q) + 1
BY RestOn DEF After, TokenAt

(* The tokens from a place on, for every place.                             *)
LEMMA Cuts ==
  ASSUME NEW C, NEW q \in Seq(C)
  PROVE  \E f : CutsOf(q, f)
<1> DEFINE L == Len(q)
           D == {TokenAt(q, b) : b \in 1 .. L}
<1>1. PICK f : /\ Tokens(q) = f[1] /\ f[Len(q) + 1] = <<>>
               /\ \A i \in 1 .. Len(q) :
                    f[i] = <<Token(SubSeq(q, i, Len(q)))>>
                             \o f[i + Len(Token(SubSeq(q, i, Len(q))))]
  BY TokensIs
<1>2. \A a \in 1 .. L : f[a] = <<TokenAt(q, a)>> \o f[After(q, a)]
  BY <1>1, Zenon DEF TokenAt, After
<1>3. L \in Nat
  OBVIOUS
<1> DEFINE S == {n \in Nat : \A a \in 1 .. L + 1 : a >= L + 1 - n => f[a] \in Seq(D)}
<1>4. 0 \in S
  <2>1. \A a \in 1 .. L + 1 : a >= L + 1 - 0 => a = L + 1
    BY <1>3
  <2>2. <<>> \in Seq(D)
    OBVIOUS
  <2> QED
    BY <1>1, <2>1, <2>2
<1>5. ASSUME NEW n \in Nat, n \in S PROVE n + 1 \in S
  <2> SUFFICES ASSUME NEW a \in 1 .. L + 1, a >= L + 1 - (n + 1) PROVE f[a] \in Seq(D)
    OBVIOUS
  <2>1. CASE a = L + 1
    <3>1. <<>> \in Seq(D)
      OBVIOUS
    <3> QED
      BY <1>1, <2>1, <3>1, Zenon
  <2>2. CASE a # L + 1
    <3>1. a \in 1 .. L
      BY <1>3, <2>2
    <3>2. After(q, a) \in a + 1 .. L + 1
      BY <3>1, NextIn
    <3>3. PICK b \in 1 .. L + 1 : b = After(q, a) /\ b >= L + 1 - n
      BY <1>3, <3>1, <3>2
    <3>4. f[b] \in Seq(D)
      BY <1>5, <3>3
    <3>5. PICK y \in Seq(D) : y = f[b]
      BY <3>4
    <3>6. PICK d \in D : d = TokenAt(q, a)
      BY <3>1
    <3>7. f[a] = <<d>> \o y
      BY <1>2, <3>1, <3>3, <3>5, <3>6
    <3> HIDE DEF D
    <3>8. <<d>> \in Seq(D)
      OBVIOUS
    <3> QED
      BY <3>7, <3>8, ConcatProperties
  <2> QED
    BY <2>1, <2>2
<1>6. L \in S
  <2> HIDE DEF S
  <2> QED
    BY <1>3, <1>4, <1>5, NatSetInduction
<1>7. \A a \in 1 .. L + 1 : f[a] \in Seq(D)
  <2>1. \A a \in 1 .. L + 1 : a >= L + 1 - L
    BY <1>3
  <2> QED
    BY <1>6, <2>1
<1> QED
  BY <1>1, <1>2, <1>7, Zenon DEF CutsOf

(* A match walks through the pattern.                                       *)
LEMMA PatternWalks ==
  ASSUME NEW C, NEW q \in Seq(C), NEW t
  PROVE  \E A, T : A \subseteq 1 .. Len(q) + 1 /\ Walk(q, t, A, T)
<1> DEFINE L == Len(q)
           D == {TokenAt(q, b) : b \in 1 .. L}
<1>1. PICK f : CutsOf(q, f)
  BY Cuts
<1>2. L \in Nat
  OBVIOUS
<1>3. f[1] = Tokens(q) /\ f[L + 1] = <<>>
  BY <1>1, Zenon DEF CutsOf
<1>4. \A a \in 1 .. L + 1 : f[a] \in Seq(D) /\ Len(f[a]) \in Nat
  <2>1. \A a \in 1 .. L + 1 : f[a] \in Seq(D)
    BY <1>1, Zenon DEF CutsOf
  <2>2. \A y \in Seq(D) : Len(y) \in Nat
    OBVIOUS
  <2> QED
    BY <2>1, <2>2, Zenon
<1>5. \A a \in 1 .. L : f[a] = <<TokenAt(q, a)>> \o f[After(q, a)]
  BY <1>1, Zenon DEF CutsOf
<1>6. PICK tokens \in Seq(D) : tokens = Tokens(q) /\ tokens = f[1]
  <2>1. 1 \in 1 .. L + 1
    BY <1>2
  <2> QED
    BY <1>3, <1>4, <2>1
<1>7. Len(tokens) \in Nat
  OBVIOUS
<1>8. PICK r : RowsOf(tokens, t, r)
  BY <1>7, Rows
<1> DEFINE I(a) == Len(tokens) + 1 - Len(f[a])
           A == {a \in 1 .. L + 1 : /\ I(a) \in 1 .. Len(tokens) + 1
                                    /\ \A m \in 1 .. Len(f[a]) : tokens[I(a) + m - 1] = f[a][m]}
           T == [a \in 1 .. L + 1 |-> r[I(a)]]
<1>9. 1 \in A /\ T[1] = r[1]
  <2>1. 1 \in 1 .. L + 1 /\ I(1) = 1 /\ \A m \in 1 .. Len(tokens) : 1 + m - 1 = m
    BY <1>2, <1>6, <1>7
  <2>2. 1 \in 1 .. Len(tokens) + 1
    BY <1>7
  <2> QED
    BY <1>6, <2>1, <2>2
<1>10. T[L + 1] = {Len(t) + 1}
  <2>1. L + 1 \in 1 .. L + 1 /\ I(L + 1) = Len(tokens) + 1
    <3>1. Len(f[L + 1]) = 0
      BY <1>3
    <3> QED
      BY <1>2, <1>7, <3>1
  <2>2. r[Len(tokens) + 1] = {Len(t) + 1}
    BY <1>8, Zenon DEF RowsOf
  <2> QED
    BY <2>1, <2>2, Zenon
<1>11. ASSUME NEW a \in A, a <= L
       PROVE  /\ After(q, a) \in A
              /\ T[a] = {j \in 1 .. Len(t) + 1 :
                           \E k \in T[After(q, a)] : Takes(TokenAt(q, a), t, j, k)}
  <2>1. a \in 1 .. L /\ a \in 1 .. L + 1
    BY <1>2, <1>11
  <2>2. PICK i : i = I(a)
    OBVIOUS
  <2>3. i \in 1 .. Len(tokens) + 1 /\ \A m \in 1 .. Len(f[a]) : tokens[i + m - 1] = f[a][m]
    BY <2>2
  <2>4. After(q, a) \in a + 1 .. L + 1
    BY <2>1, NextIn
  <2>5. PICK b \in 1 .. L + 1 : b = After(q, a)
    BY <1>2, <2>1, <2>4
  <2>6. PICK y \in Seq(D) : y = f[b]
    BY <1>4
  <2>7. PICK d \in D : d = TokenAt(q, a)
    BY <2>1
  <2>8. f[a] = <<d>> \o y
    BY <1>5, <2>1, <2>5, <2>6, <2>7
  <2>9. PICK z \in Seq(D) : z = f[a]
    BY <1>4, <2>1
  <2>10. i = Len(tokens) + 1 - Len(z) /\ I(b) = Len(tokens) + 1 - Len(y)
    BY <2>2, <2>6, <2>9
  <2> HIDE DEF D, I
  <2>11. <<d>> \in Seq(D) /\ Len(<<d>>) = 1 /\ <<d>>[1] = d
    OBVIOUS
  <2>12. /\ Len(z) = 1 + Len(y)
         /\ \A m \in 1 .. 1 + Len(y) : z[m] = IF m <= 1 THEN <<d>>[m] ELSE y[m - 1]
    BY <2>8, <2>9, <2>11, ConcatProperties
  <2>13. Len(y) \in Nat /\ Len(z) \in Nat
    OBVIOUS
  <2>14. i \in 1 .. Len(tokens) /\ I(b) = i + 1 /\ i + 1 \in 1 .. Len(tokens) + 1
    BY <1>7, <2>3, <2>10, <2>12, <2>13
  <2>15. tokens[i] = d
    <3>1. 1 \in 1 .. 1 + Len(y) /\ i + 1 - 1 = i /\ 1 <= 1
      BY <2>13, <2>14
    <3>2. tokens[i + 1 - 1] = z[1]
      BY <2>3, <2>9, <2>12, <3>1, Zenon
    <3> QED
      BY <2>11, <2>12, <3>1, <3>2, Zenon
  <2>16. \A m \in 1 .. Len(y) : tokens[(i + 1) + m - 1] = y[m]
    <3> TAKE m \in 1 .. Len(y)
    <3>1. m + 1 \in 1 .. 1 + Len(y) /\ i + (m + 1) - 1 = (i + 1) + m - 1
          /\ ~(m + 1 <= 1) /\ (m + 1) - 1 = m
      BY <2>13, <2>14
    <3>2. tokens[i + (m + 1) - 1] = z[m + 1]
      BY <2>3, <2>9, <2>12, <3>1, Zenon
    <3> QED
      BY <2>12, <3>1, <3>2, Zenon
  <2>17. b \in A
    BY <2>6, <2>14, <2>16, Zenon
  <2>18. r[i] = {j \in 1 .. Len(t) + 1 : \E k \in r[i + 1] : Takes(tokens[i], t, j, k)}
    BY <1>8, <2>14, Zenon DEF RowsOf
  <2>19. T[a] = r[i] /\ T[b] = r[i + 1]
    BY <2>1, <2>2, <2>14, Zenon
  <2> HIDE DEF A, T
  <2>20. T[a] = {j \in 1 .. Len(t) + 1 : \E k \in T[b] : Takes(TokenAt(q, a), t, j, k)}
    BY <2>7, <2>15, <2>18, <2>19
  <2> QED
    BY <2>5, <2>17, <2>20, Zenon
<1>12. Matches(Tokens(q), t) <=> 1 \in r[1]
  BY <1>6, <1>8, Zenon DEF RowsOf
<1> QED
  <2>1. A \subseteq 1 .. L + 1
    OBVIOUS
  <2>2. Walk(q, t, A, T)
    BY <1>9, <1>10, <1>11, <1>12, Zenon DEF Walk
  <2> QED
    BY <2>1, <2>2, Zenon

-----------------------------------------------------------------------------
(* A path as a text.                                                        *)

(* No name has a slash in it.                                               *)
Whole(s) == \A k \in 1 .. Len(s) : \A m \in 1 .. Len(s[k]) : s[k][m] # "/"

(* So the slashes of the text are those between names.                      *)
LEMMA NoSlash ==
  ASSUME NEW C, NEW s \in Seq(Seq(C)), NEW x \in Seq(C), NEW st, Laid(s, x, st),
         Whole(s)
  PROVE  /\ \A k \in 1 .. Len(s) : \A i \in st[k] .. st[k + 1] - 2 : x[i] # "/"
         /\ \A k \in 2 .. Len(s) : x[st[k] - 1] = "/"
<1>1. /\ Len(s) \in Nat /\ st[1] = 1
      /\ \A k \in 1 .. Len(s) + 1 : st[k] \in Nat /\ st[k] >= 1
      /\ \A k \in 1 .. Len(s) : s[k] \in Seq(C) /\ Len(s[k]) \in Nat
      /\ \A k \in 1 .. Len(s) : st[k + 1] = st[k] + Len(s[k]) + 1
  <2>1. Spaced(s, st)
    BY Zenon DEF Laid
  <2>2. Numbers(C, s, st)
    BY <2>1, SpacedAre
  <2> QED
    BY <2>2, Zenon DEF Numbers
<1>2. \A k \in 1 .. Len(s) :
        /\ \A m \in 1 .. Len(s[k]) : x[st[k] + m - 1] = s[k][m]
        /\ k > 1 => x[st[k] - 1] = "/"
  BY Zenon DEF Laid, Filled
<1>3. ASSUME NEW k \in 1 .. Len(s), NEW i \in st[k] .. st[k + 1] - 2 PROVE x[i] # "/"
  <2>1. k \in 1 .. Len(s) + 1
    BY <1>1
  <2>2. st[k] \in Nat /\ Len(s[k]) \in Nat /\ st[k + 1] = st[k] + Len(s[k]) + 1
    BY <1>1, <2>1, Zenon
  <2>3. st[k + 1] \in Nat
    <3>1. k + 1 \in 1 .. Len(s) + 1
      BY <1>1
    <3> QED
      BY <1>1, <3>1
  <2>4. i - st[k] + 1 \in 1 .. Len(s[k]) /\ st[k] + (i - st[k] + 1) - 1 = i
    <3>1. PICK u \in Nat, l \in Nat, v \in Nat :
            u = st[k] /\ l = Len(s[k]) /\ v = st[k + 1]
      BY <2>2, <2>3
    <3>2. v = u + l + 1 /\ i \in u .. v - 2
      BY <2>2, <3>1, Zenon
    <3>3. i - u + 1 \in 1 .. l /\ u + (i - u + 1) - 1 = i
      BY <3>2
    <3> QED
      BY <3>1, <3>3, Zenon
  <2>5. x[i] = s[k][i - st[k] + 1]
    BY <1>2, <2>4, Zenon
  <2> QED
    BY <2>4, <2>5, Zenon DEF Whole
<1>4. ASSUME NEW k \in 2 .. Len(s) PROVE x[st[k] - 1] = "/"
  <2>1. k \in 1 .. Len(s) /\ k > 1
    OBVIOUS
  <2> QED
    BY <1>2, <2>1, Zenon
<1> QED
  BY <1>3, <1>4, Zenon

(* Every slash of a path stands before a name.                              *)
LEMMA SlashesAre ==
  ASSUME NEW C, NEW s \in Seq(Seq(C)), NEW x \in Seq(C), NEW st, Laid(s, x, st), s # <<>>,
         Whole(s),
         NEW j \in 1 .. Len(x)
  PROVE  x[j] = "/" <=> \E k \in 2 .. Len(s) : j = st[k] - 1
<1> DEFINE N == Len(s)
<1>1. /\ N \in Nat /\ st[1] = 1
      /\ \A k \in 1 .. N + 1 : st[k] \in Nat /\ st[k] >= 1
      /\ \A k \in 1 .. N : s[k] \in Seq(C) /\ Len(s[k]) \in Nat
      /\ \A k \in 1 .. N : st[k + 1] = st[k] + Len(s[k]) + 1
  <2>1. Spaced(s, st)
    BY Zenon DEF Laid
  <2>2. Numbers(C, s, st)
    BY <2>1, SpacedAre
  <2> QED
    BY <2>2, Zenon DEF Numbers
<1>2. Len(x) \in Nat /\ Len(x) + 2 = st[N + 1] /\ N >= 1
  <2>1. Len(x) + 2 = st[N + 1]
    BY Zenon DEF Laid, Filled
  <2> QED
    BY <2>1
<1> DEFINE K == {k \in 1 .. N + 1 : st[k] <= j}
<1>3. PICK k \in K : \A y \in K : y <= k
  <2>1. K \subseteq 1 .. N + 1 /\ N + 1 \in Nat
    BY <1>1
  <2>2. 1 \in K
    BY <1>1, <1>2
  <2> HIDE DEF K
  <2> QED
    BY <2>1, <2>2, Latest
<1>4. k \in 1 .. N /\ k + 1 \in 1 .. N + 1 /\ k \in 1 .. N + 1
  <2>1. k # N + 1
    BY <1>1, <1>2
  <2> QED
    BY <1>1, <2>1
<1>5. st[k] <= j /\ j < st[k + 1]
  <2>1. ~(st[k + 1] <= j)
    <3> SUFFICES ASSUME st[k + 1] <= j PROVE FALSE
      OBVIOUS
    <3>1. k + 1 \in K
      BY <1>4
    <3> QED
      BY <1>1, <1>3, <1>4, <3>1
  <2>2. st[k + 1] \in Nat
    BY <1>1, <1>4
  <2> QED
    BY <2>1, <2>2
<1>6. st[k] \in Nat /\ st[k + 1] \in Nat
  BY <1>1, <1>4
<1> HIDE DEF K
<1>7. /\ \A i \in st[k] .. st[k + 1] - 2 : x[i] # "/"
      /\ \A n \in 2 .. N : x[st[n] - 1] = "/"
  <2>1. /\ \A n \in 1 .. Len(s) : \A i \in st[n] .. st[n + 1] - 2 : x[i] # "/"
        /\ \A n \in 2 .. Len(s) : x[st[n] - 1] = "/"
    BY NoSlash
  <2> QED
    BY <1>4, <2>1, Zenon
<1>8. ASSUME x[j] = "/" PROVE \E n \in 2 .. N : j = st[n] - 1
  <2>1. j = st[k + 1] - 1
    <3>1. ~(j \in st[k] .. st[k + 1] - 2)
      BY <1>7, <1>8
    <3> QED
      BY <1>5, <1>6, <3>1
  <2>2. k # N
    BY <1>2, <2>1
  <2>3. k + 1 \in 2 .. N
    BY <1>4, <2>2
  <2> QED
    BY <2>1, <2>3
<1> QED
  BY <1>7, <1>8, Zenon

(* Where a name may end: before a slash or at the end of the text.          *)
Stops(s, st) == {st[m] - 1 : m \in 2 .. Len(s) + 1}

(* From the place of a name no stop but its end is to be reached without a  *)
(* slash.                                                                   *)
LEMMA StopIs ==
  ASSUME NEW C, NEW s \in Seq(Seq(C)), NEW x \in Seq(C), NEW st, Laid(s, x, st),
         Whole(s),
         NEW k \in 1 .. Len(s), NEW e \in Stops(s, st), st[k] <= e,
         \A i \in st[k] .. e - 1 : x[i] # "/"
  PROVE  e = st[k + 1] - 1
<1>1. /\ Len(s) \in Nat /\ st[1] = 1
      /\ \A n \in 1 .. Len(s) + 1 : st[n] \in Nat /\ st[n] >= 1
      /\ \A n \in 1 .. Len(s) : s[n] \in Seq(C) /\ Len(s[n]) \in Nat
      /\ \A n \in 1 .. Len(s) : st[n + 1] = st[n] + Len(s[n]) + 1
  <2>1. Spaced(s, st)
    BY Zenon DEF Laid
  <2>2. Numbers(C, s, st)
    BY <2>1, SpacedAre
  <2> QED
    BY <2>2, Zenon DEF Numbers
<1>2. PICK m \in 2 .. Len(s) + 1 : e = st[m] - 1
  BY DEF Stops
<1>3. m \in 1 .. Len(s) + 1 /\ k \in 1 .. Len(s) + 1 /\ k + 1 \in 1 .. Len(s) + 1
  BY <1>1
<1>4. /\ st[m] \in Nat /\ st[k] \in Nat /\ Len(s[k]) \in Nat /\ st[k + 1] \in Nat
      /\ st[k + 1] = st[k] + Len(s[k]) + 1
  BY <1>1, <1>3, Zenon
<1>5. Spaced(s, st)
  BY Zenon DEF Laid
<1>6. ~(m <= k)
  <2> SUFFICES ASSUME m <= k PROVE FALSE
    OBVIOUS
  <2>1. CASE m = k
    BY <1>2, <1>4, <2>1
  <2>2. CASE m # k
    <3>1. m \in 1 .. Len(s) /\ k \in m + 1 .. Len(s) + 1
      BY <1>3, <2>2
    <3>2. st[m] + Len(s[m]) + 1 <= st[k]
      BY <1>5, <3>1, PlacesUp
    <3>3. Len(s[m]) \in Nat
      BY <1>1, <3>1
    <3>4. \A u, v, l \in Nat : u + l + 1 <= v => ~(v <= u - 1)
      OBVIOUS
    <3> QED
      BY <1>2, <1>4, <3>2, <3>3, <3>4, Zenon
  <2> QED
    BY <2>1, <2>2
<1>7. ~(m > k + 1)
  <2> SUFFICES ASSUME m > k + 1 PROVE FALSE
    OBVIOUS
  <2>1. k + 1 \in 1 .. Len(s) /\ k + 1 \in 2 .. Len(s) /\ m \in (k + 1) + 1 .. Len(s) + 1
    BY <1>1, <1>3
  <2>2. st[k + 1] + Len(s[k + 1]) + 1 <= st[m]
    BY <1>5, <2>1, PlacesUp
  <2>3. Len(s[k + 1]) \in Nat
    BY <1>1, <2>1
  <2>4. st[k + 1] - 1 \in st[k] .. e - 1
    <3>1. \A u, l, v, h, w \in Nat : v = u + l + 1 /\ v + h + 1 <= w => v - 1 \in u .. (w - 1) - 1
      OBVIOUS
    <3> QED
      BY <1>2, <1>4, <2>2, <2>3, <3>1, Zenon
  <2>5. x[st[k + 1] - 1] = "/"
    <3>1. \A n \in 2 .. Len(s) : x[st[n] - 1] = "/"
      BY NoSlash
    <3> QED
      BY <2>1, <3>1
  <2> QED
    BY <2>4, <2>5
<1>8. m = k + 1
  BY <1>3, <1>6, <1>7
<1> QED
  BY <1>2, <1>8

(* What /**/ takes.                                                         *)
LEMMA TakesBetween ==
  ASSUME NEW C, NEW t \in Seq(C), NEW j \in 1 .. Len(t) + 1, NEW k \in 1 .. Len(t) + 1
  PROVE  Takes(<<"/", "*", "*", "/">>, t, j, k) <=> j < k /\ t[j] = "/" /\ t[k - 1] = "/"
<1>1. ASSUME NEW y
      PROVE  Accepts(<<"/", "*", "*", "/">>, y) <=> y # <<>> /\ Head(y) = "/" /\ Last(y) = "/"
  <2>1. /\ Len(<<"/", "*", "*", "/">>) = 4 /\ Len(<<"/", "*", "*">>) = 3
        /\ Len(<<"*", "*", "/">>) = 3 /\ Len(<<"*">>) = 1
    OBVIOUS
  <2> QED
    BY <2>1 DEF Accepts
<1>2. CASE ~(j <= k)
  <2>1. ~(j < k)
    BY <1>2
  <2> QED
    BY <1>2, <2>1, Zenon DEF Takes
<1>3. CASE j <= k
  <2>0. j \in Int /\ k - 1 \in Int /\ \A i \in j .. k - 1 : t[i] \in C
    BY <1>3
  <2>1. /\ SubSeq(t, j, k - 1) \in Seq(C)
        /\ Len(SubSeq(t, j, k - 1)) = IF j <= k - 1 THEN (k - 1) - j + 1 ELSE 0
        /\ \A i \in 1 .. (k - 1) - j + 1 : SubSeq(t, j, k - 1)[i] = t[j + i - 1]
    BY <2>0, SubSeqProperties
  <2>2. PICK q \in Seq(C) : q = SubSeq(t, j, k - 1)
    BY <2>1
  <2>3. Len(q) = k - j /\ \A i \in 1 .. k - j : q[i] = t[j + i - 1]
    BY <1>3, <2>1, <2>2
  <2>4. q = <<>> <=> k = j
    BY <2>3, EmptySeq
  <2>5. ASSUME k # j PROVE Head(q) = t[j] /\ Last(q) = t[k - 1]
    <3>1. 1 \in 1 .. k - j /\ k - j \in 1 .. k - j /\ j + 1 - 1 = j /\ j + (k - j) - 1 = k - 1
      BY <1>3, <2>5
    <3>2. q[1] = t[j] /\ q[Len(q)] = t[k - 1]
      BY <2>3, <3>1
    <3>3. Head(q) = q[1]
      OBVIOUS
    <3> QED
      BY <3>2, <3>3 DEF Last
  <2>6. k # j <=> j < k
    BY <1>3
  <2> QED
    BY <1>1, <1>3, <2>2, <2>4, <2>5, <2>6, Zenon DEF Takes
<1> QED
  BY <1>2, <1>3

(* A suffix, atom by atom.                                                  *)
LEMMA SuffixIs ==
  ASSUME NEW C, NEW s \in Seq(C), NEW t \in Seq(C)
  PROVE  IsSuffix(s, t) <=>
           Len(s) <= Len(t) /\ \A m \in 1 .. Len(s) : s[m] = t[Len(t) - Len(s) + m]
<1>1. Len(s) \in Nat /\ Len(t) \in Nat
  OBVIOUS
<1>2. ASSUME NEW y \in Seq(C)
      PROVE  /\ Reverse(y) \in Seq(C) /\ Len(Reverse(y)) = Len(y)
             /\ \A i \in 1 .. Len(y) : Reverse(y)[i] = y[(Len(y) - i) + 1]
  BY DEF Reverse
<1>3. PICK u \in Seq(C) : u = Reverse(s)
  BY <1>2
<1>4. PICK v \in Seq(C) : v = Reverse(t)
  BY <1>2
<1>5. IsSuffix(s, t) <=> Len(u) <= Len(v) /\ \A i \in 1 .. Len(u) : u[i] = v[i]
  <2>1. IsSuffix(s, t) <=> IsPrefix(u, v)
    BY <1>3, <1>4, Zenon DEF IsSuffix
  <2> QED
    BY <2>1, PrefixIs
<1>6. Len(u) = Len(s) /\ Len(v) = Len(t)
  BY <1>2, <1>3, <1>4
<1>7. /\ \A i \in 1 .. Len(s) : u[i] = s[(Len(s) - i) + 1]
      /\ \A i \in 1 .. Len(t) : v[i] = t[(Len(t) - i) + 1]
  BY <1>2, <1>3, <1>4
<1>8. ASSUME Len(s) <= Len(t), \A i \in 1 .. Len(s) : u[i] = v[i], NEW m \in 1 .. Len(s)
      PROVE  s[m] = t[Len(t) - Len(s) + m]
  <2>1. PICK i : i = (Len(s) - m) + 1
    OBVIOUS
  <2>2. /\ i \in 1 .. Len(s) /\ i \in 1 .. Len(t) /\ (Len(s) - i) + 1 = m
        /\ (Len(t) - i) + 1 = Len(t) - Len(s) + m
    BY <1>1, <1>8, <2>1
  <2> QED
    BY <1>7, <1>8, <2>2, Zenon
<1>9. ASSUME Len(s) <= Len(t), \A m \in 1 .. Len(s) : s[m] = t[Len(t) - Len(s) + m],
             NEW i \in 1 .. Len(s)
      PROVE  u[i] = v[i]
  <2>1. PICK m : m = (Len(s) - i) + 1
    OBVIOUS
  <2>2. m \in 1 .. Len(s) /\ i \in 1 .. Len(t) /\ (Len(t) - i) + 1 = Len(t) - Len(s) + m
    BY <1>1, <1>9, <2>1
  <2>3. u[i] = s[m] /\ v[i] = t[Len(t) - Len(s) + m]
    BY <1>7, <2>1, <2>2
  <2>4. s[m] = t[Len(t) - Len(s) + m]
    BY <1>9, <2>2
  <2> QED
    BY <2>3, <2>4
<1> QED
  BY <1>5, <1>6, <1>8, <1>9

-----------------------------------------------------------------------------
(* What a name of the pattern takes of the path.                            *)

(* The places are within the text.                                          *)
LEMMA WalkIn ==
  ASSUME NEW q, Len(q) \in Nat, NEW t, Len(t) \in Nat, NEW A, A \subseteq 1 .. Len(q) + 1,
         NEW T, Walk(q, t, A, T), NEW a \in A
  PROVE  T[a] \subseteq 1 .. Len(t) + 1
<1>1. a = Len(q) + 1 \/ a <= Len(q)
  OBVIOUS
<1>2. CASE a = Len(q) + 1
  <2>1. T[a] = {Len(t) + 1}
    BY <1>2, Zenon DEF Walk
  <2> QED
    BY <2>1
<1>3. CASE a <= Len(q)
  <2>1. T[a] = {j \in 1 .. Len(t) + 1 :
                  \E k \in T[After(q, a)] : Takes(TokenAt(q, a), t, j, k)}
    BY <1>3, Zenon DEF Walk
  <2> QED
    BY <2>1
<1> QED
  BY <1>1, <1>2, <1>3

(* One step of the walk.                                                    *)
StepOf(t, A, T, a, token) ==
  /\ a + Len(token) \in A /\ T[a + Len(token)] \subseteq 1 .. Len(t) + 1
  /\ \A j \in 1 .. Len(t) + 1 :
       j \in T[a] <=> \E k \in T[a + Len(token)] : Takes(token, t, j, k)

(* The token is known by the atoms that follow.                             *)
LEMMA WalkOn ==
  ASSUME NEW C, NEW q \in Seq(C), NEW t \in Seq(C), NEW A, A \subseteq 1 .. Len(q) + 1,
         NEW T, Walk(q, t, A, T), NEW a \in A, a <= Len(q),
         NEW token, TokenAt(q, a) = token
  PROVE  StepOf(t, A, T, a, token)
<1>1. a + Len(token) \in A
  BY Zenon DEF Walk, After
<1>2. T[a] = {j \in 1 .. Len(t) + 1 : \E k \in T[a + Len(token)] : Takes(token, t, j, k)}
  BY Zenon DEF Walk, After
<1>3. T[a + Len(token)] \subseteq 1 .. Len(t) + 1
  <2>1. Len(q) \in Nat /\ Len(t) \in Nat
    OBVIOUS
  <2> QED
    BY <1>1, <2>1, WalkIn
<1> QED
  BY <1>1, <1>2, <1>3 DEF StepOf

(* Atoms that are neither stars nor slashes stand for themselves.           *)
RunOf(q, t, T, a, n) ==
  \A j \in 1 .. Len(t) + 1 :
    j \in T[a] <=> j + n \in T[a + n] /\ \A m \in 0 .. n - 1 : t[j + m] = q[a + m]

(* They are tokens of their own, one after the other.                       *)
LEMMA PlainRun ==
  ASSUME NEW C, NEW q \in Seq(C), NEW t \in Seq(C), NEW A, A \subseteq 1 .. Len(q) + 1,
         NEW T, Walk(q, t, A, T), NEW a \in A, NEW L \in Nat, a + L <= Len(q) + 1,
         \A m \in 0 .. L - 1 : q[a + m] \notin {"*", "/"}
  PROVE  a + L \in A /\ RunOf(q, t, T, a, L)
<1> DEFINE S == {n \in Nat : n <= L => a + n \in A /\ RunOf(q, t, T, a, n)}
<1>1. Len(q) \in Nat /\ Len(t) \in Nat /\ a \in Nat
  OBVIOUS
<1>2. 0 \in S
  <2>1. a + 0 = a /\ \A j \in 1 .. Len(t) + 1 : j + 0 = j
    BY <1>1
  <2>2. \A j \in 1 .. Len(t) + 1 : \A m \in 0 .. 0 - 1 : t[j + m] = q[a + m]
    OBVIOUS
  <2>3. RunOf(q, t, T, a, 0)
    BY <2>1, <2>2 DEF RunOf
  <2> QED
    BY <2>1, <2>3
<1>3. ASSUME NEW n \in Nat, n \in S PROVE n + 1 \in S
  <2> SUFFICES ASSUME n + 1 <= L PROVE a + (n + 1) \in A /\ RunOf(q, t, T, a, n + 1)
    OBVIOUS
  <2>1. a + n \in A /\ RunOf(q, t, T, a, n)
    BY <1>3
  <2>2. a + n <= Len(q) /\ n \in 0 .. L - 1 /\ (a + n) + 1 = a + (n + 1)
    BY <1>1
  <2>3. PICK c : c = q[a + n]
    OBVIOUS
  <2>4. c \notin {"*", "/"}
    BY <2>2, <2>3
  <2>5. TokenAt(q, a + n) = <<c>>
    <3>1. a + n \in 1 .. Len(q)
      BY <1>1, <2>2
    <3> QED
      BY <2>3, <2>4, <3>1, TokenAtIs
  <2>6. Len(<<c>>) = 1
    OBVIOUS
  <2>7. /\ (a + n) + 1 \in A /\ T[(a + n) + 1] \subseteq 1 .. Len(t) + 1
        /\ \A j \in 1 .. Len(t) + 1 :
             j \in T[a + n] <=> \E k \in T[(a + n) + 1] : Takes(<<c>>, t, j, k)
    <3>1. /\ (a + n) + Len(<<c>>) \in A /\ T[(a + n) + Len(<<c>>)] \subseteq 1 .. Len(t) + 1
          /\ \A j \in 1 .. Len(t) + 1 :
               j \in T[a + n] <=> \E k \in T[(a + n) + Len(<<c>>)] : Takes(<<c>>, t, j, k)
      <4>1. PICK b \in A : b = a + n
        BY <2>1
      <4>2. b <= Len(q) /\ TokenAt(q, b) = <<c>>
        BY <2>2, <2>5, <4>1
      <4>3. StepOf(t, A, T, b, <<c>>)
        BY <4>2, WalkOn
      <4> QED
        BY <4>1, <4>3, Zenon DEF StepOf
    <3> QED
      BY <2>6, <3>1
  <2>8. ASSUME NEW j \in 1 .. Len(t) + 1
        PROVE  j \in T[a + n] <=> j + 1 \in T[(a + n) + 1] /\ t[j] = c
    <3>1. \A k \in T[(a + n) + 1] : Takes(<<c>>, t, j, k) <=> k = j + 1 /\ t[j] = c
      <4>1. \A k \in 1 .. Len(t) + 1 : Takes(<<c>>, t, j, k) <=> k = j + 1 /\ t[j] = c
        BY <2>4, TakesIs
      <4> QED
        BY <2>7, <4>1
    <3> QED
      BY <2>7, <3>1
  <2>9. T[a + n] \subseteq 1 .. Len(t) + 1
    BY <1>1, <2>1, WalkIn
  <2>10. ASSUME NEW j \in 1 .. Len(t) + 1
         PROVE  j \in T[a] <=> j + (n + 1) \in T[a + (n + 1)]
                                 /\ \A m \in 0 .. (n + 1) - 1 : t[j + m] = q[a + m]
    <3>1. j \in T[a] <=> j + n \in T[a + n] /\ \A m \in 0 .. n - 1 : t[j + m] = q[a + m]
      BY <2>1 DEF RunOf
    <3>2. (j + n) + 1 = j + (n + 1) /\ \A m \in 0 .. (n + 1) - 1 : m \in 0 .. n - 1 \/ m = n
      OBVIOUS
    <3>3. n \in 0 .. (n + 1) - 1 /\ \A m \in 0 .. n - 1 : m \in 0 .. (n + 1) - 1
      OBVIOUS
    <3>4. j + n \in T[a + n] <=> (j + n) + 1 \in T[(a + n) + 1] /\ t[j + n] = c
      <4>1. CASE j + n \in 1 .. Len(t) + 1
        BY <2>8, <4>1
      <4>2. CASE ~(j + n \in 1 .. Len(t) + 1)
        <5>1. (j + n) + 1 \notin 1 .. Len(t) + 1
          BY <1>1, <4>2
        <5> QED
          BY <2>7, <2>9, <4>2, <5>1
      <4> QED
        BY <4>1, <4>2
    <3> QED
      BY <2>2, <2>3, <3>1, <3>2, <3>3, <3>4
  <2> QED
    BY <2>2, <2>7, <2>10 DEF RunOf
<1>4. L \in S
  <2> HIDE DEF S
  <2> QED
    BY <1>2, <1>3, NatSetInduction
<1> QED
  BY <1>4

PlainName(w) == \A m \in 1 .. Len(w) : w[m] \notin {"*", "/"}
StarName(w) == Len(w) >= 1 /\ w[1] = "*" /\ \A m \in 2 .. Len(w) : w[m] \notin {"*", "/"}

(* A name stands between its place and the stop behind it.                  *)
Stands(C, s, x, st, k) ==
  /\ s[k] \in Seq(C) /\ Len(s[k]) \in Nat /\ st[k] \in Nat /\ st[k] >= 1
  /\ st[k + 1] - 1 = st[k] + Len(s[k]) /\ st[k + 1] - 2 = st[k] + Len(s[k]) - 1
  /\ st[k] + Len(s[k]) <= Len(x) + 1 /\ st[k] \in 1 .. Len(x) + 1
  /\ \A m \in 1 .. Len(s[k]) : x[st[k] + m - 1] = s[k][m]

(* Every name does.                                                         *)
LEMMA NameAt ==
  ASSUME NEW C, NEW s \in Seq(Seq(C)), NEW x \in Seq(C), NEW st, Laid(s, x, st),
         NEW k \in 1 .. Len(s)
  PROVE  Stands(C, s, x, st, k)
<1>1. /\ Len(s) \in Nat /\ st[1] = 1
      /\ \A n \in 1 .. Len(s) + 1 : st[n] \in Nat /\ st[n] >= 1
      /\ \A n \in 1 .. Len(s) : s[n] \in Seq(C) /\ Len(s[n]) \in Nat
      /\ \A n \in 1 .. Len(s) : st[n + 1] = st[n] + Len(s[n]) + 1
  <2>1. Spaced(s, st)
    BY Zenon DEF Laid
  <2>2. Numbers(C, s, st)
    BY <2>1, SpacedAre
  <2> QED
    BY <2>2, Zenon DEF Numbers
<1>2. k \in 1 .. Len(s) + 1 /\ k + 1 \in 1 .. Len(s) + 1 /\ Len(s) \in 1 .. Len(s)
      /\ Len(s) + 1 \in k + 1 .. Len(s) + 1
  BY <1>1
<1>3. /\ s[k] \in Seq(C) /\ Len(s[k]) \in Nat /\ st[k] \in Nat /\ st[k] >= 1
      /\ st[k + 1] \in Nat /\ st[k + 1] = st[k] + Len(s[k]) + 1
  BY <1>1, <1>2, Zenon
<1>4. Len(x) + 2 = st[Len(s) + 1] /\ Len(x) \in Nat
  <2>1. Len(x) + 2 = st[Len(s) + 1]
    BY Zenon DEF Laid, Filled
  <2> QED
    BY <2>1
<1>5. st[k] + Len(s[k]) + 1 <= st[Len(s) + 1]
  <2>1. Spaced(s, st)
    BY Zenon DEF Laid
  <2> QED
    BY <1>2, <2>1, PlacesUp
<1>6. \A m \in 1 .. Len(s[k]) : x[st[k] + m - 1] = s[k][m]
  BY Zenon DEF Laid, Filled
<1>7. PICK u, l, v, b : u = st[k] /\ l = Len(s[k]) /\ v = st[k + 1] /\ b = Len(x)
  OBVIOUS
<1>8. /\ u \in Nat /\ u >= 1 /\ l \in Nat /\ v \in Nat /\ b \in Nat
      /\ v = u + l + 1 /\ u + l + 1 <= b + 2
  BY <1>3, <1>4, <1>5, <1>7, Zenon
<1>9. v - 1 = u + l /\ v - 2 = u + l - 1 /\ u + l <= b + 1 /\ u \in 1 .. b + 1
  BY <1>8
<1> QED
  BY <1>3, <1>6, <1>7, <1>9, Zenon DEF Stands

(* No slash between two places.                                             *)
Clear(x, u, j) == u <= j /\ \A i \in u .. j - 1 : x[i] # "/"

(* What * takes: all without a slash.                                       *)
StarTakes(t, R, u) ==
  (\E j \in R : Takes(<<"*">>, t, u, j)) <=> \E j \in R : Clear(t, u, j)

(* By what TakesIs says of *.                                               *)
LEMMA StarClear ==
  ASSUME NEW C, NEW t \in Seq(C), NEW R, R \subseteq 1 .. Len(t) + 1,
         NEW u \in 1 .. Len(t) + 1
  PROVE  StarTakes(t, R, u)
<1>1. \A j \in 1 .. Len(t) + 1 : Takes(<<"*">>, t, u, j) <=> Clear(t, u, j)
  BY TakesIs DEF Clear
<1>2. \A j \in R : j \in 1 .. Len(t) + 1
  OBVIOUS
<1> QED
  BY <1>1, <1>2, Zenon DEF StarTakes

(* Atoms that are reached from the place of a name without a slash.         *)
FoundAt(x, st, w, k, j) ==
  /\ Clear(x, st[k], j)
  /\ \A m \in 0 .. Len(w) - 1 : x[j + m] = w[m + 1]

(* They end where the name does; or at such a place they are found.         *)
EndsSo(s, st, w, k, j) ==
  j + Len(w) = st[k + 1] - 1 /\ IsSuffix(w, s[k]) /\ (j = st[k] => s[k] = w)
EndFound(x, st, w, k) ==
  \E j \in 1 .. Len(x) + 1 : FoundAt(x, st, w, k, j) /\ j + Len(w) = st[k + 1] - 1

(* Atoms that stand before a stop and are reached from the place of a name  *)
(* without a slash are the end of that name.                                *)
LEMMA EndOfName ==
  ASSUME NEW C, NEW s \in Seq(Seq(C)), NEW x \in Seq(C), NEW st, Laid(s, x, st), Whole(s),
         NEW w \in Seq(C), PlainName(w), NEW k \in 1 .. Len(s), NEW j \in Nat,
         FoundAt(x, st, w, k, j), j + Len(w) \in Stops(s, st)
  PROVE  EndsSo(s, st, w, k, j)
<1>1. Stands(C, s, x, st, k)
  BY NameAt
<1>2. PICK name \in Seq(C), u \in Nat : name = s[k] /\ u = st[k] /\ u >= 1
  BY <1>1, Zenon DEF Stands
<1>3. PICK l \in Nat, n \in Nat : l = Len(w) /\ n = Len(name)
  OBVIOUS
<1>4. st[k + 1] - 1 = u + n /\ \A m \in 1 .. n : x[u + m - 1] = name[m]
  BY <1>1, <1>2, <1>3, Zenon DEF Stands
<1>a. /\ st[k] <= j /\ \A i \in st[k] .. j - 1 : x[i] # "/"
      /\ \A m \in 0 .. Len(w) - 1 : x[j + m] = w[m + 1]
  BY Zenon DEF FoundAt, Clear
<1>5. ASSUME NEW i \in u .. (j + l) - 1 PROVE x[i] # "/"
  <2>1. CASE i <= j - 1
    BY <1>a, <1>2, <2>1
  <2>2. CASE ~(i <= j - 1)
    <3>1. i - j \in 0 .. l - 1 /\ j + (i - j) = i /\ (i - j) + 1 \in 1 .. l
      BY <1>2, <2>2
    <3>2. x[i] = w[(i - j) + 1]
      BY <1>a, <1>3, <3>1
    <3> QED
      BY <1>3, <3>1, <3>2 DEF PlainName
  <2> QED
    BY <2>1, <2>2
<1>6. j + l = st[k + 1] - 1
  <2>1. PICK e \in Stops(s, st) : e = j + l
    BY <1>3
  <2>2. st[k] <= e /\ \A i \in st[k] .. e - 1 : x[i] # "/"
    BY <1>a, <1>2, <1>5, <2>1
  <2> QED
    BY <2>1, <2>2, StopIs
<1>7. j + l = u + n /\ u <= j /\ l <= n
  <2>1. j + l = u + n
    BY <1>4, <1>6
  <2> QED
    BY <1>a, <1>2, <2>1
<1>8. ASSUME NEW m \in 1 .. l PROVE w[m] = name[n - l + m]
  <2>1. /\ m - 1 \in 0 .. l - 1 /\ (m - 1) + 1 = m /\ n - l + m \in 1 .. n
        /\ u + (n - l + m) - 1 = j + (m - 1)
    BY <1>7
  <2>2. x[j + (m - 1)] = w[(m - 1) + 1]
    BY <1>a, <1>3, <2>1
  <2>3. x[u + (n - l + m) - 1] = name[n - l + m]
    BY <1>4, <2>1, Zenon
  <2> QED
    BY <2>1, <2>2, <2>3, Zenon
<1>9. IsSuffix(w, name)
  BY <1>3, <1>7, <1>8, SuffixIs
<1>10. ASSUME j = u PROVE name = w
  <2>1. l = n /\ \A m \in 1 .. l : n - l + m = m
    BY <1>7, <1>10
  <2>2. \A m \in 1 .. l : w[m] = name[m]
    BY <1>8, <2>1
  <2> QED
    BY <1>3, <2>1, <2>2, SeqEqual
<1> QED
  BY <1>2, <1>3, <1>6, <1>9, <1>10, Zenon DEF EndsSo

(* And the end of a name stands so.                                         *)
LEMMA NameEnds ==
  ASSUME NEW C, NEW s \in Seq(Seq(C)), NEW x \in Seq(C), NEW st, Laid(s, x, st), Whole(s),
         NEW w \in Seq(C), NEW k \in 1 .. Len(s), IsSuffix(w, s[k])
  PROVE  EndFound(x, st, w, k)
<1>1. Stands(C, s, x, st, k)
  BY NameAt
<1>2. PICK name \in Seq(C), u \in Nat : name = s[k] /\ u = st[k] /\ u >= 1
  BY <1>1, Zenon DEF Stands
<1>3. PICK l \in Nat, n \in Nat, b \in Nat : l = Len(w) /\ n = Len(name) /\ b = Len(x)
  OBVIOUS
<1>4. /\ st[k + 1] - 1 = u + n /\ st[k + 1] - 2 = u + n - 1 /\ u + n <= b + 1
      /\ \A m \in 1 .. n : x[u + m - 1] = name[m]
  BY <1>1, <1>2, <1>3, Zenon DEF Stands
<1>5. l <= n /\ \A m \in 1 .. l : w[m] = name[n - l + m]
  BY <1>2, <1>3, SuffixIs
<1>6. PICK j \in 1 .. b + 1 : j = u + n - l /\ u <= j /\ j + l = u + n
  <2>1. /\ u + n - l \in 1 .. b + 1 /\ u <= u + n - l /\ (u + n - l) + l = u + n
    <3>1. u >= 1 /\ l <= n /\ u + n <= b + 1
      BY <1>2, <1>4, <1>5, Zenon
    <3> QED
      BY <3>1
  <2> QED
    BY <2>1
<1>7. ASSUME NEW i \in u .. j - 1 PROVE x[i] # "/"
  <2>1. i \in u .. u + n - 1
    BY <1>6
  <2>2. \A h \in st[k] .. st[k + 1] - 2 : x[h] # "/"
    BY NoSlash
  <2> QED
    BY <1>2, <1>4, <2>1, <2>2, Zenon
<1>8. ASSUME NEW m \in 0 .. l - 1 PROVE x[j + m] = w[m + 1]
  <2>1. /\ m + 1 \in 1 .. l /\ n - l + (m + 1) \in 1 .. n
        /\ u + (n - l + (m + 1)) - 1 = j + m
    BY <1>5, <1>6
  <2>2. w[m + 1] = name[n - l + (m + 1)]
    BY <1>5, <2>1
  <2>3. x[u + (n - l + (m + 1)) - 1] = name[n - l + (m + 1)]
    BY <1>4, <2>1, Zenon
  <2> QED
    BY <2>1, <2>2, <2>3, Zenon
<1>10. /\ st[k] <= j /\ j + Len(w) = st[k + 1] - 1
       /\ \A i \in st[k] .. j - 1 : x[i] # "/"
       /\ \A m \in 0 .. Len(w) - 1 : x[j + m] = w[m + 1]
  BY <1>2, <1>3, <1>4, <1>6, <1>7, <1>8, Zenon
<1>11. FoundAt(x, st, w, k, j)
  BY <1>10, Zenon DEF FoundAt, Clear
<1> QED
  BY <1>3, <1>10, <1>11, Zenon DEF EndFound

(* What the tokens of a name take from the place of a name: all of that     *)
(* name, if it fits.                                                        *)
NameTakenOf(p, s, ps, st, A, T, n) ==
  /\ ps[n + 1] - 1 \in A
  /\ T[ps[n + 1] - 1] \subseteq Stops(s, st) =>
       \A k \in 1 .. Len(s) :
         st[k] \in T[ps[n]] <=> st[k + 1] - 1 \in T[ps[n + 1] - 1] /\ FitsName(p[n], s[k])

(* A plain name takes itself.                                               *)
LEMMA PlainTaken ==
  ASSUME NEW C, NEW p \in Seq(Seq(C)), NEW q \in Seq(C), NEW ps, Laid(p, q, ps),
         NEW s \in Seq(Seq(C)), NEW t \in Seq(C), NEW st, Laid(s, t, st), Whole(s),
         NEW A, A \subseteq 1 .. Len(q) + 1, NEW T, Walk(q, t, A, T),
         NEW n \in 1 .. Len(p), PlainName(p[n]), ps[n] \in A
  PROVE  NameTakenOf(p, s, ps, st, A, T, n)
<1>1. Stands(C, p, q, ps, n)
  BY NameAt
<1>2. PICK w \in Seq(C) : w = p[n]
  BY <1>1, Zenon DEF Stands
<1>3. PICK a \in A : a = ps[n]
  OBVIOUS
<1>4. PICK l \in Nat : l = Len(w)
  OBVIOUS
<1>5. /\ a \in Nat /\ a >= 1 /\ ps[n + 1] - 1 = a + l /\ a + l <= Len(q) + 1
      /\ \A m \in 1 .. l : q[a + m - 1] = w[m]
  BY <1>1, <1>2, <1>3, <1>4, Zenon DEF Stands
<1>6. \A m \in 0 .. l - 1 : q[a + m] = w[m + 1] /\ m + 1 \in 1 .. l
  <2> TAKE m \in 0 .. l - 1
  <2>1. m + 1 \in 1 .. l /\ a + (m + 1) - 1 = a + m
    BY <1>5
  <2> QED
    BY <1>5, <2>1, Zenon
<1>7. \A m \in 0 .. l - 1 : q[a + m] \notin {"*", "/"}
  BY <1>2, <1>4, <1>6 DEF PlainName
<1>8. a + l \in A /\ RunOf(q, t, T, a, l)
  BY <1>5, <1>7, PlainRun
<1>9. ASSUME T[a + l] \subseteq Stops(s, st), NEW k \in 1 .. Len(s)
      PROVE  st[k] \in T[a] <=> st[k + 1] - 1 \in T[a + l] /\ FitsName(w, s[k])
  <2>1. Stands(C, s, t, st, k)
    BY NameAt
  <2>2. PICK name \in Seq(C), u \in Nat, h \in Nat :
          name = s[k] /\ u = st[k] /\ u >= 1 /\ h = Len(name)
    BY <2>1, Zenon DEF Stands
  <2>3. /\ st[k + 1] - 1 = u + h /\ u + h <= Len(t) + 1
        /\ \A m \in 1 .. h : t[u + m - 1] = name[m]
    BY <2>1, <2>2, Zenon DEF Stands
  <2>4. u \in 1 .. Len(t) + 1
    BY <2>1, <2>2, Zenon DEF Stands
  <2>5. FitsName(w, name) <=> w = name
    <3>1. w # <<>> => Head(w) # "*"
      <4> SUFFICES ASSUME w # <<>> PROVE Head(w) # "*"
        OBVIOUS
      <4>1. 1 \in 1 .. Len(w) /\ Head(w) = w[1]
        OBVIOUS
      <4> QED
        BY <1>2, <4>1 DEF PlainName
    <3> QED
      BY <3>1, Zenon DEF FitsName
  <2>6. u \in T[a] <=> u + l \in T[a + l] /\ \A m \in 0 .. l - 1 : t[u + m] = q[a + m]
    BY <1>8, <2>4, Zenon DEF RunOf
  <2>7. ASSUME u \in T[a] PROVE u + h \in T[a + l] /\ w = name
    <3>1. u + l \in Stops(s, st) /\ u + l \in T[a + l]
      BY <1>9, <2>6, <2>7
    <3>2. \A m \in 0 .. Len(w) - 1 : t[u + m] = w[m + 1]
      BY <1>4, <1>6, <2>6, <2>7
    <3>3. FoundAt(t, st, w, k, u)
      <4>1. \A z \in Nat : z <= z /\ \A i \in z .. z - 1 : FALSE
        OBVIOUS
      <4> QED
        BY <2>2, <3>2, <4>1, Zenon DEF FoundAt, Clear
    <3>4. EndsSo(s, st, w, k, u)
      <4>1. PlainName(w) /\ u + Len(w) \in Stops(s, st)
        BY <1>2, <1>4, <3>1
      <4> QED
        BY <3>3, <4>1, EndOfName
    <3> QED
      <4>1. u + l = st[k + 1] - 1 /\ name = w
        BY <1>4, <2>2, <3>4, Zenon DEF EndsSo
      <4> QED
        BY <2>3, <3>1, <4>1, Zenon
  <2>8. ASSUME u + h \in T[a + l], w = name PROVE u \in T[a]
    <3>1. l = h
      BY <1>4, <2>2, <2>8
    <3>2. \A m \in 0 .. l - 1 : t[u + m] = q[a + m]
      <4> TAKE m \in 0 .. l - 1
      <4>1. m + 1 \in 1 .. h /\ u + (m + 1) - 1 = u + m
        BY <3>1
      <4> QED
        BY <1>6, <2>3, <2>8, <4>1, Zenon
    <3> QED
      BY <2>6, <2>8, <3>1, <3>2
  <2> QED
    BY <2>2, <2>3, <2>5, <2>7, <2>8, Zenon
<1> QED
  BY <1>2, <1>3, <1>5, <1>8, <1>9, Zenon DEF NameTakenOf

(* A name with a star takes what ends in the rest of it.                    *)
LEMMA StarTaken ==
  ASSUME NEW C, NEW p \in Seq(Seq(C)), NEW q \in Seq(C), NEW ps, Laid(p, q, ps),
         NEW s \in Seq(Seq(C)), NEW t \in Seq(C), NEW st, Laid(s, t, st), Whole(s),
         NEW A, A \subseteq 1 .. Len(q) + 1, NEW T, Walk(q, t, A, T),
         NEW n \in 1 .. Len(p), StarName(p[n]), ps[n] \in A
  PROVE  NameTakenOf(p, s, ps, st, A, T, n)
<1>1. Stands(C, p, q, ps, n)
  BY NameAt
<1>2. PICK v \in Seq(C) : v = p[n]
  BY <1>1, Zenon DEF Stands
<1>3. Len(v) >= 1 /\ v[1] = "*" /\ (\A m \in 2 .. Len(v) : v[m] \notin {"*", "/"}) /\ v # <<>>
  BY <1>2 DEF StarName
<1>4. PICK w \in Seq(C) : /\ w = Tail(v) /\ Len(v) = Len(w) + 1
                          /\ \A m \in 1 .. Len(w) : w[m] = v[m + 1]
  <2>1. /\ Tail(v) \in Seq(C) /\ Len(Tail(v)) = Len(v) - 1
        /\ \A m \in 1 .. Len(v) - 1 : Tail(v)[m] = v[m + 1]
    BY <1>3
  <2>2. Len(v) = (Len(v) - 1) + 1
    BY <1>3
  <2> QED
    BY <2>1, <2>2, Zenon
<1>5. PICK l \in Nat : l = Len(w)
  OBVIOUS
<1>6. PlainName(w)
  <2>1. \A m \in 1 .. Len(w) : m + 1 \in 2 .. Len(v)
    BY <1>4, <1>5
  <2> QED
    BY <1>3, <1>4, <2>1 DEF PlainName
<1>7. PICK a \in A : a = ps[n]
  OBVIOUS
<1>8. /\ a \in Nat /\ a >= 1 /\ ps[n + 1] - 1 = a + Len(v) /\ a + Len(v) <= Len(q) + 1
      /\ \A m \in 1 .. Len(v) : q[a + m - 1] = v[m]
  BY <1>1, <1>2, <1>7, Zenon DEF Stands
<1>9. /\ ps[n + 1] - 1 = (a + 1) + l /\ (a + 1) + l <= Len(q) + 1 /\ a \in 1 .. Len(q)
  <2>1. PICK b \in Nat, c \in Nat : b = Len(q) /\ c = a /\ c >= 1 /\ Len(v) = l + 1
    BY <1>4, <1>5, <1>8
  <2>2. c + (l + 1) = (c + 1) + l /\ (c + (l + 1) <= b + 1 => c \in 1 .. b)
    BY <2>1
  <2> QED
    BY <1>8, <2>1, <2>2, Zenon
<1>10. q[a] = "*"
  <2>1. 1 \in 1 .. Len(v) /\ a + 1 - 1 = a
    BY <1>3, <1>8
  <2> QED
    BY <1>3, <1>8, <2>1
<1>11. \A m \in 0 .. l - 1 : q[(a + 1) + m] = w[m + 1] /\ m + 1 \in 1 .. l
  <2> TAKE m \in 0 .. l - 1
  <2>1. m + 1 \in 1 .. l /\ m + 2 \in 1 .. Len(v) /\ a + (m + 2) - 1 = (a + 1) + m
        /\ (m + 1) + 1 = m + 2
    BY <1>4, <1>5, <1>8
  <2>2. q[a + (m + 2) - 1] = v[m + 2]
    BY <1>8, <2>1, Zenon
  <2>3. w[m + 1] = v[(m + 1) + 1]
    BY <1>4, <1>5, <2>1
  <2> QED
    BY <2>1, <2>2, <2>3, Zenon
<1>12. \A m \in 0 .. l - 1 : q[(a + 1) + m] \notin {"*", "/"}
  BY <1>5, <1>6, <1>11 DEF PlainName
<1>13. ~(Twice(q, a) /\ Slash(q, a + 2))
  <2> SUFFICES ASSUME Twice(q, a), Slash(q, a + 2) PROVE FALSE
    OBVIOUS
  <2>1. a + 1 <= Len(q) /\ q[a + 1] = "*"
    BY DEF Twice
  <2>2. CASE l = 0
    <3>1. n # Len(p)
      <4> SUFFICES ASSUME n = Len(p) PROVE FALSE
        OBVIOUS
      <4>1. Len(q) + 2 = ps[n + 1]
        BY Zenon DEF Laid, Filled
      <4> QED
        BY <1>9, <2>1, <2>2, <4>1
    <3>2. n + 1 \in 1 .. Len(p) /\ n + 1 > 1
      BY <3>1
    <3>3. q[ps[n + 1] - 1] = "/"
      BY <3>2, Zenon DEF Laid, Filled
    <3>4. (a + 1) + l = a + 1
      BY <1>8, <2>2
    <3> QED
      BY <1>9, <2>1, <3>3, <3>4
  <2>3. CASE l # 0
    <3>1. 0 \in 0 .. l - 1 /\ (a + 1) + 0 = a + 1
      BY <1>8, <2>3
    <3> QED
      BY <1>12, <2>1, <3>1
  <2> QED
    BY <2>2, <2>3
<1>14. TokenAt(q, a) = <<"*">>
  BY <1>9, <1>10, <1>13, TokenAtIs
<1>15. StepOf(t, A, T, a, <<"*">>)
  <2>1. a <= Len(q)
    BY <1>9
  <2> QED
    BY <1>14, <2>1, WalkOn
<1>16. /\ a + 1 \in A /\ T[a + 1] \subseteq 1 .. Len(t) + 1
       /\ \A j \in 1 .. Len(t) + 1 : j \in T[a] <=> \E k \in T[a + 1] : Takes(<<"*">>, t, j, k)
  <2>1. Len(<<"*">>) = 1
    OBVIOUS
  <2> QED
    BY <1>15, <2>1, Zenon DEF StepOf
<1>17. PICK b \in A : b = a + 1
  BY <1>16
<1>22. T[b] \subseteq 1 .. Len(t) + 1
  BY <1>16, <1>17, Zenon
<1>18. b + l \in A /\ RunOf(q, t, T, b, l)
  BY <1>9, <1>12, <1>17, PlainRun
<1>19. ASSUME T[b + l] \subseteq Stops(s, st), NEW k \in 1 .. Len(s)
      PROVE  st[k] \in T[a] <=> st[k + 1] - 1 \in T[b + l] /\ IsSuffix(w, s[k])
  <2>1. Stands(C, s, t, st, k)
    BY NameAt
  <2>2. PICK u \in Nat : u = st[k]
    BY <2>1, Zenon DEF Stands
  <2>3. u \in 1 .. Len(t) + 1
    BY <2>1, <2>2, Zenon DEF Stands
  <2>4. u \in T[a] <=> \E j \in T[b] : Clear(t, u, j)
    <3>1. StarTakes(t, T[b], u)
      BY <1>22, <2>3, StarClear
    <3>2. u \in T[a] <=> \E j \in T[b] : Takes(<<"*">>, t, u, j)
      BY <1>16, <1>17, <2>3, Zenon
    <3> QED
      BY <3>1, <3>2, Zenon DEF StarTakes
  <2>5. \A j \in 1 .. Len(t) + 1 :
          j \in T[b] <=> j + l \in T[b + l] /\ \A m \in 0 .. l - 1 : t[j + m] = q[b + m]
    BY <1>18, Zenon DEF RunOf
  <2>6. ASSUME NEW j \in T[b], Clear(t, u, j)
        PROVE  st[k + 1] - 1 \in T[b + l] /\ IsSuffix(w, s[k])
    <3>1. j \in 1 .. Len(t) + 1
      BY <1>22, Zenon
    <3>a. j \in Nat
      BY <3>1
    <3>2. j + l \in T[b + l] /\ \A m \in 0 .. l - 1 : t[j + m] = q[b + m]
      BY <2>5, <3>1, Zenon
    <3>3. j + Len(w) \in Stops(s, st)
      BY <1>5, <1>19, <3>2, Zenon
    <3>4. \A m \in 0 .. Len(w) - 1 : t[j + m] = w[m + 1]
      BY <1>5, <1>11, <1>17, <3>2, Zenon
    <3>5. FoundAt(t, st, w, k, j)
      BY <2>2, <2>6, <3>4, Zenon DEF FoundAt
    <3>6. EndsSo(s, st, w, k, j)
      BY <1>6, <3>a, <3>3, <3>5, EndOfName, Zenon
    <3> QED
      BY <1>5, <3>2, <3>6, Zenon DEF EndsSo
  <2>7. ASSUME st[k + 1] - 1 \in T[b + l], IsSuffix(w, s[k])
        PROVE  \E j \in T[b] : Clear(t, u, j)
    <3>1. EndFound(t, st, w, k)
      BY <2>7, NameEnds, Zenon
    <3>2. PICK j \in 1 .. Len(t) + 1 :
           FoundAt(t, st, w, k, j) /\ j + Len(w) = st[k + 1] - 1
      BY <3>1, Zenon DEF EndFound
    <3>3. Clear(t, u, j) /\ \A m \in 0 .. Len(w) - 1 : t[j + m] = w[m + 1]
      BY <2>2, <3>2, Zenon DEF FoundAt
    <3>4. \A m \in 0 .. l - 1 : t[j + m] = q[b + m]
      BY <1>5, <1>11, <1>17, <3>3, Zenon
    <3>5. j + l \in T[b + l]
      BY <1>5, <2>7, <3>2, Zenon
    <3>6. j \in T[b]
      BY <2>5, <3>4, <3>5, Zenon
    <3> QED
      BY <3>3, <3>6, Zenon
  <2> QED
    BY <2>2, <2>4, <2>6, <2>7, Zenon
<1>20. \A k \in 1 .. Len(s) : FitsName(v, s[k]) <=> IsSuffix(w, s[k])
  <2>1. Head(v) = "*"
    BY <1>3
  <2> QED
    BY <1>3, <1>4, <2>1, Zenon DEF FitsName
<1>21. ps[n + 1] - 1 = b + l
  BY <1>9, <1>17
<1> QED
  BY <1>2, <1>7, <1>18, <1>19, <1>20, <1>21, Zenon DEF NameTakenOf

-----------------------------------------------------------------------------
(* A pattern and a path, laid out, with the walk of the match and the rows  *)
(* of the names that fit.                                                   *)
Stars == <<"*", "*">>
Setting(C, p, q, ps, s, t, st, A, T, F) ==
  /\ p \in Seq(Seq(C)) /\ q \in Seq(C) /\ Laid(p, q, ps)
  /\ s \in Seq(Seq(C)) /\ t \in Seq(C) /\ Laid(s, t, st)
  /\ s # <<>> /\ Whole(s)
  /\ p # <<>> /\ p # <<Stars>>
  /\ \A n \in 1 .. Len(p) : p[n] = Stars \/ PlainName(p[n]) \/ StarName(p[n])
  /\ A \subseteq 1 .. Len(q) + 1 /\ Walk(q, t, A, T)
  /\ FitRows(p, s, F)

(* The names from which the pattern from its n-th name on matches, and the  *)
(* same for the stops before the names. ** at the end means * to the tokens *)
(* if no slash is read with it.                                             *)
Fitted(p, s, F, n, k) ==
  IF n = Len(p) /\ p[n] = Stars THEN k = Len(s) ELSE k \in F[n]
AtName(p, ps, s, st, A, T, F, n) ==
  ps[n] \in A => \A k \in 1 .. Len(s) : st[k] \in T[ps[n]] <=> Fitted(p, s, F, n, k)
AtStop(ps, s, st, A, T, F, n) ==
  ps[n] - 1 \in A =>
    T[ps[n] - 1] = {st[k] - 1 : k \in {m \in 2 .. Len(s) + 1 : m \in F[n]}}

(* The order of the places is that of the names.                            *)
Ordered(s, st) ==
  /\ \A i, j \in 1 .. Len(s) + 1 : st[i] <= st[j] <=> i <= j
  /\ \A i, j \in 1 .. Len(s) + 1 : st[i] - 1 = st[j] - 1 <=> i = j

(* It follows from PlacesUp.                                                *)
LEMMA PlacesOrdered ==
  ASSUME NEW C, NEW s \in Seq(Seq(C)), NEW st, Spaced(s, st)
  PROVE  Ordered(s, st)
<1>1. /\ Len(s) \in Nat /\ \A k \in 1 .. Len(s) + 1 : st[k] \in Nat /\ st[k] >= 1
      /\ \A k \in 1 .. Len(s) : s[k] \in Seq(C) /\ Len(s[k]) \in Nat
  <2>1. Numbers(C, s, st)
    BY SpacedAre
  <2> QED
    BY <2>1, Zenon DEF Numbers
<1>2. ASSUME NEW i \in 1 .. Len(s) + 1, NEW j \in 1 .. Len(s) + 1, i < j
      PROVE  st[i] < st[j]
  <2>1. i \in 1 .. Len(s) /\ j \in i + 1 .. Len(s) + 1
    BY <1>1, <1>2
  <2>2. st[i] + Len(s[i]) + 1 <= st[j]
    BY <2>1, PlacesUp
  <2>3. \A u, l, v \in Nat : u + l + 1 <= v => u < v
    OBVIOUS
  <2> QED
    BY <1>1, <2>1, <2>2, <2>3, Zenon
<1>3. ASSUME NEW i \in 1 .. Len(s) + 1, NEW j \in 1 .. Len(s) + 1
      PROVE  (st[i] <= st[j] <=> i <= j) /\ (st[i] - 1 = st[j] - 1 <=> i = j)
  <2>1. PICK u \in Nat, v \in Nat : u = st[i] /\ v = st[j]
    BY <1>1
  <2>2. (i < j => u < v) /\ (j < i => v < u) /\ (i = j => u = v)
    BY <1>2, <2>1, Zenon
  <2>3. (u <= v <=> i <= j) /\ (u - 1 = v - 1 <=> i = j)
    BY <1>1, <2>2
  <2> QED
    BY <2>1, <2>3, Zenon
<1> QED
  BY <1>3, Zenon DEF Ordered

(* A path laid out: its slashes and the places of its names.                *)
PathLaid(s, t, st) ==
  /\ Len(s) \in Nat /\ Len(s) >= 1 /\ Len(t) \in Nat /\ Ordered(s, st)
  /\ \A k \in 1 .. Len(s) + 1 : st[k] \in Nat /\ st[k] >= 1
  /\ \A k \in 1 .. Len(s) : st[k] \in 1 .. Len(t) + 1
  /\ \A k \in 2 .. Len(s) : st[k] - 1 \in 1 .. Len(t) /\ t[st[k] - 1] = "/"
  /\ st[1] = 1 /\ st[Len(s) + 1] = Len(t) + 2 /\ st[Len(s) + 1] - 1 = Len(t) + 1
  /\ \A j \in 1 .. Len(t) : t[j] = "/" => \E k \in 2 .. Len(s) : j = st[k] - 1

(* So is every path that is laid out.                                       *)
LEMMA PathPlaces ==
  ASSUME NEW C, NEW s \in Seq(Seq(C)), NEW t \in Seq(C), NEW st, Laid(s, t, st),
         s # <<>>, Whole(s)
  PROVE  PathLaid(s, t, st)
<1>1. Len(s) \in Nat /\ Len(s) >= 1 /\ Len(t) \in Nat
  OBVIOUS
<1>2. /\ st[1] = 1
      /\ \A k \in 1 .. Len(s) + 1 : st[k] \in Nat /\ st[k] >= 1
      /\ Ordered(s, st)
  <2>1. Spaced(s, st)
    BY Zenon DEF Laid
  <2>2. Numbers(C, s, st) /\ Ordered(s, st)
    BY <2>1, SpacedAre, PlacesOrdered
  <2> QED
    BY <2>2, Zenon DEF Numbers
<1>3. st[Len(s) + 1] = Len(t) + 2 /\ st[Len(s) + 1] - 1 = Len(t) + 1
  <2>1. Len(t) + 2 = st[Len(s) + 1]
    BY Zenon DEF Laid, Filled
  <2> QED
    BY <1>1, <2>1
<1>4. \A k \in 1 .. Len(s) : st[k] \in 1 .. Len(t) + 1
  BY NameAt, Zenon DEF Stands
<1>5. ASSUME NEW k \in 2 .. Len(s) PROVE st[k] - 1 \in 1 .. Len(t) /\ t[st[k] - 1] = "/"
  <2>1. k \in 1 .. Len(s) /\ k \in 1 .. Len(s) + 1 /\ 1 \in 1 .. Len(s) + 1 /\ ~(k <= 1)
    BY <1>1
  <2>2. ~(st[k] <= 1)
    BY <1>2, <2>1, Zenon DEF Ordered
  <2>3. st[k] - 1 \in 1 .. Len(t)
    BY <1>1, <1>4, <2>1, <2>2
  <2>4. \A n \in 2 .. Len(s) : t[st[n] - 1] = "/"
    BY NoSlash
  <2> QED
    BY <2>3, <2>4
<1>6. ASSUME NEW j \in 1 .. Len(t), t[j] = "/" PROVE \E k \in 2 .. Len(s) : j = st[k] - 1
  BY <1>6, SlashesAre
<1> QED
  BY <1>1, <1>2, <1>3, <1>4, <1>5, <1>6, Zenon DEF PathLaid

(* A pattern laid out: its atoms about its n-th name.                       *)
PatternLaid(p, q, ps, n) ==
  /\ Len(p) \in Nat /\ Len(q) \in Nat /\ ps[n] \in Nat /\ ps[n] >= 1 /\ ps[n] <= Len(q) + 1
  /\ n = 1 => ps[n] = 1
  /\ n > 1 => ps[n] - 1 \in 1 .. Len(q) /\ q[ps[n] - 1] = "/"
  /\ n = Len(p) => ps[n + 1] = Len(q) + 2
  /\ n # Len(p) => ps[n + 1] - 1 \in 1 .. Len(q) /\ q[ps[n + 1] - 1] = "/"
  /\ p[n] = Stars => /\ ps[n + 1] = ps[n] + 3 /\ ps[n] + 2 <= Len(q) + 1
                     /\ q[ps[n]] = "*" /\ q[ps[n] + 1] = "*"

(* So is every pattern that is laid out.                                    *)
LEMMA PatternPlaces ==
  ASSUME NEW C, NEW p \in Seq(Seq(C)), NEW q \in Seq(C), NEW ps, Laid(p, q, ps),
         NEW n \in 1 .. Len(p)
  PROVE  PatternLaid(p, q, ps, n)
<1>1. /\ Len(p) \in Nat /\ ps[1] = 1
      /\ \A k \in 1 .. Len(p) + 1 : ps[k] \in Nat /\ ps[k] >= 1
      /\ \A k \in 1 .. Len(p) : ps[k + 1] = ps[k] + Len(p[k]) + 1
      /\ Ordered(p, ps)
  <2>1. Spaced(p, ps)
    BY Zenon DEF Laid
  <2>2. Numbers(C, p, ps) /\ Ordered(p, ps)
    BY <2>1, SpacedAre, PlacesOrdered
  <2> QED
    BY <2>2, Zenon DEF Numbers
<1>2. Len(q) \in Nat
  OBVIOUS
<1>3. ps[n] \in 1 .. Len(q) + 1 /\ ps[n] \in Nat /\ ps[n] >= 1
  BY NameAt, Zenon DEF Stands
<1>4. \A k \in 1 .. Len(p) : k > 1 => ps[k] - 1 \in 1 .. Len(q) /\ q[ps[k] - 1] = "/"
  <2> SUFFICES ASSUME NEW k \in 1 .. Len(p), k > 1
               PROVE  ps[k] - 1 \in 1 .. Len(q) /\ q[ps[k] - 1] = "/"
    OBVIOUS
  <2>1. k \in 1 .. Len(p) + 1 /\ 1 \in 1 .. Len(p) + 1 /\ ~(k <= 1)
    BY <1>1
  <2>2. ~(ps[k] <= 1)
    BY <1>1, <2>1, Zenon DEF Ordered
  <2>3. ps[k] \in 1 .. Len(q) + 1
    BY NameAt, Zenon DEF Stands
  <2>4. ps[k] - 1 \in 1 .. Len(q)
    BY <1>2, <2>2, <2>3
  <2>5. q[ps[k] - 1] = "/"
    BY Zenon DEF Laid, Filled
  <2> QED
    BY <2>4, <2>5
<1>5. ASSUME n = Len(p) PROVE ps[n + 1] = Len(q) + 2
  BY <1>5, Zenon DEF Laid, Filled
<1>6. ASSUME n # Len(p) PROVE ps[n + 1] - 1 \in 1 .. Len(q) /\ q[ps[n + 1] - 1] = "/"
  <2>1. n + 1 \in 1 .. Len(p) /\ n + 1 > 1
    BY <1>1, <1>6
  <2> QED
    BY <1>4, <2>1, Zenon
<1>7. ASSUME p[n] = Stars
      PROVE  /\ ps[n + 1] = ps[n] + 3 /\ ps[n] + 2 <= Len(q) + 1
             /\ q[ps[n]] = "*" /\ q[ps[n] + 1] = "*"
  <2>1. Len(Stars) = 2 /\ Stars[1] = "*" /\ Stars[2] = "*" /\ 1 \in 1 .. 2 /\ 2 \in 1 .. 2
    BY DEF Stars
  <2>2. /\ \A m \in 1 .. 2 : q[ps[n] + m - 1] = Stars[m]
        /\ ps[n] + 2 <= Len(q) + 1
    <3>1. Stands(C, p, q, ps, n)
      BY NameAt
    <3> QED
      BY <1>7, <2>1, <3>1, Zenon DEF Stands
  <2>3. PICK a \in Nat : a = ps[n]
    BY <1>3
  <2>4. a + 1 - 1 = a /\ a + 2 - 1 = a + 1 /\ a + 2 + 1 = a + 3
    OBVIOUS
  <2>5. q[a] = "*" /\ q[a + 1] = "*"
    BY <2>1, <2>2, <2>3, <2>4, Zenon
  <2>6. ps[n + 1] = a + 2 + 1
    BY <1>1, <1>7, <2>1, <2>3, Zenon
  <2> QED
    BY <2>2, <2>3, <2>4, <2>5, <2>6, Zenon
<1>8. n \in Nat /\ Len(p) \in Nat /\ ps[n] <= Len(q) + 1
  BY <1>3
<1> QED
  BY <1>1, <1>2, <1>3, <1>4, <1>5, <1>6, <1>7, <1>8, Zenon DEF PatternLaid

(* A plain name or one with a star, before a stop that is known.            *)
LEMMA NameStep ==
  ASSUME NEW C, NEW p, NEW q, NEW ps, NEW s, NEW t, NEW st, NEW A, NEW T, NEW F,
         Setting(C, p, q, ps, s, t, st, A, T, F), NEW n \in 1 .. Len(p), p[n] # Stars,
         AtStop(ps, s, st, A, T, F, n + 1)
  PROVE  AtName(p, ps, s, st, A, T, F, n)
<1> SUFFICES ASSUME ps[n] \in A, NEW k \in 1 .. Len(s)
             PROVE  st[k] \in T[ps[n]] <=> Fitted(p, s, F, n, k)
  BY Zenon DEF AtName
<1>1. NameTakenOf(p, s, ps, st, A, T, n)
  <2>1. /\ p \in Seq(Seq(C)) /\ q \in Seq(C) /\ Laid(p, q, ps)
        /\ s \in Seq(Seq(C)) /\ t \in Seq(C) /\ Laid(s, t, st)
        /\ Whole(s) /\ A \subseteq 1 .. Len(q) + 1 /\ Walk(q, t, A, T)
        /\ PlainName(p[n]) \/ StarName(p[n])
    BY Zenon DEF Setting
  <2>2. CASE PlainName(p[n])
    BY <2>1, <2>2, PlainTaken
  <2>3. CASE StarName(p[n])
    BY <2>1, <2>3, StarTaken
  <2> QED
    BY <2>1, <2>2, <2>3
<1>2. PathLaid(s, t, st)
  BY PathPlaces, Zenon DEF Setting
<1>3. PICK R : R = T[ps[n + 1] - 1]
  OBVIOUS
<1>4. R = {st[m] - 1 : m \in {h \in 2 .. Len(s) + 1 : h \in F[n + 1]}}
  BY <1>1, <1>3, Zenon DEF NameTakenOf, AtStop
<1>5. R \subseteq Stops(s, st)
  BY <1>4 DEF Stops
<1>6. st[k] \in T[ps[n]] <=> st[k + 1] - 1 \in R /\ FitsName(p[n], s[k])
  BY <1>1, <1>3, <1>5, Zenon DEF NameTakenOf
<1>7. k + 1 \in 2 .. Len(s) + 1 /\ \A m \in 2 .. Len(s) + 1 : m \in 1 .. Len(s) + 1
  BY <1>2 DEF PathLaid
<1>8. st[k + 1] - 1 \in R <=> k + 1 \in F[n + 1]
  <2>1. \A m \in 2 .. Len(s) + 1 : st[k + 1] - 1 = st[m] - 1 <=> k + 1 = m
    BY <1>2, <1>7, Zenon DEF PathLaid, Ordered
  <2> QED
    BY <1>4, <1>7, <2>1, Zenon
<1>9. F[n] = {j \in 1 .. Len(s) : FitsName(p[n], s[j]) /\ j + 1 \in F[n + 1]}
  BY Zenon DEF Setting, FitRows, Stars
<1>10. Fitted(p, s, F, n, k) <=> k \in F[n]
  BY Zenon DEF Fitted
<1> QED
  BY <1>6, <1>8, <1>9, <1>10, Zenon

(* ** before another name.                                                  *)
DeepFits(p, s, F, n) ==
  \A k \in 1 .. Len(s) :
    Fitted(p, s, F, n, k) <=> \E b \in 1 .. Len(s) : k <= b /\ Fitted(p, s, F, n + 1, b)

(* It takes names up to one from which the rest matches.                    *)
LEMMA DeepStep ==
  ASSUME NEW C, NEW p, NEW q, NEW ps, NEW s, NEW t, NEW st, NEW A, NEW T, NEW F,
         Setting(C, p, q, ps, s, t, st, A, T, F), NEW n \in 1 .. Len(p) - 1, p[n] = Stars,
         F[n + 1] \subseteq 1 .. Len(s), AtName(p, ps, s, st, A, T, F, n + 1)
  PROVE  /\ AtName(p, ps, s, st, A, T, F, n) /\ F[n] \subseteq 1 .. Len(s)
         /\ DeepFits(p, s, F, n)
<1>1. /\ q \in Seq(C) /\ t \in Seq(C) /\ A \subseteq 1 .. Len(q) + 1 /\ Walk(q, t, A, T)
  BY Zenon DEF Setting
<1>2. PathLaid(s, t, st)
  BY PathPlaces, Zenon DEF Setting
<1>3. Len(p) \in Nat /\ n \in 1 .. Len(p) /\ n # Len(p) /\ n + 1 \in 1 .. Len(p)
  <2>1. p \in Seq(Seq(C))
    BY Zenon DEF Setting
  <2> QED
    BY <2>1
<1>4. PatternLaid(p, q, ps, n)
  BY <1>3, PatternPlaces, Zenon DEF Setting
<1>5. F[n] = {j \in 1 .. Len(s) + 1 : \E k \in F[n + 1] : j <= k}
  BY Zenon DEF Setting, FitRows, Stars
<1>6. F[n] \subseteq 1 .. Len(s)
  <2>1. Len(s) \in Nat
    BY <1>2, Zenon DEF PathLaid
  <2> QED
    BY <1>5, <2>1
<1>7. \A k \in 1 .. Len(s) :
        Fitted(p, s, F, n, k) <=> \E b \in 1 .. Len(s) : k <= b /\ b \in F[n + 1]
  <2> TAKE k \in 1 .. Len(s)
  <2>1. k \in 1 .. Len(s) + 1
    BY <1>2 DEF PathLaid
  <2>2. Fitted(p, s, F, n, k) <=> k \in F[n]
    BY <1>3, Zenon DEF Fitted
  <2> QED
    BY <1>5, <2>1, <2>2, Zenon
<1>8. \A k \in 1 .. Len(s) : Fitted(p, s, F, n, k)
                               <=> \E b \in 1 .. Len(s) : k <= b /\ Fitted(p, s, F, n + 1, b)
  <2>1. CASE n + 1 = Len(p) /\ p[n + 1] = Stars
    <3>1. F[n + 1] = 1 .. Len(s)
      <4>1. Len(p) >= 1 /\ p[Len(p)] = Stars
        BY <1>3, <2>1
      <4> QED
        BY <2>1, <4>1, Zenon DEF Setting, FitRows, Stars
    <3>2. \A b : Fitted(p, s, F, n + 1, b) <=> b = Len(s)
      BY <2>1, Zenon DEF Fitted
    <3>3. Len(s) \in 1 .. Len(s) /\ \A k \in 1 .. Len(s) : k <= k /\ k <= Len(s)
      BY <1>2 DEF PathLaid
    <3> QED
      BY <1>7, <3>1, <3>2, <3>3, Zenon
  <2>2. CASE ~(n + 1 = Len(p) /\ p[n + 1] = Stars)
    <3>1. \A b : Fitted(p, s, F, n + 1, b) <=> b \in F[n + 1]
      BY <2>2, Zenon DEF Fitted
    <3> QED
      BY <1>7, <3>1, Zenon
  <2> QED
    BY <2>1, <2>2
<1>9. ASSUME ps[n] \in A, NEW k \in 1 .. Len(s)
      PROVE  st[k] \in T[ps[n]] <=> Fitted(p, s, F, n, k)
  <2>1. PICK a \in A : a = ps[n]
    BY <1>9
  <2>2. /\ a \in Nat /\ a >= 1 /\ a <= Len(q) + 1 /\ Len(q) \in Nat
        /\ q[a] = "*" /\ q[a + 1] = "*" /\ ps[n + 1] = a + 3
        /\ ps[n + 1] - 1 \in 1 .. Len(q) /\ q[ps[n + 1] - 1] = "/"
    BY <1>3, <1>4, <2>1, Zenon DEF PatternLaid
  <2>3. /\ ps[n + 1] - 1 = a + 2 /\ a + 2 <= Len(q) /\ a \in 1 .. Len(q) /\ a + 1 <= Len(q)
        /\ a <= Len(q)
    BY <2>2
  <2>4. Twice(q, a) /\ Slash(q, a + 2)
    BY <2>2, <2>3, Zenon DEF Twice, Slash
  <2>5. TokenAt(q, a) = <<"*", "*", "/">>
    BY <1>1, <2>3, <2>4, TokenAtIs
  <2>6. StepOf(t, A, T, a, <<"*", "*", "/">>)
    BY <1>1, <2>3, <2>5, WalkOn
  <2>7. Len(<<"*", "*", "/">>) = 3
    OBVIOUS
  <2>8. PICK b \in A : b = ps[n + 1] /\ b = a + 3
    BY <2>2, <2>6, <2>7, Zenon DEF StepOf
  <2>9. /\ T[b] \subseteq 1 .. Len(t) + 1
        /\ \A j \in 1 .. Len(t) + 1 :
             j \in T[a] <=> \E k2 \in T[b] : Takes(<<"*", "*", "/">>, t, j, k2)
    BY <2>6, <2>7, <2>8, Zenon DEF StepOf
  <2>10. \A h \in 1 .. Len(s) : st[h] \in T[b] <=> Fitted(p, s, F, n + 1, h)
    BY <2>8, Zenon DEF AtName
  <2>11. PICK u \in 1 .. Len(t) + 1 : u = st[k]
    BY <1>2, Zenon DEF PathLaid
  <2>12. u \in T[a] <=> \E e \in T[b] : u <= e /\ (e = u \/ t[e - 1] = "/")
    <3>1. \A e \in 1 .. Len(t) + 1 :
            Takes(<<"*", "*", "/">>, t, u, e) <=> u <= e /\ (e = u \/ t[e - 1] = "/")
      BY <1>1, TakesIs
    <3>2. \A e \in T[b] : e \in 1 .. Len(t) + 1
      BY <2>9, Zenon
    <3> QED
      BY <2>9, <3>1, <3>2, Zenon
  <2>13. ASSUME NEW e \in T[b], u <= e, e = u \/ t[e - 1] = "/"
         PROVE  \E h \in 1 .. Len(s) : k <= h /\ st[h] \in T[b]
    <3>1. CASE e = u
      <4>1. k <= k
        BY <1>2 DEF PathLaid
      <4> QED
        BY <2>11, <3>1, <4>1, Zenon
    <3>2. CASE e # u
      <4>1. e \in 1 .. Len(t) + 1
        BY <2>9, Zenon
      <4>2. e - 1 \in 1 .. Len(t)
        BY <2>13, <3>2, <4>1
      <4>3. PICK h \in 2 .. Len(s) : e - 1 = st[h] - 1
        BY <1>2, <2>13, <3>2, <4>2, Zenon DEF PathLaid
      <4>4. h \in 1 .. Len(s) /\ h \in 1 .. Len(s) + 1 /\ k \in 1 .. Len(s) + 1
        BY <1>2 DEF PathLaid
      <4>5. PICK v \in Nat : v = st[h]
        BY <1>2, <4>4, Zenon DEF PathLaid
      <4>6. e = v
        <5>1. e \in 1 .. Len(t) + 1 /\ e - 1 = v - 1
          BY <4>1, <4>3, <4>5, Zenon
        <5> QED
          BY <5>1
      <4>7. k <= h
        BY <1>2, <2>11, <2>13, <4>4, <4>5, <4>6, Zenon DEF PathLaid, Ordered
      <4> QED
        BY <4>4, <4>5, <4>6, <4>7, Zenon
    <3> QED
      BY <3>1, <3>2
  <2>14. ASSUME NEW h \in 1 .. Len(s), k <= h, st[h] \in T[b]
         PROVE  \E e \in T[b] : u <= e /\ (e = u \/ t[e - 1] = "/")
    <3>1. h \in 1 .. Len(s) + 1 /\ k \in 1 .. Len(s) + 1 /\ (h # k => h \in 2 .. Len(s))
      BY <1>2, <2>14 DEF PathLaid
    <3>2. u <= st[h]
      BY <1>2, <2>11, <2>14, <3>1, Zenon DEF PathLaid, Ordered
    <3>3. st[h] = u \/ t[st[h] - 1] = "/"
      BY <1>2, <2>11, <3>1, Zenon DEF PathLaid
    <3> QED
      BY <2>14, <3>2, <3>3, Zenon
  <2>15. u \in T[a] <=> \E h \in 1 .. Len(s) : k <= h /\ st[h] \in T[b]
    BY <2>12, <2>13, <2>14, Zenon
  <2> QED
    BY <1>8, <2>1, <2>10, <2>11, <2>15, Zenon
<1> QED
  BY <1>6, <1>8, <1>9, Zenon DEF AtName, DeepFits

(* ** at the end, with no slash before it read.                             *)
LEMMA LastStep ==
  ASSUME NEW C, NEW p, NEW q, NEW ps, NEW s, NEW t, NEW st, NEW A, NEW T, NEW F,
         Setting(C, p, q, ps, s, t, st, A, T, F), NEW n \in 1 .. Len(p), n = Len(p),
         p[n] = Stars
  PROVE  AtName(p, ps, s, st, A, T, F, n)
<1> SUFFICES ASSUME ps[n] \in A, NEW k \in 1 .. Len(s)
             PROVE  st[k] \in T[ps[n]] <=> Fitted(p, s, F, n, k)
  BY Zenon DEF AtName
<1>1. /\ q \in Seq(C) /\ t \in Seq(C) /\ A \subseteq 1 .. Len(q) + 1 /\ Walk(q, t, A, T)
  BY Zenon DEF Setting
<1>2. PathLaid(s, t, st)
  BY PathPlaces, Zenon DEF Setting
<1>3. PatternLaid(p, q, ps, n)
  BY PatternPlaces, Zenon DEF Setting
<1>4. PICK a \in A : a = ps[n]
  OBVIOUS
<1>5. /\ a \in Nat /\ a >= 1 /\ a <= Len(q) + 1 /\ Len(q) \in Nat
      /\ q[a] = "*" /\ q[a + 1] = "*" /\ ps[n + 1] = a + 3 /\ ps[n + 1] = Len(q) + 2
  BY <1>3, <1>4, Zenon DEF PatternLaid
<1>6. /\ a + 1 = Len(q) /\ a \in 1 .. Len(q) /\ a + 1 \in 1 .. Len(q) /\ a <= Len(q)
      /\ a + 1 <= Len(q) /\ (a + 1) + 1 = Len(q) + 1 /\ ~(a + 2 <= Len(q))
      /\ ~((a + 1) + 1 <= Len(q)) /\ Len(q) + 1 = a + 2
  BY <1>5
<1>7. TokenAt(q, a) = <<"*">> /\ TokenAt(q, a + 1) = <<"*">>
  <2>1. ~Slash(q, a + 2) /\ ~Twice(q, a + 1)
    BY <1>6, Zenon DEF Slash, Twice
  <2>2. TokenAt(q, a) = <<"*">>
    BY <1>1, <1>5, <1>6, <2>1, TokenAtIs
  <2>3. PICK b \in 1 .. Len(q) : b = a + 1
    BY <1>6
  <2>4. TokenAt(q, b) = <<"*">>
    BY <1>1, <1>5, <2>1, <2>3, TokenAtIs
  <2> QED
    BY <2>2, <2>3, <2>4
<1>8. Len(<<"*">>) = 1
  OBVIOUS
<1>9. StepOf(t, A, T, a, <<"*">>)
  BY <1>1, <1>6, <1>7, WalkOn
<1>10. PICK b \in A : b = a + 1
  BY <1>8, <1>9, Zenon DEF StepOf
<1>11. StepOf(t, A, T, b, <<"*">>)
  BY <1>1, <1>6, <1>7, <1>10, WalkOn
<1>12. /\ T[b] \subseteq 1 .. Len(t) + 1
       /\ \A j \in 1 .. Len(t) + 1 : j \in T[a] <=> \E e \in T[b] : Takes(<<"*">>, t, j, e)
  BY <1>8, <1>9, <1>10, Zenon DEF StepOf
<1>13. T[b + 1] = {Len(t) + 1}
  <2>1. T[Len(q) + 1] = {Len(t) + 1}
    BY <1>1, Zenon DEF Walk
  <2> QED
    BY <1>6, <1>10, <2>1
<1>14. \A j \in 1 .. Len(t) + 1 :
         j \in T[b] <=> \E e \in {Len(t) + 1} : Takes(<<"*">>, t, j, e)
  BY <1>8, <1>11, <1>13, Zenon DEF StepOf
<1>15. /\ Len(t) \in Nat /\ Len(t) + 1 \in 1 .. Len(t) + 1
       /\ {Len(t) + 1} \subseteq 1 .. Len(t) + 1
  BY <1>1
<1>16. \A j \in 1 .. Len(t) + 1 : j \in T[b] <=> Clear(t, j, Len(t) + 1)
  <2> TAKE j \in 1 .. Len(t) + 1
  <2>1. StarTakes(t, {Len(t) + 1}, j)
    BY <1>1, <1>15, StarClear
  <2> QED
    BY <1>14, <2>1, Zenon DEF StarTakes
<1>17. PICK u \in 1 .. Len(t) + 1 : u = st[k]
  BY <1>2, Zenon DEF PathLaid
<1>18. u \in T[a] <=> \E e \in T[b] : Clear(t, u, e)
  <2>1. StarTakes(t, T[b], u)
    BY <1>1, <1>12, StarClear
  <2> QED
    BY <1>12, <2>1, Zenon DEF StarTakes
<1>19. u \in T[a] <=> Clear(t, u, Len(t) + 1)
  <2>1. ASSUME NEW e \in T[b], Clear(t, u, e) PROVE Clear(t, u, Len(t) + 1)
    <3>1. e \in 1 .. Len(t) + 1
      BY <1>12, Zenon
    <3>2. Clear(t, e, Len(t) + 1)
      BY <1>16, <3>1, Zenon
    <3>3. /\ u <= Len(t) + 1
          /\ \A i \in u .. (Len(t) + 1) - 1 : i \in u .. e - 1 \/ i \in e .. (Len(t) + 1) - 1
      BY <1>15, <3>1
    <3> QED
      BY <2>1, <3>2, <3>3, Zenon DEF Clear
  <2>2. ASSUME Clear(t, u, Len(t) + 1) PROVE \E e \in T[b] : Clear(t, u, e)
    <3>1. Clear(t, Len(t) + 1, Len(t) + 1)
      <4>1. Len(t) + 1 <= Len(t) + 1
        BY <1>15
      <4>2. \A i \in Len(t) + 1 .. (Len(t) + 1) - 1 : FALSE
        BY <1>15
      <4> QED
        BY <4>1, <4>2, Zenon DEF Clear
    <3>2. Len(t) + 1 \in T[b]
      BY <1>15, <1>16, <3>1, Zenon
    <3> QED
      BY <2>2, <3>2, Zenon
  <2> QED
    BY <1>18, <2>1, <2>2, Zenon
<1>20. Clear(t, u, Len(t) + 1) <=> k = Len(s)
  <2>1. ASSUME Clear(t, u, Len(t) + 1) PROVE k = Len(s)
    <3>1. /\ Len(s) + 1 \in 2 .. Len(s) + 1 /\ k + 1 \in 1 .. Len(s) + 1
          /\ Len(s) + 1 \in 1 .. Len(s) + 1
      BY <1>2 DEF PathLaid
    <3>2. PICK e \in Stops(s, st) : e = Len(t) + 1 /\ e = st[Len(s) + 1] - 1
      BY <1>2, <3>1, Zenon DEF PathLaid, Stops
    <3>3. st[k] <= e /\ \A i \in st[k] .. e - 1 : t[i] # "/"
      BY <1>17, <2>1, <3>2, Zenon DEF Clear
    <3>4. /\ s \in Seq(Seq(C)) /\ t \in Seq(C) /\ Laid(s, t, st) /\ Whole(s)
      BY Zenon DEF Setting
    <3>5. e = st[k + 1] - 1
      BY <3>3, <3>4, StopIs
    <3>6. k + 1 = Len(s) + 1
      BY <1>2, <3>1, <3>2, <3>5, Zenon DEF PathLaid, Ordered
    <3> QED
      BY <1>2, <3>6 DEF PathLaid
  <2>2. ASSUME k = Len(s) PROVE Clear(t, u, Len(t) + 1)
    <3>1. \A i \in st[k] .. st[k + 1] - 2 : t[i] # "/"
      <4>1. /\ s \in Seq(Seq(C)) /\ t \in Seq(C) /\ Laid(s, t, st) /\ Whole(s)
        BY Zenon DEF Setting
      <4>2. \A h \in 1 .. Len(s) : \A i \in st[h] .. st[h + 1] - 2 : t[i] # "/"
        BY <4>1, NoSlash
      <4> QED
        BY <4>2
    <3>2. st[k + 1] = Len(t) + 2
      BY <1>2, <2>2, Zenon DEF PathLaid
    <3>3. st[k + 1] - 2 = (Len(t) + 1) - 1 /\ u <= Len(t) + 1
      BY <1>15, <3>2
    <3> QED
      BY <1>17, <3>1, <3>3, Zenon DEF Clear
  <2> QED
    BY <2>1, <2>2
<1>21. Fitted(p, s, F, n, k) <=> k = Len(s)
  BY Zenon DEF Fitted
<1> QED
  BY <1>4, <1>17, <1>19, <1>20, <1>21, Zenon

(* A stop of the pattern: a slash of it, right before a name.               *)
StopIn(q, ps, A, n) ==
  \E a \in A : /\ a = ps[n] - 1 /\ a + 1 = ps[n] /\ a \in 1 .. Len(q) /\ a <= Len(q)
               /\ a \in Nat /\ q[a] = "/"

(* So is every stop before a name.                                          *)
LEMMA BeforeName ==
  ASSUME NEW C, NEW p, NEW q, NEW ps, NEW s, NEW t, NEW st, NEW A, NEW T, NEW F,
         Setting(C, p, q, ps, s, t, st, A, T, F), NEW n \in 2 .. Len(p), ps[n] - 1 \in A
  PROVE  StopIn(q, ps, A, n)
<1>1. n \in 1 .. Len(p) /\ n > 1
  OBVIOUS
<1>2. PatternLaid(p, q, ps, n)
  BY <1>1, PatternPlaces, Zenon DEF Setting
<1>3. ps[n] - 1 \in 1 .. Len(q) /\ q[ps[n] - 1] = "/" /\ ps[n] \in Nat /\ Len(q) \in Nat
  BY <1>1, <1>2, Zenon DEF PatternLaid
<1>4. (ps[n] - 1) + 1 = ps[n] /\ ps[n] - 1 <= Len(q) /\ ps[n] - 1 \in Nat
  BY <1>3
<1> QED
  BY <1>3, <1>4, Zenon DEF StopIn

(* Slashes of the path are found, those before the names that fit.          *)
SlashesFound(s, t, st, found, fit) ==
  /\ \A j \in found : j \in 1 .. Len(t) /\ t[j] = "/"
  /\ \A k \in 2 .. Len(s) : st[k] - 1 \in found <=> k \in fit

(* So the stops are these.                                                  *)
LEMMA StopsAre ==
  ASSUME NEW C, NEW p, NEW q, NEW ps, NEW s, NEW t, NEW st, NEW A, NEW T, NEW F,
         Setting(C, p, q, ps, s, t, st, A, T, F), NEW n,
         F[n] \subseteq 1 .. Len(s), NEW a, a = ps[n] - 1, SlashesFound(s, t, st, T[a], F[n])
  PROVE  AtStop(ps, s, st, A, T, F, n)
<1>1. PathLaid(s, t, st)
  BY PathPlaces, Zenon DEF Setting
<1>2. \A m \in 2 .. Len(s) + 1 : m \in F[n] => m \in 2 .. Len(s)
  BY <1>1 DEF PathLaid
<1>3. \A m \in 2 .. Len(s) : m \in 2 .. Len(s) + 1
  BY <1>1 DEF PathLaid
<1>a. /\ \A j \in T[a] : j \in 1 .. Len(t) /\ t[j] = "/"
      /\ \A k \in 2 .. Len(s) : st[k] - 1 \in T[a] <=> k \in F[n]
  BY Zenon DEF SlashesFound
<1>4. ASSUME NEW j \in T[a]
      PROVE  j \in {st[k] - 1 : k \in {m \in 2 .. Len(s) + 1 : m \in F[n]}}
  <2>1. PICK k \in 2 .. Len(s) : j = st[k] - 1
    BY <1>1, <1>a, Zenon DEF PathLaid
  <2>2. k \in {m \in 2 .. Len(s) + 1 : m \in F[n]}
    BY <1>3, <1>a, <2>1, Zenon
  <2> QED
    BY <2>1, <2>2, Zenon
<1>5. ASSUME NEW k \in 2 .. Len(s) + 1, k \in F[n] PROVE st[k] - 1 \in T[a]
  BY <1>2, <1>5, <1>a, Zenon
<1>6. T[a] = {st[k] - 1 : k \in {m \in 2 .. Len(s) + 1 : m \in F[n]}}
  BY <1>4, <1>5, Zenon
<1> QED
  BY <1>6, Zenon DEF AtStop

(* The stop before a plain name or one with a star: one slash.              *)
LEMMA NameStop ==
  ASSUME NEW C, NEW p, NEW q, NEW ps, NEW s, NEW t, NEW st, NEW A, NEW T, NEW F,
         Setting(C, p, q, ps, s, t, st, A, T, F), NEW n \in 2 .. Len(p), p[n] # Stars,
         F[n] \subseteq 1 .. Len(s), AtName(p, ps, s, st, A, T, F, n)
  PROVE  AtStop(ps, s, st, A, T, F, n)
<1> SUFFICES ASSUME ps[n] - 1 \in A PROVE AtStop(ps, s, st, A, T, F, n)
  BY Zenon DEF AtStop
<1>1. /\ p \in Seq(Seq(C)) /\ q \in Seq(C) /\ Laid(p, q, ps)
      /\ t \in Seq(C) /\ A \subseteq 1 .. Len(q) + 1 /\ Walk(q, t, A, T)
  BY Zenon DEF Setting
<1>2. PathLaid(s, t, st)
  BY PathPlaces, Zenon DEF Setting
<1>3. PICK a \in A : /\ a = ps[n] - 1 /\ a + 1 = ps[n] /\ a \in 1 .. Len(q) /\ a <= Len(q)
                     /\ a \in Nat /\ q[a] = "/"
  <2>1. StopIn(q, ps, A, n)
    BY BeforeName
  <2> QED
    BY <2>1, Zenon DEF StopIn
<1>4. n \in 1 .. Len(p)
  OBVIOUS
<1>5. ~Twice(q, a + 1)
  <2> SUFFICES ASSUME Twice(q, a + 1) PROVE FALSE
    OBVIOUS
  <2>1. PICK w \in Seq(C), l \in Nat : w = p[n] /\ l = Len(w)
    BY <1>1, <1>4
  <2>2. Stands(C, p, q, ps, n)
    BY <1>1, <1>4, NameAt
  <2>3. PICK c \in Nat : c = a + 1 /\ c = ps[n] /\ c >= 1
    BY <1>3, <2>2, Zenon DEF Stands
  <2>4. /\ ps[n + 1] - 1 = c + l
        /\ \A m \in 1 .. l : q[c + m - 1] = w[m]
    BY <2>1, <2>2, <2>3, Zenon DEF Stands
  <2>5. c + 1 <= Len(q) /\ q[c] = "*" /\ q[c + 1] = "*"
    BY <2>3, Zenon DEF Twice
  <2>6. l >= 1 => q[c] = w[1]
    <3>1. c + 1 - 1 = c /\ (l >= 1 => 1 \in 1 .. l)
      BY <2>3
    <3> QED
      BY <2>4, <3>1
  <2>7. l >= 2 => q[c + 1] = w[2]
    <3>1. c + 2 - 1 = c + 1 /\ (l >= 2 => 2 \in 1 .. l)
      BY <2>3
    <3> QED
      BY <2>4, <3>1
  <2>8. \A k \in {0, 1} : l = k => c + k > Len(q) \/ q[c + k] = "/"
    <3> SUFFICES ASSUME NEW k \in {0, 1}, l = k PROVE c + k > Len(q) \/ q[c + k] = "/"
      OBVIOUS
    <3>1. PatternLaid(p, q, ps, n)
      BY <1>4, PatternPlaces, Zenon DEF Setting
    <3>2. CASE n = Len(p)
      <4>1. ps[n + 1] = Len(q) + 2 /\ Len(q) \in Nat
        BY <3>1, <3>2, Zenon DEF PatternLaid
      <4> QED
        BY <2>4, <4>1
    <3>3. CASE n # Len(p)
      <4>1. q[ps[n + 1] - 1] = "/"
        BY <3>1, <3>3, Zenon DEF PatternLaid
      <4> QED
        BY <2>4, <4>1
    <3> QED
      BY <3>2, <3>3
  <2>9. Len(q) \in Nat
    BY <1>1
  <2>10. l >= 2
    <3>1. l # 0
      <4> SUFFICES ASSUME l = 0 PROVE FALSE
        OBVIOUS
      <4>1. c + 0 = c /\ ~(c + 0 > Len(q))
        BY <2>5, <2>9
      <4> QED
        BY <2>5, <2>8, <4>1
    <3>2. l # 1
      <4> SUFFICES ASSUME l = 1 PROVE FALSE
        OBVIOUS
      <4>1. ~(c + 1 > Len(q))
        BY <2>5, <2>9
      <4> QED
        BY <2>5, <2>8, <4>1
    <3> QED
      BY <3>1, <3>2
  <2>11. w[1] = "*" /\ w[2] = "*" /\ 1 \in 1 .. l /\ 2 \in 1 .. l /\ 2 \in 2 .. l
    BY <2>5, <2>6, <2>7, <2>10
  <2>12. PlainName(w) \/ StarName(w)
    BY <1>4, <2>1, Zenon DEF Setting
  <2> QED
    BY <2>1, <2>11, <2>12 DEF PlainName, StarName
<1>6. TokenAt(q, a) = <<"/">>
  BY <1>1, <1>3, <1>5, TokenAtIs
<1>7. StepOf(t, A, T, a, <<"/">>) /\ Len(<<"/">>) = 1
  <2>1. Len(<<"/">>) = 1
    OBVIOUS
  <2> QED
    BY <1>1, <1>3, <1>6, <2>1, WalkOn
<1>8. PICK b \in A : b = ps[n] /\ b = a + 1
  BY <1>3, <1>7, Zenon DEF StepOf
<1>9. /\ T[b] \subseteq 1 .. Len(t) + 1
      /\ \A j \in 1 .. Len(t) + 1 : j \in T[a] <=> \E e \in T[b] : Takes(<<"/">>, t, j, e)
  BY <1>7, <1>8, Zenon DEF StepOf
<1>10. T[a] \subseteq 1 .. Len(t) + 1
  <2>1. Len(q) \in Nat /\ Len(t) \in Nat
    BY <1>1
  <2> QED
    BY <1>1, <2>1, WalkIn
<1>11. \A j \in 1 .. Len(t) + 1 : j \in T[a] <=> t[j] = "/" /\ j + 1 \in T[b]
  <2> TAKE j \in 1 .. Len(t) + 1
  <2>1. \A e \in 1 .. Len(t) + 1 : Takes(<<"/">>, t, j, e) <=> e = j + 1 /\ t[j] = "/"
    <3>1. "/" # "*"
      OBVIOUS
    <3> QED
      BY <1>1, <3>1, TakesIs
  <2>2. \A e \in T[b] : e \in 1 .. Len(t) + 1
    BY <1>9, Zenon
  <2> QED
    BY <1>9, <2>1, <2>2, Zenon
<1>12. ASSUME NEW j \in T[a] PROVE j \in 1 .. Len(t) /\ t[j] = "/"
  <2>1. j \in 1 .. Len(t) + 1
    BY <1>10, Zenon
  <2>2. t[j] = "/" /\ j + 1 \in T[b]
    BY <1>11, <2>1, Zenon
  <2>3. j + 1 \in 1 .. Len(t) + 1
    BY <1>9, <2>2, Zenon
  <2>4. Len(t) \in Nat
    BY <1>1
  <2> QED
    BY <2>1, <2>2, <2>3, <2>4
<1>13. ASSUME NEW k \in 2 .. Len(s) PROVE st[k] - 1 \in T[a] <=> k \in F[n]
  <2>1. k \in 1 .. Len(s) /\ k \in 1 .. Len(s) + 1
    BY <1>2 DEF PathLaid
  <2>2. PICK u \in Nat : u = st[k] /\ u - 1 \in 1 .. Len(t) /\ t[u - 1] = "/"
    BY <1>2, <2>1, Zenon DEF PathLaid
  <2>3. (u - 1) + 1 = u /\ u - 1 \in 1 .. Len(t) + 1
    BY <1>2, <2>2 DEF PathLaid
  <2>4. u - 1 \in T[a] <=> u \in T[b]
    BY <1>11, <2>2, <2>3, Zenon
  <2>5. u \in T[b] <=> Fitted(p, s, F, n, k)
    BY <1>8, <2>1, <2>2, Zenon DEF AtName
  <2>6. Fitted(p, s, F, n, k) <=> k \in F[n]
    BY Zenon DEF Fitted
  <2> QED
    BY <2>2, <2>4, <2>5, <2>6, Zenon
<1>20. SlashesFound(s, t, st, T[a], F[n])
  BY <1>12, <1>13, Zenon DEF SlashesFound
<1> QED
  BY <1>3, <1>20, StopsAre

(* The stop before ** and another name.                                     *)
LEMMA DeepStop ==
  ASSUME NEW C, NEW p, NEW q, NEW ps, NEW s, NEW t, NEW st, NEW A, NEW T, NEW F,
         Setting(C, p, q, ps, s, t, st, A, T, F), NEW n \in 2 .. Len(p) - 1, p[n] = Stars,
         F[n] \subseteq 1 .. Len(s), F[n + 1] \subseteq 1 .. Len(s),
         AtName(p, ps, s, st, A, T, F, n + 1), DeepFits(p, s, F, n)
  PROVE  AtStop(ps, s, st, A, T, F, n)
<1> SUFFICES ASSUME ps[n] - 1 \in A PROVE AtStop(ps, s, st, A, T, F, n)
  BY Zenon DEF AtStop
<1>1. /\ p \in Seq(Seq(C)) /\ q \in Seq(C) /\ Laid(p, q, ps)
      /\ t \in Seq(C) /\ A \subseteq 1 .. Len(q) + 1 /\ Walk(q, t, A, T)
  BY Zenon DEF Setting
<1>2. PathLaid(s, t, st)
  BY PathPlaces, Zenon DEF Setting
<1>3. n \in 1 .. Len(p) /\ n \in 2 .. Len(p) /\ n # Len(p)
  BY <1>1
<1>4. PICK a \in A : /\ a = ps[n] - 1 /\ a + 1 = ps[n] /\ a \in 1 .. Len(q) /\ a <= Len(q)
                     /\ a \in Nat /\ q[a] = "/"
  <2>1. StopIn(q, ps, A, n)
    BY <1>3, BeforeName
  <2> QED
    BY <2>1, Zenon DEF StopIn
<1>5. PatternLaid(p, q, ps, n)
  BY <1>3, PatternPlaces, Zenon DEF Setting
<1>6. /\ Len(q) \in Nat /\ ps[n + 1] = ps[n] + 3 /\ q[ps[n]] = "*" /\ q[ps[n] + 1] = "*"
      /\ ps[n + 1] - 1 \in 1 .. Len(q) /\ q[ps[n + 1] - 1] = "/"
  BY <1>3, <1>5, Zenon DEF PatternLaid
<1>7. ps[n + 1] = a + 4 /\ ps[n + 1] - 1 = a + 3 /\ ps[n] + 1 = a + 2 /\ (a + 1) + 1 = a + 2
      /\ a + 3 <= Len(q) /\ a + 2 <= Len(q)
  <2>a. PICK c \in Nat, m \in Nat : c = ps[n] /\ m = Len(q)
    BY <1>5, <1>6, Zenon DEF PatternLaid
  <2>1. PICK d \in Nat : c = ps[n] /\ m = Len(q) /\ d = c + 3
    BY <2>a
  <2>2. d = ps[n + 1] /\ d - 1 \in 1 .. m /\ a + 1 = c /\ a \in Nat
    BY <1>4, <1>6, <2>1, Zenon
  <2>3. /\ d = a + 4 /\ d - 1 = a + 3 /\ c + 1 = a + 2 /\ (a + 1) + 1 = a + 2
        /\ a + 3 <= m /\ a + 2 <= m
    <3>1. d = c + 3 /\ d - 1 \in 1 .. m /\ a + 1 = c /\ a \in Nat
      BY <2>1, <2>2, Zenon
    <3> QED
      BY <3>1
  <2> QED
    BY <2>1, <2>2, <2>3, Zenon
<1>8. TokenAt(q, a) = <<"/", "*", "*", "/">>
  <2>1. Twice(q, a + 1) /\ Slash(q, a + 3)
    BY <1>4, <1>6, <1>7, Zenon DEF Twice, Slash
  <2> QED
    BY <1>1, <1>4, <2>1, TokenAtIs
<1>9. StepOf(t, A, T, a, <<"/", "*", "*", "/">>) /\ Len(<<"/", "*", "*", "/">>) = 4
  <2>1. Len(<<"/", "*", "*", "/">>) = 4
    OBVIOUS
  <2> QED
    BY <1>1, <1>4, <1>8, <2>1, WalkOn
<1>10. PICK b \in A : b = ps[n + 1] /\ b = a + 4
  BY <1>7, <1>9, Zenon DEF StepOf
<1>11. /\ T[b] \subseteq 1 .. Len(t) + 1
       /\ \A j \in 1 .. Len(t) + 1 :
            j \in T[a] <=> \E e \in T[b] : Takes(<<"/", "*", "*", "/">>, t, j, e)
  BY <1>9, <1>10, Zenon DEF StepOf
<1>12. T[a] \subseteq 1 .. Len(t) + 1
  <2>1. Len(q) \in Nat /\ Len(t) \in Nat
    BY <1>1
  <2> QED
    BY <1>1, <2>1, WalkIn
<1>13. \A j \in 1 .. Len(t) + 1 :
         j \in T[a] <=> \E e \in T[b] : j < e /\ t[j] = "/" /\ t[e - 1] = "/"
  <2> TAKE j \in 1 .. Len(t) + 1
  <2>1. \A e \in 1 .. Len(t) + 1 :
          Takes(<<"/", "*", "*", "/">>, t, j, e) <=> j < e /\ t[j] = "/" /\ t[e - 1] = "/"
    BY <1>1, TakesBetween
  <2>2. \A e \in T[b] : e \in 1 .. Len(t) + 1
    BY <1>11, Zenon
  <2> QED
    BY <1>11, <2>1, <2>2, Zenon
<1>14. ASSUME NEW j \in T[a] PROVE j \in 1 .. Len(t) /\ t[j] = "/"
  <2>1. j \in 1 .. Len(t) + 1
    BY <1>12, Zenon
  <2>2. PICK e \in T[b] : j < e /\ t[j] = "/"
    BY <1>13, <2>1, Zenon
  <2>3. e \in 1 .. Len(t) + 1 /\ Len(t) \in Nat
    <3>1. Len(t) \in Nat
      BY <1>1
    <3> QED
      BY <1>11, <3>1, Zenon
  <2> QED
    BY <2>1, <2>2, <2>3
<1>15. ASSUME NEW k \in 2 .. Len(s) PROVE st[k] - 1 \in T[a] <=> k \in F[n]
  <2>1. k \in 1 .. Len(s) /\ k \in 1 .. Len(s) + 1
    BY <1>2 DEF PathLaid
  <2>2. PICK u \in Nat : u = st[k] /\ u - 1 \in 1 .. Len(t) /\ t[u - 1] = "/"
    BY <1>2, <2>1, Zenon DEF PathLaid
  <2>3. u - 1 \in 1 .. Len(t) + 1
    BY <1>2, <2>2 DEF PathLaid
  <2>4. u - 1 \in T[a] <=> \E e \in T[b] : u - 1 < e /\ t[e - 1] = "/"
    BY <1>13, <2>2, <2>3, Zenon
  <2>5. ASSUME NEW e \in T[b], u - 1 < e, t[e - 1] = "/"
        PROVE  \E h \in 1 .. Len(s) : k <= h /\ st[h] \in T[b]
    <3>1. e \in 1 .. Len(t) + 1
      BY <1>11, Zenon
    <3>2. e - 1 \in 1 .. Len(t) /\ u <= e
      <4>1. e \in 1 .. Len(t) + 1 /\ u - 1 \in 1 .. Len(t) /\ u - 1 < e
        BY <2>2, <2>5, <3>1, Zenon
      <4> QED
        BY <4>1
    <3>3. PICK h \in 2 .. Len(s) : e - 1 = st[h] - 1
      BY <1>2, <2>5, <3>2, Zenon DEF PathLaid
    <3>4. h \in 1 .. Len(s) /\ h \in 1 .. Len(s) + 1
      BY <1>2 DEF PathLaid
    <3>5. PICK v \in Nat : v = st[h]
      BY <1>2, <3>4, Zenon DEF PathLaid
    <3>6. e = v
      <4>1. e \in 1 .. Len(t) + 1 /\ e - 1 = v - 1
        BY <3>1, <3>3, <3>5, Zenon
      <4> QED
        BY <4>1
    <3>7. k <= h
      BY <1>2, <2>1, <2>2, <3>2, <3>4, <3>5, <3>6, Zenon DEF PathLaid, Ordered
    <3> QED
      BY <3>4, <3>5, <3>6, <3>7, Zenon
  <2>6. ASSUME NEW h \in 1 .. Len(s), k <= h, st[h] \in T[b]
        PROVE  \E e \in T[b] : u - 1 < e /\ t[e - 1] = "/"
    <3>1. h \in 1 .. Len(s) + 1 /\ h \in 2 .. Len(s)
      BY <1>2, <2>6 DEF PathLaid
    <3>2. u <= st[h]
      BY <1>2, <2>1, <2>2, <2>6, <3>1, Zenon DEF PathLaid, Ordered
    <3>3. t[st[h] - 1] = "/"
      BY <1>2, <3>1, Zenon DEF PathLaid
    <3>4. PICK v \in Nat : v = st[h]
      BY <1>2, <3>1, Zenon DEF PathLaid
    <3>5. u - 1 < v
      BY <2>2, <3>2, <3>4
    <3> QED
      BY <2>6, <3>3, <3>4, <3>5, Zenon
  <2>7. u - 1 \in T[a] <=> \E h \in 1 .. Len(s) : k <= h /\ st[h] \in T[b]
    BY <2>4, <2>5, <2>6, Zenon
  <2>8. \A h \in 1 .. Len(s) : st[h] \in T[b] <=> Fitted(p, s, F, n + 1, h)
    BY <1>10, Zenon DEF AtName
  <2>9. Fitted(p, s, F, n, k) <=> k \in F[n]
    BY <1>3, Zenon DEF Fitted
  <2> QED
    BY <2>1, <2>2, <2>7, <2>8, <2>9, Zenon DEF DeepFits
<1>20. SlashesFound(s, t, st, T[a], F[n])
  BY <1>14, <1>15, Zenon DEF SlashesFound
<1> QED
  BY <1>4, <1>20, StopsAre

(* The stop before ** at the end.                                           *)
LEMMA LastStop ==
  ASSUME NEW C, NEW p, NEW q, NEW ps, NEW s, NEW t, NEW st, NEW A, NEW T, NEW F,
         Setting(C, p, q, ps, s, t, st, A, T, F), NEW n \in 2 .. Len(p), n = Len(p),
         p[n] = Stars, F[n] = 1 .. Len(s)
  PROVE  AtStop(ps, s, st, A, T, F, n)
<1> SUFFICES ASSUME ps[n] - 1 \in A PROVE AtStop(ps, s, st, A, T, F, n)
  BY Zenon DEF AtStop
<1>1. /\ p \in Seq(Seq(C)) /\ q \in Seq(C) /\ Laid(p, q, ps)
      /\ t \in Seq(C) /\ A \subseteq 1 .. Len(q) + 1 /\ Walk(q, t, A, T)
  BY Zenon DEF Setting
<1>2. PathLaid(s, t, st)
  BY PathPlaces, Zenon DEF Setting
<1>3. n \in 1 .. Len(p)
  OBVIOUS
<1>4. PICK a \in A : /\ a = ps[n] - 1 /\ a + 1 = ps[n] /\ a \in 1 .. Len(q) /\ a <= Len(q)
                     /\ a \in Nat /\ q[a] = "/"
  <2>1. StopIn(q, ps, A, n)
    BY BeforeName
  <2> QED
    BY <2>1, Zenon DEF StopIn
<1>5. PatternLaid(p, q, ps, n)
  BY <1>3, PatternPlaces, Zenon DEF Setting
<1>6. /\ Len(q) \in Nat /\ ps[n + 1] = ps[n] + 3 /\ q[ps[n]] = "*" /\ q[ps[n] + 1] = "*"
      /\ ps[n + 1] = Len(q) + 2
  BY <1>5, Zenon DEF PatternLaid
<1>7. Len(q) = a + 2 /\ ps[n] + 1 = a + 2 /\ (a + 1) + 1 = a + 2 /\ a + 2 <= Len(q)
      /\ ~(a + 3 <= Len(q)) /\ a + 3 = Len(q) + 1
  <2>a. PICK c \in Nat, m \in Nat : c = ps[n] /\ m = Len(q)
    BY <1>5, <1>6, Zenon DEF PatternLaid
  <2>1. PICK d \in Nat : c = ps[n] /\ m = Len(q) /\ d = c + 3
    BY <2>a
  <2>2. d = m + 2 /\ a + 1 = c /\ a \in Nat
    BY <1>4, <1>6, <2>1, Zenon
  <2>3. /\ m = a + 2 /\ c + 1 = a + 2 /\ (a + 1) + 1 = a + 2 /\ a + 2 <= m
        /\ ~(a + 3 <= m) /\ a + 3 = m + 1
    <3>1. d = c + 3 /\ d = m + 2 /\ a + 1 = c /\ a \in Nat
      BY <2>1, <2>2, Zenon
    <3> QED
      BY <3>1
  <2> QED
    BY <2>1, <2>2, <2>3, Zenon
<1>8. TokenAt(q, a) = <<"/", "*", "*">>
  <2>1. Twice(q, a + 1) /\ ~Slash(q, a + 3)
    BY <1>4, <1>6, <1>7, Zenon DEF Twice, Slash
  <2> QED
    BY <1>1, <1>4, <2>1, TokenAtIs
<1>9. StepOf(t, A, T, a, <<"/", "*", "*">>) /\ Len(<<"/", "*", "*">>) = 3
  <2>1. Len(<<"/", "*", "*">>) = 3
    OBVIOUS
  <2> QED
    BY <1>1, <1>4, <1>8, <2>1, WalkOn
<1>10. T[a + 3] = {Len(t) + 1}
  <2>1. T[Len(q) + 1] = {Len(t) + 1}
    BY <1>1, Zenon DEF Walk
  <2> QED
    BY <1>7, <2>1
<1>11. \A j \in 1 .. Len(t) + 1 :
         j \in T[a] <=> \E e \in {Len(t) + 1} : Takes(<<"/", "*", "*">>, t, j, e)
  BY <1>9, <1>10, Zenon DEF StepOf
<1>12. T[a] \subseteq 1 .. Len(t) + 1
  <2>1. Len(q) \in Nat /\ Len(t) \in Nat
    BY <1>1
  <2> QED
    BY <1>1, <2>1, WalkIn
<1>13. Len(t) \in Nat /\ Len(t) + 1 \in 1 .. Len(t) + 1
  BY <1>1
<1>14. \A j \in 1 .. Len(t) + 1 : j \in T[a] <=> j < Len(t) + 1 /\ t[j] = "/"
  <2> TAKE j \in 1 .. Len(t) + 1
  <2>1. Takes(<<"/", "*", "*">>, t, j, Len(t) + 1) <=> j < Len(t) + 1 /\ t[j] = "/"
    BY <1>1, <1>13, TakesIs
  <2> QED
    BY <1>11, <2>1, Zenon
<1>15. ASSUME NEW j \in T[a] PROVE j \in 1 .. Len(t) /\ t[j] = "/"
  <2>1. j \in 1 .. Len(t) + 1
    BY <1>12, Zenon
  <2>2. j < Len(t) + 1 /\ t[j] = "/"
    BY <1>14, <2>1, Zenon
  <2> QED
    BY <1>13, <2>1, <2>2
<1>16. ASSUME NEW k \in 2 .. Len(s) PROVE st[k] - 1 \in T[a] <=> k \in F[n]
  <2>1. k \in 1 .. Len(s)
    BY <1>2 DEF PathLaid
  <2>2. PICK j \in 1 .. Len(t) : j = st[k] - 1 /\ t[j] = "/"
    BY <1>2, Zenon DEF PathLaid
  <2>3. j \in 1 .. Len(t) + 1 /\ j < Len(t) + 1
    BY <1>13, <2>2
  <2> QED
    BY <1>14, <2>1, <2>2, <2>3, Zenon
<1>17. F[n] \subseteq 1 .. Len(s)
  OBVIOUS
<1>20. SlashesFound(s, t, st, T[a], F[n])
  BY <1>15, <1>16, Zenon DEF SlashesFound
<1> QED
  BY <1>4, <1>17, <1>20, StopsAre

(* All there is to know about the n-th name of the pattern.                 *)
Known(p, ps, s, st, A, T, F, n) ==
  /\ n <= Len(p) => F[n] \subseteq 1 .. Len(s) /\ AtName(p, ps, s, st, A, T, F, n)
  /\ n >= 2 => AtStop(ps, s, st, A, T, F, n)

(* At the end of the pattern.                                               *)
LEMMA KnownLast ==
  ASSUME NEW C, NEW p, NEW q, NEW ps, NEW s, NEW t, NEW st, NEW A, NEW T, NEW F,
         Setting(C, p, q, ps, s, t, st, A, T, F)
  PROVE  Known(p, ps, s, st, A, T, F, Len(p) + 1)
<1>1. p \in Seq(Seq(C)) /\ q \in Seq(C) /\ Len(p) \in Nat /\ Len(q) \in Nat /\ Len(p) >= 1
  <2>1. p \in Seq(Seq(C)) /\ q \in Seq(C) /\ p # <<>>
    BY Zenon DEF Setting
  <2> QED
    BY <2>1
<1>2. PathLaid(s, t, st)
  BY PathPlaces, Zenon DEF Setting
<1>3. ~(Len(p) + 1 <= Len(p)) /\ Len(p) \in 1 .. Len(p)
  BY <1>1
<1>4. T[Len(q) + 1] = {Len(t) + 1} /\ F[Len(p) + 1] = {Len(s) + 1}
  BY Zenon DEF Setting, Walk, FitRows
<1>5. ps[Len(p) + 1] - 1 = Len(q) + 1
  <2>1. Len(q) + 2 = ps[Len(p) + 1]
    BY Zenon DEF Setting, Laid, Filled
  <2> QED
    BY <1>1, <2>1
<1>6. {st[k] - 1 : k \in {m \in 2 .. Len(s) + 1 : m \in F[Len(p) + 1]}} = {Len(t) + 1}
  <2>1. Len(s) + 1 \in 2 .. Len(s) + 1
    BY <1>2 DEF PathLaid
  <2>2. st[Len(s) + 1] - 1 = Len(t) + 1
    BY <1>2, Zenon DEF PathLaid
  <2>3. {m \in 2 .. Len(s) + 1 : m \in F[Len(p) + 1]} = {Len(s) + 1}
    BY <1>4, <2>1, Zenon
  <2> QED
    BY <2>2, <2>3, Zenon
<1>7. AtStop(ps, s, st, A, T, F, Len(p) + 1)
  BY <1>4, <1>5, <1>6, Zenon DEF AtStop
<1> QED
  BY <1>3, <1>7, Zenon DEF Known

(* And at each name, from what is known at the next.                        *)
LEMMA KnownStep ==
  ASSUME NEW C, NEW p, NEW q, NEW ps, NEW s, NEW t, NEW st, NEW A, NEW T, NEW F,
         Setting(C, p, q, ps, s, t, st, A, T, F), NEW n \in 1 .. Len(p),
         Known(p, ps, s, st, A, T, F, n + 1)
  PROVE  Known(p, ps, s, st, A, T, F, n)
<1>1. /\ Len(p) \in Nat /\ n >= 1 /\ n <= Len(p) /\ n + 1 >= 2
      /\ (n >= 2 => n \in 2 .. Len(p))
      /\ (n # Len(p) => n + 1 <= Len(p) /\ n \in 1 .. Len(p) - 1)
      /\ (n # Len(p) /\ n >= 2 => n \in 2 .. Len(p) - 1)
  <2>1. p \in Seq(Seq(C))
    BY Zenon DEF Setting
  <2> QED
    BY <2>1
<1>2. AtStop(ps, s, st, A, T, F, n + 1)
  BY <1>1, Zenon DEF Known
<1>3. CASE p[n] # Stars
  <2>1. F[n] \subseteq 1 .. Len(s)
    <3>1. F[n] = {j \in 1 .. Len(s) : FitsName(p[n], s[j]) /\ j + 1 \in F[n + 1]}
      BY <1>3, Zenon DEF Setting, FitRows, Stars
    <3> QED
      BY <3>1
  <2>2. AtName(p, ps, s, st, A, T, F, n)
    BY <1>2, <1>3, NameStep
  <2>3. n >= 2 => AtStop(ps, s, st, A, T, F, n)
    BY <1>1, <1>3, <2>1, <2>2, NameStop
  <2> QED
    BY <2>1, <2>2, <2>3, Zenon DEF Known
<1>4. CASE p[n] = Stars /\ n # Len(p)
  <2>1. F[n + 1] \subseteq 1 .. Len(s) /\ AtName(p, ps, s, st, A, T, F, n + 1)
    BY <1>1, <1>4, Zenon DEF Known
  <2>2. /\ AtName(p, ps, s, st, A, T, F, n) /\ F[n] \subseteq 1 .. Len(s)
        /\ DeepFits(p, s, F, n)
    BY <1>1, <1>4, <2>1, DeepStep
  <2>3. n >= 2 => AtStop(ps, s, st, A, T, F, n)
    BY <1>1, <1>4, <2>1, <2>2, DeepStop
  <2> QED
    BY <2>2, <2>3, Zenon DEF Known
<1>5. CASE p[n] = Stars /\ n = Len(p)
  <2>1. F[n] = 1 .. Len(s)
    <3>1. Len(p) >= 1
      BY <1>1, <1>5
    <3> QED
      BY <1>5, <3>1, Zenon DEF Setting, FitRows, Stars
  <2>2. AtName(p, ps, s, st, A, T, F, n)
    BY <1>5, LastStep
  <2>3. n >= 2 => AtStop(ps, s, st, A, T, F, n)
    BY <1>1, <1>5, <2>1, LastStop
  <2>4. F[n] \subseteq 1 .. Len(s)
    BY <2>1
  <2> QED
    BY <2>2, <2>3, <2>4, Zenon DEF Known
<1> QED
  BY <1>3, <1>4, <1>5

(* So at the first one.                                                     *)
LEMMA KnownFirst ==
  ASSUME NEW C, NEW p, NEW q, NEW ps, NEW s, NEW t, NEW st, NEW A, NEW T, NEW F,
         Setting(C, p, q, ps, s, t, st, A, T, F)
  PROVE  Matches(Tokens(q), t) <=> Fits(p, s)
<1>1. p \in Seq(Seq(C)) /\ Len(p) \in Nat /\ Len(p) >= 1
  <2>1. p \in Seq(Seq(C)) /\ p # <<>>
    BY Zenon DEF Setting
  <2> QED
    BY <2>1
<1> DEFINE K(n) == Known(p, ps, s, st, A, T, F, n)
           S == {d \in Nat : d <= Len(p) => K(Len(p) + 1 - d)}
<1>2. K(Len(p) + 1)
  BY KnownLast
<1>3. ASSUME NEW n \in 1 .. Len(p), K(n + 1) PROVE K(n)
  BY <1>3, KnownStep
<1> HIDE DEF K
<1>4. 0 \in S
  <2>1. Len(p) + 1 - 0 = Len(p) + 1
    BY <1>1
  <2> QED
    BY <1>2, <2>1
<1>5. ASSUME NEW d \in Nat, d \in S PROVE d + 1 \in S
  <2> SUFFICES ASSUME d + 1 <= Len(p) PROVE K(Len(p) + 1 - (d + 1))
    OBVIOUS
  <2>1. Len(p) + 1 - (d + 1) \in 1 .. Len(p) /\ (Len(p) + 1 - (d + 1)) + 1 = Len(p) + 1 - d
    BY <1>1
  <2>2. K(Len(p) + 1 - d)
    BY <1>1, <1>5
  <2> QED
    BY <1>3, <2>1, <2>2
<1>6. Len(p) \in S
  <2> HIDE DEF S
  <2> QED
    BY <1>1, <1>4, <1>5, NatSetInduction
<1>7. K(1)
  <2>1. Len(p) + 1 - Len(p) = 1 /\ Len(p) <= Len(p)
    BY <1>1
  <2> QED
    BY <1>6, <2>1
<1>8. AtName(p, ps, s, st, A, T, F, 1)
  BY <1>1, <1>7, Zenon DEF K, Known
<1>9. ps[1] = 1 /\ 1 \in A
  BY Zenon DEF Setting, Laid, Spaced, Walk
<1>10. PathLaid(s, t, st)
  BY PathPlaces, Zenon DEF Setting
<1>11. st[1] = 1 /\ 1 \in 1 .. Len(s)
  <2>1. 1 \in 1 .. Len(s)
    BY <1>10 DEF PathLaid
  <2> QED
    BY <1>10, <2>1, Zenon DEF PathLaid
<1>12. 1 \in T[1] <=> Fitted(p, s, F, 1, 1)
  BY <1>8, <1>9, <1>11, Zenon DEF AtName
<1>13. ~(1 = Len(p) /\ p[1] = Stars)
  <2> SUFFICES ASSUME 1 = Len(p), p[1] = Stars PROVE FALSE
    OBVIOUS
  <2>1. p = <<Stars>>
    <3>1. PICK one : one = Stars
      OBVIOUS
    <3>2. p = <<one>>
      BY <1>1, <3>1
    <3> QED
      BY <3>1, <3>2
  <2> QED
    BY <2>1, Zenon DEF Setting
<1>14. Fitted(p, s, F, 1, 1) <=> 1 \in F[1]
  BY <1>13, Zenon DEF Fitted
<1>15. (Matches(Tokens(q), t) <=> 1 \in T[1]) /\ (Fits(p, s) <=> 1 \in F[1])
  BY Zenon DEF Setting, Walk, FitRows
<1> QED
  BY <1>12, <1>14, <1>15, Zenon

(* The convention: an ant pattern, joined by slashes and cut into tokens by *)
(* _ANT_RE, matches a joined path exactly if its names fit those of the     *)
(* path, ** any number of directories, * any part of a name                 *)
(* (ant_pattern_to_re).                                                     *)
THEOREM ConventionHolds ==
  ASSUME NEW p, IsPattern(p), NEW names, IsPath(names)
  PROVE  Matches(Tokens(Joined(p)), Joined(names)) <=> Fits(p, names)
<1> DEFINE C == (UNION {Range(w) : w \in Range(p) \cup Range(names)}) \cup {"/", "*"}
<1>1. /\ p \in Seq(Range(p)) /\ p # <<>> /\ p # <<Stars>>
      /\ \A w \in Range(p) : w = Stars \/ Plain(w) \/ Starred(w)
  BY Zenon DEF IsPattern, Stars
<1>2. /\ names \in Seq(Range(names)) /\ names # <<>>
      /\ \A w \in Range(names) : w \in Seq(Range(w) \ {"/"})
  BY Zenon DEF IsPath
<1>3. "/" \in C /\ "*" \in C /\ \A w \in Range(p) \cup Range(names) : Range(w) \subseteq C
  OBVIOUS
<1> HIDE DEF C
<1>4. \A w \in Range(p) : w \in Seq(C) /\ (w = Stars \/ PlainName(w) \/ StarName(w))
  <2> TAKE w \in Range(p)
  <2>1. CASE w = Stars
    <3>1. Stars \in Seq(C)
      BY <1>3 DEF Stars
    <3> QED
      BY <2>1, <3>1
  <2>2. CASE Plain(w)
    <3>1. w \in Seq(Range(w) \ {"*", "/"})
      BY <2>2, Zenon DEF Plain
    <3>2. PICK D : D = Range(w) /\ D \subseteq C
      BY <1>3
    <3>3. \A m \in 1 .. Len(w) : w[m] \in D \ {"*", "/"}
      BY <3>1, <3>2
    <3>4. w \in Seq(C)
      BY <3>1, <3>2
    <3> QED
      BY <3>3, <3>4 DEF PlainName
  <2>3. CASE Starred(w)
    <3>1. w \in Seq(Range(w)) /\ w # <<>> /\ Head(w) = "*" /\ Plain(Tail(w))
      BY <2>3, Zenon DEF Starred
    <3>2. PICK D : D = Range(w) /\ D \subseteq C
      BY <1>3
    <3>3. w \in Seq(D) /\ w \in Seq(C) /\ Len(w) >= 1 /\ w[1] = "*" /\ Len(w) \in Nat
      BY <3>1, <3>2
    <3>4. PICK r : r = Tail(w)
      OBVIOUS
    <3>5. r \in Seq(D) /\ Len(r) = Len(w) - 1 /\ \A m \in 1 .. Len(w) - 1 : r[m] = w[m + 1]
      BY <3>1, <3>3, <3>4
    <3>6. PICK E : r \in Seq(E \ {"*", "/"})
      BY <3>1, <3>4, Zenon DEF Plain
    <3>7. \A m \in 2 .. Len(w) : w[m] \notin {"*", "/"}
      <4> TAKE m \in 2 .. Len(w)
      <4>1. m - 1 \in 1 .. Len(r) /\ m - 1 \in 1 .. Len(w) - 1 /\ (m - 1) + 1 = m
        BY <3>3, <3>5
      <4>2. r[m - 1] \in E \ {"*", "/"}
        BY <3>6, <4>1
      <4>3. r[m - 1] = w[m]
        BY <3>5, <4>1
      <4> QED
        BY <4>2, <4>3
    <3> QED
      BY <3>3, <3>7 DEF StarName
  <2> QED
    BY <1>1, <2>1, <2>2, <2>3
<1>5. p \in Seq(Seq(C)) /\ \A n \in 1 .. Len(p) : p[n] = Stars \/ PlainName(p[n]) \/ StarName(p[n])
  <2>1. PICK D : D = Range(p)
    OBVIOUS
  <2>2. p \in Seq(D) /\ \A w \in D : w \in Seq(C) /\ (w = Stars \/ PlainName(w) \/ StarName(w))
    BY <1>1, <1>4, <2>1
  <2>3. \A n \in 1 .. Len(p) : p[n] \in D
    BY <2>2
  <2>4. D \subseteq Seq(C)
    BY <2>2
  <2>5. p \in Seq(Seq(C))
    BY <2>2, <2>4
  <2> QED
    BY <2>2, <2>3, <2>5, Zenon
<1>6. names \in Seq(Seq(C)) /\ Whole(names)
  <2>1. \A w \in Range(names) : w \in Seq(C) /\ \A m \in 1 .. Len(w) : w[m] # "/"
    <3> TAKE w \in Range(names)
    <3>1. PICK D : D = Range(w) /\ D \subseteq C
      BY <1>3
    <3>2. w \in Seq(D \ {"/"})
      BY <1>2, <3>1
    <3> QED
      BY <3>1, <3>2
  <2>2. PICK D : D = Range(names)
    OBVIOUS
  <2>3. names \in Seq(D) /\ \A w \in D : w \in Seq(C) /\ \A m \in 1 .. Len(w) : w[m] # "/"
    BY <1>2, <2>1, <2>2
  <2>4. \A n \in 1 .. Len(names) : names[n] \in D
    BY <2>3
  <2>5. D \subseteq Seq(C)
    BY <2>3
  <2>6. names \in Seq(Seq(C))
    BY <2>3, <2>5
  <2> QED
    BY <2>3, <2>4, <2>6, Zenon DEF Whole
<1>7. PICK q \in Seq(C) : q = Joined(p)
  BY <1>1, <1>3, <1>5, JoinedIs
<1>8. PICK ps : Laid(p, q, ps)
  BY <1>1, <1>3, <1>5, <1>7, JoinedIs
<1>9. PICK t \in Seq(C) : t = Joined(names)
  BY <1>2, <1>3, <1>6, JoinedIs
<1>10. PICK st : Laid(names, t, st)
  BY <1>2, <1>3, <1>6, <1>9, JoinedIs
<1>11. PICK A, T : A \subseteq 1 .. Len(q) + 1 /\ Walk(q, t, A, T)
  BY PatternWalks
<1>12. PICK F : FitRows(p, names, F)
  <2>1. Len(p) \in Nat /\ Len(names) \in Nat
    BY <1>1, <1>2
  <2> QED
    BY <2>1, FitsIs
<1>13. Setting(C, p, q, ps, names, t, st, A, T, F)
  BY <1>1, <1>2, <1>5, <1>6, <1>8, <1>10, <1>11, <1>12, Zenon DEF Setting
<1> QED
  BY <1>7, <1>9, <1>13, KnownFirst

==============================================================================
