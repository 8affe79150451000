------------------------ MODULE ToolAgentLoopProofs ------------------------
(***************************************************************************)
(* Theorems about module ToolAgentLoop, for every number of conversations, *)
(* servers, turns and calls and every length.                              *)
(***************************************************************************)
EXTENDS ToolAgentLoop, FiniteSetTheorems, WellFoundedInduction, TLAPS

(* The inductive invariant of the text.  Behind the prompt, token, mask    *)
(* and log-prob of a position belong together;                             *)
Matches(token, m, p) ==
  IF token.by = "model" THEN m = 1 /\ p = token ELSE m = 0 /\ p = NoProb

Together(r) ==
  /\ Len(ids[r]) = PromptLen + Len(mask[r])
  /\ Len(probs[r]) = Len(mask[r])
  /\ \A i \in 1 .. PromptLen : ids[r][i] = Prompt[i]
  /\ \A i \in 1 .. Len(mask[r]) :
       Matches(ids[r][PromptLen + i], mask[r][i], probs[r][i])

(* The conjuncts of Aligned about one output.                              *)
AlignedOut(o) ==
  /\ o.prompt = Prompt
  /\ Len(o.ids) \in 1 .. ResponseLen
  /\ DOMAIN o.mask = DOMAIN o.ids /\ DOMAIN o.probs = DOMAIN o.ids
  /\ \A i \in DOMAIN o.ids : Matches(o.ids[i], o.mask[i], o.probs[i])

(* One conversation: turns are left while it goes on; before the prompt    *)
(* there is nothing, and there is an answer before tools and user have     *)
(* their turn; what it leaves is aligned.                                  *)
TalkInv(r) ==
  /\ ~Over(r) => assistant[r] < MaxAssistant
  /\ state[r] \in {"tools", "interacting"} => user[r] < MaxUser /\ Len(mask[r]) > 0
  /\ state[r] = "pending" => ids[r] = <<>> /\ mask[r] = <<>> /\ probs[r] = <<>>
  /\ state[r] # "pending" => Together(r)
  /\ state[r] = "done" => AlignedOut(out[r])

(* The heap counts the conversations of every server, and they are spread  *)
(* evenly.                                                                 *)
Of(s) == {r \in Talks : server[r] = s}
LoadInv ==
  /\ \A s \in Servers : load[s] = Cardinality(Of(s))
  /\ \A s, t \in Servers : load[s] <= load[t] + 1

IInv == TypeOK /\ LoadInv /\ \A r \in Talks : TalkInv(r)

-----------------------------------------------------------------------------

(* There is a server of least weight, and a first one among these.         *)
LEMMA RootLeast ==
  ASSUME load \in [Servers -> Nat]
  PROVE  Root \in Servers /\ \A t \in Servers : load[Root] <= load[t]
<1>1. \A T \in SUBSET Nat : T # {} => \E x \in T : \A y \in T : x <= y
  <2>. SUFFICES ASSUME NEW T \in SUBSET Nat, T # {}
                PROVE  \E x \in T : \A y \in T : x <= y
    OBVIOUS
  <2>. DEFINE Less == {ss \in Nat \X Nat : ss[1] < ss[2]}
  <2>1. IsWellFoundedOn(Less, Nat)
    BY NatLessThanWellFounded DEF OpToRel
  <2>2. PICK x \in T : \A y \in T : ~(<<y, x>> \in Less)
    BY <2>1, WFMin
  <2>3. ASSUME NEW y \in T PROVE x <= y
    <3>1. ~(y < x)
      BY <2>2
    <3>. QED  BY <3>1
  <2>. QED  BY <2>3
<1>. DEFINE Loads == {load[s] : s \in Servers}
<1>2. 1 \in Servers /\ Servers \subseteq Nat
  BY ToolAssumption DEF Servers
<1>3. PICK l \in Loads : \A m \in Loads : l <= m
  <2>1. Loads \in SUBSET Nat /\ Loads # {}
    BY <1>2
  <2>. HIDE DEF Loads
  <2>. QED  BY <1>1, <2>1
<1>. DEFINE Lightest == {s \in Servers : load[s] = l}
<1>4. PICK s \in Lightest : \A t \in Lightest : s <= t
  <2>1. Lightest \in SUBSET Nat /\ Lightest # {}
    BY <1>2, <1>3
  <2>. HIDE DEF Lightest
  <2>. QED  BY <1>1, <2>1
<1>5. \A t \in Servers : load[s] < load[t] \/ (load[s] = load[t] /\ s <= t)
  <2>. SUFFICES ASSUME NEW t \in Servers
                PROVE  load[s] < load[t] \/ (load[s] = load[t] /\ s <= t)
    OBVIOUS
  <2>1. load[s] = l /\ load[t] \in Loads /\ l <= load[t] /\ l \in Nat /\ load[t] \in Nat
    BY <1>3, <1>4
  <2>2. load[t] = l => s <= t
    BY <1>4
  <2>. QED  BY <2>1, <2>2
<1>6. Root \in Servers /\ \A t \in Servers :
        load[Root] < load[t] \/ (load[Root] = load[t] /\ Root <= t)
  BY <1>4, <1>5 DEF Root
<1>. QED
  <2>. SUFFICES ASSUME NEW t \in Servers PROVE load[Root] <= load[t]
    BY <1>6
  <2>. QED  BY <1>6

(* A new conversation on the root leaves the servers even.                 *)
LEMMA ChosenEven ==
  ASSUME TypeOK, LoadInv, NEW r \in Talks, server[r] = 0,
         server' = [server EXCEPT ![r] = Root],
         load' = [load EXCEPT ![Root] = @ + 1]
  PROVE  LoadInv'
<1>1. Root \in Servers /\ (\A t \in Servers : load[Root] <= load[t])
      /\ load \in [Servers -> Nat] /\ server \in [Talks -> {0} \cup Servers]
      /\ 0 \notin Servers
  BY RootLeast DEF TypeOK, Servers
<1>2. \A s \in Servers : load'[s] = IF s = Root THEN load[s] + 1 ELSE load[s]
  BY <1>1
<1>3. \A s, t \in Servers : load'[s] <= load'[t] + 1
  <2>. SUFFICES ASSUME NEW s \in Servers, NEW t \in Servers
                PROVE  load'[s] <= load'[t] + 1
    OBVIOUS
  <2>1. load[s] \in Nat /\ load[t] \in Nat /\ load[Root] \in Nat
    BY <1>1
  <2>2. load[s] <= load[t] + 1 /\ load[Root] <= load[t]
    BY <1>1 DEF LoadInv
  <2>. QED  BY <1>2, <2>1, <2>2
<1>4. ASSUME NEW s \in Servers PROVE load'[s] = Cardinality(Of(s)')
  <2>1. IsFiniteSet(Of(s))
    BY ToolAssumption, FS_Subset DEF Of
  <2>2. CASE s = Root
    <3>1. Of(s)' = Of(s) \cup {r} /\ r \notin Of(s)
      BY <1>1, <2>2 DEF Of
    <3>2. Cardinality(Of(s) \cup {r}) = Cardinality(Of(s)) + 1
      BY <2>1, <3>1, FS_AddElement
    <3>. QED  BY <1>2, <2>2, <3>1, <3>2 DEF LoadInv
  <2>3. CASE s # Root
    <3>1. Of(s)' = Of(s)
      BY <1>1, <2>3 DEF Of
    <3>. QED  BY <1>2, <2>3, <3>1 DEF LoadInv
  <2>. QED  BY <2>2, <2>3
<1>. QED  BY <1>3, <1>4 DEF LoadInv

LEMMA SameLoads ==
  ASSUME LoadInv, UNCHANGED manager
  PROVE  LoadInv'
BY DEF LoadInv, Of, manager

-----------------------------------------------------------------------------

(* n copies of x.                                                          *)
LEMMA TimesType ==
  ASSUME NEW S, NEW x \in S, NEW n \in Nat
  PROVE  /\ Times(n, x) \in Seq(S)
         /\ Len(Times(n, x)) = n
         /\ \A i \in 1 .. n : Times(n, x)[i] = x
<1>1. Times(n, x) \in [1 .. n -> S]
  BY DEF Times
<1>2. Times(n, x) \in Seq(S)
  BY <1>1
<1>3. Len(Times(n, x)) = n
  BY <1>2 DEF Times
<1>. QED  BY <1>2, <1>3 DEF Times

LEMMA ConcatType ==
  ASSUME NEW S, NEW s \in Seq(S), NEW t \in Seq(S)
  PROVE  /\ s \o t \in Seq(S)
         /\ Len(s \o t) = Len(s) + Len(t)
         /\ \A i \in 1 .. Len(s) : (s \o t)[i] = s[i]
         /\ \A i \in 1 .. Len(t) : (s \o t)[Len(s) + i] = t[i]
OBVIOUS

(* A sequence that grows by n copies of x.                                 *)
LEMMA GrowType ==
  ASSUME NEW S, NEW s \in Seq(S), NEW x \in S, NEW n \in Nat
  PROVE  /\ s \o Times(n, x) \in Seq(S) /\ Len(s \o Times(n, x)) = Len(s) + n
         /\ \A i \in 1 .. Len(s) : (s \o Times(n, x))[i] = s[i]
         /\ \A i \in 1 .. n : (s \o Times(n, x))[Len(s) + i] = x
<1>1. ASSUME NEW u \in Seq(S), Len(u) = n, \A i \in 1 .. n : u[i] = x
      PROVE  /\ s \o u \in Seq(S) /\ Len(s \o u) = Len(s) + n
             /\ \A i \in 1 .. Len(s) : (s \o u)[i] = s[i]
             /\ \A i \in 1 .. n : (s \o u)[Len(s) + i] = x
  BY <1>1
<1>2. /\ Times(n, x) \in Seq(S) /\ Len(Times(n, x)) = n
      /\ \A i \in 1 .. n : Times(n, x)[i] = x
  BY TimesType
<1>. QED  BY <1>1, <1>2

(* The first n elements of a sequence, its last n, all but its last n.     *)
LEMMA UpToType ==
  ASSUME NEW S, NEW s \in Seq(S), NEW n \in Nat
  PROVE  /\ UpTo(s, n) \in Seq(S)
         /\ Len(UpTo(s, n)) = IF Len(s) < n THEN Len(s) ELSE n
         /\ \A i \in 1 .. Len(UpTo(s, n)) : UpTo(s, n)[i] = s[i]
<1>1. Min({Len(s), n}) = IF Len(s) < n THEN Len(s) ELSE n
  BY DEF Min
<1>. DEFINE k == IF Len(s) < n THEN Len(s) ELSE n
<1>2. k \in 0 .. Len(s) /\ UpTo(s, n) = SubSeq(s, 1, k)
  <2>1. k \in 0 .. Len(s)
    OBVIOUS
  <2>2. Min({Len(s), n}) = k
    BY <1>1
  <2>. HIDE DEF k
  <2>. QED  BY <2>1, <2>2 DEF UpTo
<1>. HIDE DEF k
<1>3. /\ SubSeq(s, 1, k) \in Seq(S) /\ Len(SubSeq(s, 1, k)) = k
      /\ \A i \in 1 .. k : SubSeq(s, 1, k)[i] = s[i]
  BY <1>2
<1>. QED  BY <1>2, <1>3 DEF k

LEMMA LastOfType ==
  ASSUME NEW S, NEW s \in Seq(S), NEW n \in 1 .. Len(s)
  PROVE  /\ LastOf(s, n) \in Seq(S)
         /\ Len(LastOf(s, n)) = n
         /\ \A i \in 1 .. n : LastOf(s, n)[i] = s[Len(s) - n + i]
BY DEF LastOf

LEMMA AllButType ==
  ASSUME NEW S, NEW s \in Seq(S), NEW n \in 0 .. Len(s)
  PROVE  /\ AllBut(s, n) \in Seq(S)
         /\ Len(AllBut(s, n)) = Len(s) - n
         /\ \A i \in 1 .. Len(s) - n : AllBut(s, n)[i] = s[i]
BY DEF AllBut

LEMMA PromptType == Prompt \in Seq(Tokens) /\ Len(Prompt) = PromptLen /\ PromptLen \in Nat
<1>1. PromptLen \in Nat /\ [by |-> "prompt", turn |-> 0] \in Tokens
  BY ToolAssumption DEF Tokens
<1>. QED  BY <1>1, TimesType DEF Prompt

-----------------------------------------------------------------------------

TextTypes ==
  /\ ids \in [Talks -> Seq(Tokens)]
  /\ mask \in [Talks -> Seq({0, 1})]
  /\ probs \in [Talks -> Seq(Tokens)]

(* What is appended fits together as what was there does.                  *)
LEMMA AppendTogether ==
  ASSUME TextTypes, NEW r \in Talks, Together(r),
         NEW by \in {"model", "tool", "user"}, NEW turn \in Nat, NEW n \in Nat,
         Append3(r, by, turn, n)
  PROVE  /\ TextTypes' /\ Together(r)'
         /\ Len(mask'[r]) = Len(mask[r]) + n
         /\ \A q \in Talks \ {r} : ids'[q] = ids[q] /\ mask'[q] = mask[q]
                                                   /\ probs'[q] = probs[q]
<1>. DEFINE token == [by |-> by, turn |-> turn]
            bit == IF by = "model" THEN 1 ELSE 0
            prob == IF by = "model" THEN token ELSE NoProb
            toks == Times(n, token)
            bits == Times(n, bit)
            ps == Times(n, prob)
<1>1. token \in Tokens /\ bit \in {0, 1} /\ prob \in Tokens
  BY DEF Tokens, NoProb
<1>2. /\ ids' = [ids EXCEPT ![r] = @ \o toks]
      /\ mask' = [mask EXCEPT ![r] = @ \o bits]
      /\ probs' = [probs EXCEPT ![r] = @ \o ps]
  BY DEF Append3
<1>3. Matches(token, bit, prob)
  BY DEF Matches
<1>. HIDE DEF token, bit, prob
<1>. DEFINE Bits == {0, 1}
<1>4. bit \in Bits
  BY <1>1
<1>5. ids[r] \in Seq(Tokens) /\ mask[r] \in Seq(Bits) /\ probs[r] \in Seq(Tokens)
  BY DEF TextTypes
<1>6. /\ ids'[r] = ids[r] \o Times(n, token) /\ mask'[r] = mask[r] \o Times(n, bit)
      /\ probs'[r] = probs[r] \o Times(n, prob)
  BY <1>2 DEF TextTypes
<1>. HIDE DEF Bits
<1>7. /\ ids'[r] \in Seq(Tokens) /\ Len(ids'[r]) = Len(ids[r]) + n
      /\ \A i \in 1 .. Len(ids[r]) : ids'[r][i] = ids[r][i]
      /\ \A i \in 1 .. n : ids'[r][Len(ids[r]) + i] = token
      /\ mask'[r] \in Seq(Bits) /\ Len(mask'[r]) = Len(mask[r]) + n
      /\ \A i \in 1 .. Len(mask[r]) : mask'[r][i] = mask[r][i]
      /\ \A i \in 1 .. n : mask'[r][Len(mask[r]) + i] = bit
      /\ probs'[r] \in Seq(Tokens) /\ Len(probs'[r]) = Len(probs[r]) + n
      /\ \A i \in 1 .. Len(probs[r]) : probs'[r][i] = probs[r][i]
      /\ \A i \in 1 .. n : probs'[r][Len(probs[r]) + i] = prob
  <2>1. /\ ids'[r] \in Seq(Tokens) /\ Len(ids'[r]) = Len(ids[r]) + n
        /\ \A i \in 1 .. Len(ids[r]) : ids'[r][i] = ids[r][i]
        /\ \A i \in 1 .. n : ids'[r][Len(ids[r]) + i] = token
    <3>1. token \in Tokens /\ ids[r] \in Seq(Tokens) /\ ids'[r] = ids[r] \o Times(n, token)
      BY <1>1, <1>5, <1>6
    <3>. QED  BY <3>1, GrowType
  <2>2. /\ mask'[r] \in Seq(Bits) /\ Len(mask'[r]) = Len(mask[r]) + n
        /\ \A i \in 1 .. Len(mask[r]) : mask'[r][i] = mask[r][i]
        /\ \A i \in 1 .. n : mask'[r][Len(mask[r]) + i] = bit
    <3>1. bit \in Bits /\ mask[r] \in Seq(Bits) /\ mask'[r] = mask[r] \o Times(n, bit)
      BY <1>4, <1>5, <1>6
    <3>. QED  BY <3>1, GrowType
  <2>3. /\ probs'[r] \in Seq(Tokens) /\ Len(probs'[r]) = Len(probs[r]) + n
        /\ \A i \in 1 .. Len(probs[r]) : probs'[r][i] = probs[r][i]
        /\ \A i \in 1 .. n : probs'[r][Len(probs[r]) + i] = prob
    <3>1. prob \in Tokens /\ probs[r] \in Seq(Tokens) /\ probs'[r] = probs[r] \o Times(n, prob)
      BY <1>1, <1>5, <1>6
    <3>. QED  BY <3>1, GrowType
  <2>. QED  BY <2>1, <2>2, <2>3
<1>8. TextTypes'
  BY <1>2, <1>6, <1>7 DEF TextTypes, Bits
<1>9. Together(r)'
  <2>1. PromptLen \in Nat /\ Len(ids[r]) = PromptLen + Len(mask[r])
        /\ Len(probs[r]) = Len(mask[r])
    BY PromptType DEF Together
  <2>0. Len(mask[r]) \in Nat /\ Len(ids[r]) \in Nat /\ Len(mask'[r]) = Len(mask[r]) + n
    BY <1>5, <1>7
  <2>2. ASSUME NEW i \in 1 .. PromptLen PROVE ids'[r][i] = Prompt[i]
    <3>1. i \in 1 .. Len(ids[r])
      BY <2>0, <2>1
    <3>. QED  BY <1>7, <3>1 DEF Together
  <2>3. ASSUME NEW i \in 1 .. Len(mask'[r])
        PROVE  Matches(ids'[r][PromptLen + i], mask'[r][i], probs'[r][i])
    <3>1. CASE i \in 1 .. Len(mask[r])
      <4>1. PromptLen + i \in 1 .. Len(ids[r]) /\ i \in 1 .. Len(probs[r])
        BY <2>0, <2>1, <3>1
      <4>2. /\ ids'[r][PromptLen + i] = ids[r][PromptLen + i]
            /\ mask'[r][i] = mask[r][i] /\ probs'[r][i] = probs[r][i]
        BY <1>7, <3>1, <4>1
      <4>. QED  BY <3>1, <4>2 DEF Together
    <3>2. CASE i \notin 1 .. Len(mask[r])
      <4>. DEFINE j == i - Len(mask[r])
      <4>1. j \in 1 .. n /\ i = Len(mask[r]) + j /\ i = Len(probs[r]) + j
            /\ PromptLen + i = Len(ids[r]) + j
        <5>1. Len(mask[r]) \in Nat /\ i \in Int /\ i >= 1 /\ i <= Len(mask[r]) + n
          BY <2>0
        <5>2. i > Len(mask[r])
          BY <3>2, <5>1
        <5>3. j \in 1 .. n
          BY <5>1, <5>2
        <5>4. i = Len(mask[r]) + j
          BY <5>1
        <5>5. \A p, l, x \in Int : p + (l + x) = (p + l) + x
          OBVIOUS
        <5>. HIDE DEF j
        <5>6. PromptLen + (Len(mask[r]) + j) = (PromptLen + Len(mask[r])) + j
          BY <2>1, <5>1, <5>3, <5>5
        <5>. QED  BY <2>1, <5>3, <5>4, <5>6
      <4>. HIDE DEF j
      <4>2. mask'[r][i] = bit /\ probs'[r][i] = prob /\ ids'[r][PromptLen + i] = token
        BY <1>7, <4>1
      <4>. QED  BY <1>3, <4>2
    <3>. QED  BY <3>1, <3>2
  <2>4. Len(ids'[r]) = PromptLen + Len(mask'[r]) /\ Len(probs'[r]) = Len(mask'[r])
    BY <1>7, <2>0, <2>1
  <2>. QED  BY <2>2, <2>3, <2>4 DEF Together
<1>. QED  BY <1>2, <1>7, <1>8, <1>9 DEF TextTypes

(* What the conversations leave is all that Aligned is about.              *)
LEMMA AlignedIs == Aligned <=> \A r \in Talks : state[r] = "done" => AlignedOut(out[r])
BY DEF Aligned, AlignedOut, Matches

(* A conversation that ends with an answer yields an aligned output.       *)
LEMMA FinishAligned ==
  ASSUME NEW r \in Talks, TextTypes', Together(r)', Len(mask'[r]) > 0,
         state \in [Talks -> States], out \in [Talks -> Outputs],
         assistant'[r] \in Nat, user'[r] \in Nat, Finish(r)
  PROVE  /\ out' \in [Talks -> Outputs] /\ AlignedOut(out'[r])
         /\ \A q \in Talks \ {r} : out'[q] = out[q]
         /\ state' = [state EXCEPT ![r] = "done"]
<1>. DEFINE k == Len(mask'[r])
            cut == IF k < ResponseLen THEN k ELSE ResponseLen
            o == [prompt |-> AllBut(ids'[r], k),
                  ids |-> UpTo(LastOf(ids'[r], k), ResponseLen),
                  mask |-> UpTo(mask'[r], ResponseLen),
                  probs |-> UpTo(probs'[r], ResponseLen),
                  turns |-> assistant'[r] + user'[r] + 1]
<1>1. out' = [out EXCEPT ![r] = o] /\ state' = [state EXCEPT ![r] = "done"]
  BY DEF Finish, Goto
<1>2. ids'[r] \in Seq(Tokens) /\ mask'[r] \in Seq({0, 1}) /\ probs'[r] \in Seq(Tokens)
  BY DEF TextTypes
<1>3a. /\ k \in Nat /\ k > 0 /\ PromptLen \in Nat /\ ResponseLen \in Nat \ {0}
       /\ Len(ids'[r]) = PromptLen + k /\ Len(probs'[r]) = k
  BY <1>2, PromptType, ToolAssumption DEF Together
<1>. HIDE DEF k
<1>3. /\ k \in Nat /\ k > 0 /\ PromptLen \in Nat /\ ResponseLen \in Nat \ {0}
      /\ Len(ids'[r]) = PromptLen + k /\ Len(probs'[r]) = k
      /\ k \in 0 .. Len(ids'[r]) /\ k \in 1 .. Len(ids'[r])
      /\ Len(ids'[r]) - k = PromptLen
  BY <1>3a
<1>4. /\ AllBut(ids'[r], k) \in Seq(Tokens) /\ Len(AllBut(ids'[r], k)) = PromptLen
      /\ \A i \in 1 .. PromptLen : AllBut(ids'[r], k)[i] = ids'[r][i]
  BY <1>2, <1>3, AllButType
<1>5. AllBut(ids'[r], k) = Prompt
  <2>1. \A i \in 1 .. PromptLen : AllBut(ids'[r], k)[i] = Prompt[i]
    BY <1>4 DEF Together
  <2>. QED  BY <1>4, <2>1, PromptType
<1>6. /\ LastOf(ids'[r], k) \in Seq(Tokens) /\ Len(LastOf(ids'[r], k)) = k
      /\ \A i \in 1 .. k : LastOf(ids'[r], k)[i] = ids'[r][PromptLen + i]
  <2>1. /\ LastOf(ids'[r], k) \in Seq(Tokens) /\ Len(LastOf(ids'[r], k)) = k
        /\ \A i \in 1 .. k : LastOf(ids'[r], k)[i] = ids'[r][Len(ids'[r]) - k + i]
    <3>1. ids'[r] \in Seq(Tokens)
      BY <1>2
    <3>2. k \in 1 .. Len(ids'[r])
      BY <1>3
    <3>. QED  BY <3>1, <3>2, LastOfType
  <2>. QED  BY <1>3, <2>1
<1>7. cut \in 1 .. ResponseLen /\ cut <= k
  BY <1>3
<1>8. /\ o.ids \in Seq(Tokens) /\ Len(o.ids) = cut
      /\ \A i \in 1 .. cut : o.ids[i] = LastOf(ids'[r], k)[i]
  <2>. DEFINE last == LastOf(ids'[r], k)
  <2>1. last \in Seq(Tokens) /\ Len(last) = k /\ ResponseLen \in Nat
    BY <1>3, <1>6
  <2>2. o.ids = UpTo(last, ResponseLen)
    OBVIOUS
  <2>. HIDE DEF last, o
  <2>3. /\ UpTo(last, ResponseLen) \in Seq(Tokens) /\ Len(UpTo(last, ResponseLen)) = cut
        /\ \A i \in 1 .. Len(UpTo(last, ResponseLen)) : UpTo(last, ResponseLen)[i] = last[i]
    BY <2>1, UpToType
  <2>. QED  BY <2>2, <2>3 DEF last
<1>9. /\ o.mask \in Seq({0, 1}) /\ Len(o.mask) = cut
      /\ \A i \in 1 .. cut : o.mask[i] = mask'[r][i]
  <2>. DEFINE Bits == {0, 1}
  <2>1. Len(mask'[r]) = k /\ mask'[r] \in Seq(Bits) /\ ResponseLen \in Nat
    BY <1>2, <1>3 DEF k
  <2>. HIDE DEF Bits
  <2>2. /\ o.mask \in Seq(Bits) /\ Len(o.mask) = cut
        /\ \A i \in 1 .. Len(o.mask) : o.mask[i] = mask'[r][i]
    BY <2>1, UpToType
  <2>. QED  BY <2>2 DEF Bits
<1>10. /\ o.probs \in Seq(Tokens) /\ Len(o.probs) = cut
       /\ \A i \in 1 .. cut : o.probs[i] = probs'[r][i]
  <2>1. Len(probs'[r]) = k /\ probs'[r] \in Seq(Tokens) /\ ResponseLen \in Nat
    BY <1>2, <1>3
  <2>2. /\ o.probs \in Seq(Tokens) /\ Len(o.probs) = cut
        /\ \A i \in 1 .. Len(o.probs) : o.probs[i] = probs'[r][i]
    BY <2>1, UpToType
  <2>. QED  BY <2>2
<1>11. o.prompt = Prompt /\ o.turns \in Nat
  BY <1>5
<1>12. o = [prompt |-> o.prompt, ids |-> o.ids, mask |-> o.mask,
            probs |-> o.probs, turns |-> o.turns]
  OBVIOUS
<1>. HIDE DEF o, cut
<1>13. o \in Outputs
  BY <1>8, <1>9, <1>10, <1>11, <1>12, PromptType DEF Outputs
<1>14. ASSUME NEW i \in 1 .. cut PROVE Matches(o.ids[i], o.mask[i], o.probs[i])
  <2>1. i \in 1 .. k
    BY <1>3, <1>7
  <2>2. Matches(ids'[r][PromptLen + i], mask'[r][i], probs'[r][i])
    BY <2>1 DEF Together, k
  <2>. QED  BY <1>6, <1>8, <1>9, <1>10, <2>1, <2>2
<1>15. AlignedOut(o)
  BY <1>7, <1>8, <1>9, <1>10, <1>11, <1>14 DEF AlignedOut
<1>. QED  BY <1>1, <1>13, <1>15

-----------------------------------------------------------------------------

(* A step of one conversation leaves the others alone.                     *)
Untouched(q) ==
  /\ state'[q] = state[q] /\ ids'[q] = ids[q] /\ mask'[q] = mask[q]
  /\ probs'[q] = probs[q] /\ assistant'[q] = assistant[q] /\ user'[q] = user[q]
  /\ out'[q] = out[q]

LEMMA OneTalk ==
  ASSUME NEW r \in Talks, \A q \in Talks : TalkInv(q), TalkInv(r)',
         \A q \in Talks \ {r} : Untouched(q)
  PROVE  \A q \in Talks : TalkInv(q)'
<1>1. ASSUME NEW q \in Talks \ {r} PROVE TalkInv(q)'
  <2>1. Untouched(q) /\ TalkInv(q)
    BY <1>1
  <2>2. Over(q)' <=> Over(q)
    BY <2>1 DEF Untouched, Over
  <2>3. Together(q)' <=> Together(q)
    BY <2>1 DEF Untouched, Together
  <2>4. AlignedOut(out'[q]) <=> AlignedOut(out[q])
    BY <2>1 DEF Untouched
  <2>. QED  BY <2>1, <2>2, <2>3, <2>4 DEF TalkInv, Untouched
<1>. QED  BY <1>1

LEMMA PrepareInv ==
  ASSUME IInv, NEW r \in Talks, Prepare(r)
  PROVE  IInv'
<1>1. TypeOK'
  BY PromptType DEF IInv, TypeOK, Prepare, GoOn, Goto, States, manager, turns, tools
<1>2. LoadInv'
  BY SameLoads DEF IInv, Prepare
<1>3. Together(r)'
  <2>1. ids'[r] = Prompt /\ mask'[r] = <<>> /\ probs'[r] = <<>>
    BY DEF IInv, TypeOK, TalkInv, Prepare
  <2>. QED  BY <2>1, PromptType DEF Together
<1>4. TalkInv(r)' /\ \A q \in Talks \ {r} : Untouched(q)
  BY <1>3 DEF IInv, TypeOK, TalkInv, Prepare, GoOn, Goto, Untouched, Over, turns
<1>. QED  BY <1>1, <1>2, <1>4, OneTalk DEF IInv

LEMMA SendInv ==
  ASSUME IInv, NEW r \in Talks, Send(r)
  PROVE  IInv'
<1>1. load' \in [Servers -> Nat] /\ server' \in [Talks -> {0} \cup Servers] /\ LoadInv'
  <2>1. CASE Known(r)
    BY <2>1, SameLoads DEF IInv, TypeOK, Send, manager
  <2>2. CASE ~Known(r)
    <3>1. /\ server' = [server EXCEPT ![r] = Root] /\ server[r] = 0
          /\ load' = [load EXCEPT ![Root] = @ + 1]
      BY <2>2 DEF Send, Known
    <3>2. Root \in Servers /\ load[Root] \in Nat
      BY RootLeast DEF IInv, TypeOK
    <3>3. LoadInv'
      BY <3>1, ChosenEven DEF IInv
    <3>. QED  BY <3>1, <3>2, <3>3 DEF IInv, TypeOK
  <2>. QED  BY <2>1, <2>2
<1>2. TypeOK'
  BY <1>1 DEF IInv, TypeOK, Send, GoOn, Goto, States, text, turns, tools
<1>3. TalkInv(r)' /\ \A q \in Talks \ {r} : Untouched(q)
  BY DEF IInv, TypeOK, TalkInv, Send, GoOn, Goto, Untouched, Over, Together, text, turns
<1>. QED  BY <1>1, <1>2, <1>3, OneTalk DEF IInv

(* The calls of an answer, and one of them going on.                       *)
CallStates == {"made", "open", "over"}

LEMMA MadeType ==
  ASSUME NEW found \in 1 .. MaxCalls
  PROVE  Times(Made(found), "made") \in Seq(CallStates)
<1>1. Made(found) \in Nat
  BY ToolAssumption DEF Made, Min
<1>2. "made" \in CallStates
  BY DEF CallStates
<1>. QED  BY <1>1, <1>2, TimesType

LEMMA ExceptType ==
  ASSUME NEW S, NEW s \in Seq(S), NEW k \in DOMAIN s, NEW x \in S
  PROVE  [s EXCEPT ![k] = x] \in Seq(S)
OBVIOUS

(* A step that leaves the text alone, and may be an exception.             *)
LEMMA TextlessStep ==
  ASSUME IInv, NEW r \in Talks, state[r] # "pending",
         UNCHANGED <<interactive, manager, text, turns, out>>,
         calls' \in [Talks -> Seq(CallStates)],
         instances' \in [Talks -> SUBSET (1 .. MaxParallel)],
         state' = state \/ state' = [state EXCEPT ![r] = "raised"]
  PROVE  IInv'
<1>1. TypeOK'
  BY DEF IInv, TypeOK, States, CallStates, manager, text, turns
<1>2. LoadInv'
  BY SameLoads DEF IInv
<1>3. ASSUME NEW q \in Talks PROVE TalkInv(q)'
  <2>1. TalkInv(q) /\ (Together(q)' <=> Together(q))
    BY DEF IInv, Together, text
  <2>2. \/ state'[q] = state[q]
        \/ state'[q] = "raised" /\ state[q] # "pending"
    BY DEF IInv, TypeOK
  <2>. QED  BY <2>1, <2>2 DEF TalkInv, Over, text, turns
<1>. QED  BY <1>1, <1>2, <1>3 DEF IInv

LEMMA CallInv ==
  ASSUME IInv, NEW r \in Talks, NEW k \in 1 .. MaxParallel,
         OpenCall(r, k) \/ FailCall(r, k) \/ CloseCall(r, k) \/ RaiseCall(r, k)
  PROVE  IInv'
<1>1. /\ UNCHANGED <<interactive, manager, text, turns, out>>
      /\ state' = state \/ state' = [state EXCEPT ![r] = "raised"]
      /\ state[r] # "pending"
  BY DEF OpenCall, FailCall, CloseCall, RaiseCall, Calling, GoOn, Goto
<1>2. PICK x \in CallStates : calls' = [calls EXCEPT ![r][k] = x] /\ k \in DOMAIN calls[r]
  BY DEF OpenCall, FailCall, CloseCall, RaiseCall, CallStates
<1>3. calls \in [Talks -> Seq(CallStates)]
  BY DEF IInv, TypeOK, CallStates
<1>4. calls' \in [Talks -> Seq(CallStates)]
  <2>1. [calls[r] EXCEPT ![k] = x] \in Seq(CallStates)
    BY <1>2, <1>3, ExceptType
  <2>2. calls' = [calls EXCEPT ![r] = [calls[r] EXCEPT ![k] = x]]
    BY <1>2, <1>3
  <2>. QED  BY <1>3, <2>1, <2>2
<1>5. instances' \in [Talks -> SUBSET (1 .. MaxParallel)]
  <2>1. instances \in [Talks -> SUBSET (1 .. MaxParallel)]
    BY DEF IInv, TypeOK
  <2>2. \/ instances' = [instances EXCEPT ![r] = @ \cup {k}]
        \/ instances' = [instances EXCEPT ![r] = @ \ {k}]
        \/ instances' = instances
    BY DEF OpenCall, FailCall, CloseCall, RaiseCall
  <2>. QED  BY <2>1, <2>2
<1>. QED  BY <1>1, <1>4, <1>5, TextlessStep

LEMMA InteractRaisesInv ==
  ASSUME IInv, NEW r \in Talks, InteractRaises(r)
  PROVE  IInv'
<1>1. /\ calls' \in [Talks -> Seq(CallStates)]
      /\ instances' \in [Talks -> SUBSET (1 .. MaxParallel)]
  BY DEF InteractRaises, tools, IInv, TypeOK, CallStates
<1>2. /\ state[r] # "pending" /\ state' = [state EXCEPT ![r] = "raised"]
      /\ UNCHANGED <<interactive, manager, text, turns, out>>
  BY DEF InteractRaises, GoOn, Goto
<1>. QED  BY <1>1, <1>2, TextlessStep

(* A step that ends the conversation with an aligned output,               *)
LEMMA TalkOver ==
  ASSUME IInv, NEW r \in Talks, TextTypes', Together(r)',
         UNCHANGED <<interactive, manager, instances>>,
         calls' \in [Talks -> Seq(CallStates)],
         assistant' \in [Talks -> 0 .. MaxAssistant], user' \in [Talks -> 0 .. MaxUser],
         out' \in [Talks -> Outputs], AlignedOut(out'[r]),
         state' = [state EXCEPT ![r] = "done"],
         \A q \in Talks \ {r} :
           /\ ids'[q] = ids[q] /\ mask'[q] = mask[q] /\ probs'[q] = probs[q]
           /\ assistant'[q] = assistant[q] /\ user'[q] = user[q] /\ out'[q] = out[q]
  PROVE  IInv'
<1>1. state \in [Talks -> States] /\ "done" \in States
  BY DEF IInv, TypeOK, States
<1>2. TypeOK'
  BY <1>1 DEF IInv, TypeOK, CallStates, TextTypes, manager
<1>3. LoadInv'
  BY SameLoads DEF IInv
<1>4. TalkInv(r)'
  BY <1>1 DEF TalkInv, Over
<1>5. \A q \in Talks \ {r} : Untouched(q)
  BY <1>1 DEF Untouched
<1>. QED  BY <1>2, <1>3, <1>4, <1>5, OneTalk DEF IInv

(* and one that goes on with turns left.                                   *)
LEMMA TalkOn ==
  ASSUME IInv, NEW r \in Talks, TextTypes', Together(r)',
         UNCHANGED <<interactive, manager, instances, out>>,
         calls' \in [Talks -> Seq(CallStates)],
         assistant' \in [Talks -> 0 .. MaxAssistant], user' \in [Talks -> 0 .. MaxUser],
         assistant'[r] < MaxAssistant,
         NEW to \in {"generating", "tools", "interacting"},
         state' = [state EXCEPT ![r] = to],
         to # "generating" => user'[r] < MaxUser /\ Len(mask'[r]) > 0,
         \A q \in Talks \ {r} :
           /\ ids'[q] = ids[q] /\ mask'[q] = mask[q] /\ probs'[q] = probs[q]
           /\ assistant'[q] = assistant[q] /\ user'[q] = user[q]
  PROVE  IInv'
<1>1. state \in [Talks -> States] /\ to \in States
  BY DEF IInv, TypeOK, States
<1>2. TypeOK'
  BY <1>1 DEF IInv, TypeOK, CallStates, TextTypes, manager
<1>3. LoadInv'
  BY SameLoads DEF IInv
<1>4. TalkInv(r)'
  BY <1>1 DEF TalkInv, Over
<1>5. \A q \in Talks \ {r} : Untouched(q)
  BY <1>1 DEF Untouched
<1>. QED  BY <1>2, <1>3, <1>4, <1>5, OneTalk DEF IInv

LEMMA AnswerInv ==
  ASSUME IInv, NEW r \in Talks, Answer(r)
  PROVE  IInv'
<1>1. /\ state[r] = "waiting" /\ TextTypes /\ Together(r)
      /\ assistant \in [Talks -> 0 .. MaxAssistant] /\ assistant[r] < MaxAssistant
      /\ user \in [Talks -> 0 .. MaxUser]
      /\ MaxAssistant \in Nat /\ MaxUser \in Nat
  <2>1. TextTypes /\ state[r] = "waiting"
    BY DEF IInv, TypeOK, TextTypes, Answer
  <2>2. Together(r) /\ assistant[r] < MaxAssistant
    BY <2>1 DEF IInv, TalkInv, Over
  <2>. QED  BY <2>1, <2>2, ToolAssumption DEF IInv, TypeOK
<1>2. /\ assistant' = [assistant EXCEPT ![r] = @ + 1]
      /\ UNCHANGED <<interactive, manager, user, instances>>
  BY DEF Answer
<1>3. assistant' \in [Talks -> 0 .. MaxAssistant] /\ assistant'[r] = assistant[r] + 1
  BY <1>1, <1>2
<1>4. PICK n \in Nat \ {0} : Append3(r, "model", assistant'[r], n)
  BY DEF Answer
<1>5. /\ TextTypes' /\ Together(r)' /\ Len(mask'[r]) > 0
      /\ \A q \in Talks \ {r} : ids'[q] = ids[q] /\ mask'[q] = mask[q] /\ probs'[q] = probs[q]
  <2>1. assistant'[r] \in Nat /\ Len(mask[r]) \in Nat
    BY <1>1, <1>3 DEF TextTypes
  <2>2. /\ TextTypes' /\ Together(r)' /\ Len(mask'[r]) = Len(mask[r]) + n
        /\ \A q \in Talks \ {r} : ids'[q] = ids[q] /\ mask'[q] = mask[q]
                                                  /\ probs'[q] = probs[q]
    BY <1>1, <1>4, <2>1, AppendTogether
  <2>. QED  BY <2>1, <2>2
<1>6. \/ Finish(r) /\ UNCHANGED calls
      \/ /\ ~Terminates(r) /\ GoOn(r, "tools")
         /\ \E found \in 1 .. MaxCalls :
              calls' = [calls EXCEPT ![r] = Times(Made(found), "made")]
      \/ ~Terminates(r) /\ GoOn(r, "interacting") /\ UNCHANGED calls
  BY DEF Answer
<1>6a. /\ UNCHANGED <<interactive, manager, instances>>
       /\ user' \in [Talks -> 0 .. MaxUser]
       /\ \A q \in Talks \ {r} : assistant'[q] = assistant[q] /\ user'[q] = user[q]
  BY <1>1, <1>2
<1>7. calls' \in [Talks -> Seq(CallStates)]
  <2>1. calls \in [Talks -> Seq(CallStates)]
    BY DEF IInv, TypeOK, CallStates
  <2>. QED  BY <1>6, <2>1, MadeType
<1>8. CASE Finish(r)
  <2>1. /\ out' \in [Talks -> Outputs] /\ AlignedOut(out'[r])
        /\ \A q \in Talks \ {r} : out'[q] = out[q]
        /\ state' = [state EXCEPT ![r] = "done"]
    <3>1. /\ state \in [Talks -> States] /\ out \in [Talks -> Outputs]
          /\ assistant'[r] \in Nat /\ user'[r] \in Nat
      BY <1>1, <1>2, <1>3 DEF IInv, TypeOK
    <3>. QED  BY <1>5, <1>8, <3>1, FinishAligned
  <2>2. \A q \in Talks \ {r} :
          /\ ids'[q] = ids[q] /\ mask'[q] = mask[q] /\ probs'[q] = probs[q]
          /\ assistant'[q] = assistant[q] /\ user'[q] = user[q] /\ out'[q] = out[q]
    BY <1>5, <1>6a, <2>1
  <2>. QED  BY <1>3, <1>5, <1>6a, <1>7, <2>1, <2>2, TalkOver
<1>9. CASE ~Finish(r)
  <2>1. ~Terminates(r) /\ UNCHANGED out
    BY <1>6, <1>9 DEF GoOn
  <2>3. PICK to \in {"tools", "interacting"} : state' = [state EXCEPT ![r] = to]
    BY <1>6, <1>9 DEF GoOn, Goto
  <2>2. assistant'[r] < MaxAssistant /\ user'[r] < MaxUser
    BY <1>1, <1>2, <1>3, <2>1 DEF Terminates
  <2>4. \A q \in Talks \ {r} :
          /\ ids'[q] = ids[q] /\ mask'[q] = mask[q] /\ probs'[q] = probs[q]
          /\ assistant'[q] = assistant[q] /\ user'[q] = user[q]
    BY <1>5, <1>6a
  <2>. QED  BY <1>3, <1>5, <1>6a, <1>7, <2>1, <2>2, <2>3, <2>4, TalkOn
<1>. QED  BY <1>8, <1>9

LEMMA GatheredInv ==
  ASSUME IInv, NEW r \in Talks, Gathered(r)
  PROVE  IInv'
<1>1. /\ TextTypes /\ Together(r) /\ Len(mask[r]) \in Nat \ {0}
      /\ assistant \in [Talks -> 0 .. MaxAssistant] /\ assistant[r] < MaxAssistant
      /\ user \in [Talks -> 0 .. MaxUser] /\ user[r] < MaxUser
      /\ MaxAssistant \in Nat /\ MaxUser \in Nat
  <2>1. TextTypes /\ state[r] = "tools" /\ Len(mask[r]) \in Nat
    BY DEF IInv, TypeOK, TextTypes, Gathered
  <2>2. Together(r) /\ assistant[r] < MaxAssistant /\ user[r] < MaxUser /\ Len(mask[r]) > 0
    BY <2>1 DEF IInv, TalkInv, Over
  <2>. QED  BY <2>1, <2>2, ToolAssumption DEF IInv, TypeOK
<1>2. /\ UNCHANGED <<interactive, manager, assistant, instances>>
      /\ calls' = [calls EXCEPT ![r] = <<>>]
  BY DEF Gathered
<1>3. calls' \in [Talks -> Seq(CallStates)]
  BY <1>2 DEF IInv, TypeOK, CallStates
<1>4. CASE UNCHANGED <<text, user>> /\ GoOn(r, "raised")
  <2>1. instances' \in [Talks -> SUBSET (1 .. MaxParallel)]
    BY <1>2 DEF IInv, TypeOK
  <2>2. /\ state[r] # "pending" /\ state' = [state EXCEPT ![r] = "raised"]
        /\ UNCHANGED <<interactive, manager, text, turns, out>>
    BY <1>2, <1>4 DEF Gathered, GoOn, Goto, turns
  <2>. QED  BY <1>3, <2>1, <2>2, TextlessStep
<1>5. ASSUME NEW n \in 1 .. MaxAnswer, Fits(r, n),
             /\ Append3(r, "tool", user[r], n)
             /\ user' = [user EXCEPT ![r] = @ + 1]
             /\ GoOn(r, "generating")
      PROVE  IInv'
  <2>1. /\ Append3(r, "tool", user[r], n) /\ user' = [user EXCEPT ![r] = @ + 1]
        /\ state' = [state EXCEPT ![r] = "generating"] /\ UNCHANGED out
    BY <1>5 DEF GoOn, Goto
  <2>2. user[r] \in Nat /\ n \in Nat
    BY <1>1, ToolAssumption
  <2>3. /\ TextTypes' /\ Together(r)'
        /\ \A q \in Talks \ {r} : ids'[q] = ids[q] /\ mask'[q] = mask[q]
                                                  /\ probs'[q] = probs[q]
    BY <1>1, <2>1, <2>2, AppendTogether
  <2>4. /\ user' \in [Talks -> 0 .. MaxUser]
        /\ \A q \in Talks \ {r} : user'[q] = user[q]
    BY <1>1, <2>1
  <2>5. \A q \in Talks \ {r} :
          /\ ids'[q] = ids[q] /\ mask'[q] = mask[q] /\ probs'[q] = probs[q]
          /\ assistant'[q] = assistant[q] /\ user'[q] = user[q]
    BY <1>2, <2>3, <2>4
  <2>6. assistant' \in [Talks -> 0 .. MaxAssistant] /\ assistant'[r] < MaxAssistant
    BY <1>1, <1>2
  <2>. QED  BY <1>2, <1>3, <2>1, <2>3, <2>4, <2>5, <2>6, TalkOn
<1>6. CASE UNCHANGED <<text, user>> /\ Finish(r)
  <2>1. UNCHANGED <<text, user>> /\ Finish(r)
    BY <1>6
  <2>2. TextTypes' /\ Together(r)' /\ Len(mask'[r]) > 0
    <3>1. ids' = ids /\ mask' = mask /\ probs' = probs
      BY <2>1 DEF text
    <3>2. TextTypes' /\ Together(r)'
      BY <1>1, <3>1 DEF TextTypes, Together
    <3>3. Len(mask[r]) > 0
      BY <1>1
    <3>. QED  BY <3>1, <3>2, <3>3
  <2>3. /\ out' \in [Talks -> Outputs] /\ AlignedOut(out'[r])
        /\ \A q \in Talks \ {r} : out'[q] = out[q]
        /\ state' = [state EXCEPT ![r] = "done"]
    <3>1. /\ state \in [Talks -> States] /\ out \in [Talks -> Outputs]
          /\ assistant'[r] \in Nat /\ user'[r] \in Nat
      BY <1>1, <1>2, <2>1 DEF IInv, TypeOK
    <3>. QED  BY <2>1, <2>2, <3>1, FinishAligned
  <2>4. \A q \in Talks \ {r} :
          /\ ids'[q] = ids[q] /\ mask'[q] = mask[q] /\ probs'[q] = probs[q]
          /\ assistant'[q] = assistant[q] /\ user'[q] = user[q] /\ out'[q] = out[q]
    BY <1>2, <2>1, <2>3 DEF text
  <2>5. assistant' \in [Talks -> 0 .. MaxAssistant] /\ user' \in [Talks -> 0 .. MaxUser]
    BY <1>1, <1>2, <2>1
  <2>. QED  BY <1>2, <1>3, <2>2, <2>3, <2>4, <2>5, TalkOver
<1>. QED  BY <1>4, <1>5, <1>6 DEF Gathered

LEMMA InteractInv ==
  ASSUME IInv, NEW r \in Talks, Interact(r)
  PROVE  IInv'
<1>1. /\ TextTypes /\ Together(r) /\ Len(mask[r]) \in Nat \ {0}
      /\ assistant \in [Talks -> 0 .. MaxAssistant] /\ assistant[r] < MaxAssistant
      /\ user \in [Talks -> 0 .. MaxUser] /\ user[r] < MaxUser
      /\ MaxAssistant \in Nat /\ MaxUser \in Nat
  <2>1. TextTypes /\ state[r] = "interacting" /\ Len(mask[r]) \in Nat
    BY DEF IInv, TypeOK, TextTypes, Interact
  <2>2. Together(r) /\ assistant[r] < MaxAssistant /\ user[r] < MaxUser /\ Len(mask[r]) > 0
    BY <2>1 DEF IInv, TalkInv, Over
  <2>. QED  BY <2>1, <2>2, ToolAssumption DEF IInv, TypeOK
<1>2. /\ UNCHANGED <<interactive, manager, assistant, instances, calls>>
      /\ user' = [user EXCEPT ![r] = @ + 1]
      /\ Finish(r) \/ GoOn(r, "generating")
  BY DEF Interact, tools
<1>3. calls' \in [Talks -> Seq(CallStates)]
  BY <1>2 DEF IInv, TypeOK, CallStates
<1>4. PICK n \in 1 .. MaxAnswer : Append3(r, "user", user[r], n)
  BY DEF Interact
<1>5. /\ TextTypes' /\ Together(r)' /\ Len(mask'[r]) > 0
      /\ \A q \in Talks \ {r} : ids'[q] = ids[q] /\ mask'[q] = mask[q] /\ probs'[q] = probs[q]
  <2>1. user[r] \in Nat /\ n \in Nat
    BY <1>1, ToolAssumption
  <2>2. /\ TextTypes' /\ Together(r)' /\ Len(mask'[r]) = Len(mask[r]) + n
        /\ \A q \in Talks \ {r} : ids'[q] = ids[q] /\ mask'[q] = mask[q]
                                                  /\ probs'[q] = probs[q]
    BY <1>1, <1>4, <2>1, AppendTogether
  <2>. QED  BY <1>1, <2>1, <2>2
<1>6. /\ user' \in [Talks -> 0 .. MaxUser] /\ assistant' \in [Talks -> 0 .. MaxAssistant]
      /\ assistant'[r] < MaxAssistant
      /\ \A q \in Talks \ {r} : assistant'[q] = assistant[q] /\ user'[q] = user[q]
  BY <1>1, <1>2
<1>7. CASE Finish(r)
  <2>1. /\ out' \in [Talks -> Outputs] /\ AlignedOut(out'[r])
        /\ \A q \in Talks \ {r} : out'[q] = out[q]
        /\ state' = [state EXCEPT ![r] = "done"]
    <3>1. /\ state \in [Talks -> States] /\ out \in [Talks -> Outputs]
          /\ assistant'[r] \in Nat /\ user'[r] \in Nat
      BY <1>6 DEF IInv, TypeOK
    <3>. QED  BY <1>5, <1>7, <3>1, FinishAligned
  <2>2. \A q \in Talks \ {r} :
          /\ ids'[q] = ids[q] /\ mask'[q] = mask[q] /\ probs'[q] = probs[q]
          /\ assistant'[q] = assistant[q] /\ user'[q] = user[q] /\ out'[q] = out[q]
    BY <1>5, <1>6, <2>1
  <2>. QED  BY <1>2, <1>3, <1>5, <1>6, <2>1, <2>2, TalkOver
<1>8. CASE GoOn(r, "generating")
  <2>1. state' = [state EXCEPT ![r] = "generating"] /\ UNCHANGED out
    BY <1>8 DEF GoOn, Goto
  <2>2. \A q \in Talks \ {r} :
          /\ ids'[q] = ids[q] /\ mask'[q] = mask[q] /\ probs'[q] = probs[q]
          /\ assistant'[q] = assistant[q] /\ user'[q] = user[q]
    BY <1>5, <1>6
  <2>. QED  BY <1>2, <1>3, <1>5, <1>6, <2>1, <2>2, TalkOn
<1>. QED  BY <1>2, <1>7, <1>8

-----------------------------------------------------------------------------

LEMMA InitInv == Init => IInv
<1>. SUFFICES ASSUME Init PROVE IInv
  OBVIOUS
<1>1. TypeOK
  <2>1. Nothing \in Outputs
    <3>1. <<>> \in Seq(Tokens) /\ <<>> \in Seq({0, 1})
      OBVIOUS
    <3>. QED  BY <3>1 DEF Nothing, Outputs
  <2>. QED  BY <2>1, ToolAssumption DEF Init, TypeOK, States
<1>2. LoadInv
  <2>1. \A s \in Servers : Of(s) = {}
    BY DEF Of, Servers, Init
  <2>2. Cardinality({}) = 0
    BY FS_EmptySet
  <2>3. \A s \in Servers : load[s] = 0
    BY DEF Init
  <2>4. \A s \in Servers : load[s] = Cardinality(Of(s))
    BY <2>1, <2>2, <2>3
  <2>5. \A s, t \in Servers : load[s] <= load[t] + 1
    <3>. SUFFICES ASSUME NEW s \in Servers, NEW t \in Servers PROVE load[s] <= load[t] + 1
      OBVIOUS
    <3>1. load[s] = 0 /\ load[t] = 0
      BY <2>3
    <3>. QED  BY <3>1
  <2>. QED  BY <2>4, <2>5 DEF LoadInv
<1>3. \A r \in Talks : TalkInv(r)
  BY ToolAssumption DEF Init, TalkInv, Over
<1>. QED  BY <1>1, <1>2, <1>3 DEF IInv

LEMMA NextInv == IInv /\ [Next]_vars => IInv'
<1>. SUFFICES ASSUME IInv, [Next]_vars PROVE IInv'
  OBVIOUS
<1>1. CASE UNCHANGED vars
  BY <1>1 DEF vars, IInv, TypeOK, LoadInv, Of, TalkInv, Over, Together, manager, text, turns, tools
<1>2. ASSUME NEW r \in Talks, Step(r) PROVE IInv'
  BY <1>2, PrepareInv, SendInv, AnswerInv, GatheredInv, InteractInv,
     InteractRaisesInv, CallInv
     DEF Step
<1>. QED  BY <1>1, <1>2 DEF Next, AllOver

LEMMA SpecInv == Spec => []IInv
BY InitInv, NextInv, PTL DEF Spec

(* The types, and with them the limits on turns (tool_agent_loop.py:148).  *)
THEOREM SpecTypeOK == Spec => []TypeOK
<1>1. IInv => TypeOK
  BY DEF IInv
<1>. QED  BY <1>1, SpecInv, PTL

(* agent_loop.py:320-330: the mask marks the model's tokens and only them. *)
THEOREM SpecAligned == Spec => []Aligned
<1>1. IInv => Aligned
  BY AlignedIs DEF IInv, TalkInv
<1>. QED  BY <1>1, SpecInv, PTL

(* agent_loop.rst:96: the conversations are spread evenly.                 *)
THEOREM SpecEvenSessions == Spec => []EvenSessions
<1>1. IInv => EvenSessions
  BY DEF IInv, LoadInv, Of, EvenSessions
<1>. QED  BY <1>1, SpecInv, PTL

-----------------------------------------------------------------------------

(* What the credit rests on in a conversation without a simulated user:    *)
(* there is room for a token of the model behind whatever was appended,    *)
(* the tools have their turn right behind the model, and a finished        *)
(* response ends with a token of the model.                                *)
EndsWithModel(s) == s[Len(s)] = 1

TailInv(r) ==
  ~interactive =>
    /\ state[r] # "interacting"
    /\ state[r] \in {"generating", "waiting", "tools"} => Len(mask[r]) < ResponseLen
    /\ state[r] = "tools" => EndsWithModel(mask[r])
    /\ state[r] = "done" => EndsWithModel(out[r].mask)

(* A score on the last token, written by the model, undiscounted and with  *)
(* no other reward and no values, is the advantage of every model token:   *)
(* from the last token on, walk carries it to the front unchanged.         *)
LEMMA GaeSpreads ==
  ASSUME NEW n \in Nat \ {0}, NEW m, DOMAIN m = 1 .. n, Len(m) = n, m[n] = 1,
         NEW reward, reward = [i \in 1 .. n |-> IF i = n THEN 1 ELSE 0],
         NEW value, value = [i \in 1 .. n |-> 0]
  PROVE  \A i \in 1 .. n : Gae(reward, value, m, 1, 1)[i] = 1
<1>. DEFINE body(f, t) ==
       IF t > n THEN [next |-> 0, last |-> 0]
       ELSE LET after == f[t + 1]
                delta == reward[t] + 1 * after.next - value[t]
            IN  IF m[t] = 1
                THEN [next |-> value[t], last |-> delta + 1 * 1 * after.last]
                ELSE after
     walk == CHOOSE f : f = [t \in 1 .. n + 1 |-> body(f, t)]
     W == [t \in 1 .. n + 1 |-> [next |-> 0, last |-> IF t > n THEN 0 ELSE 1]]
<1>1. Gae(reward, value, m, 1, 1) = [t \in 1 .. n |-> walk[t].last]
  BY DEF Gae
<1>2. W = [t \in 1 .. n + 1 |-> body(W, t)]
  <2>1. ASSUME NEW t \in 1 .. n + 1 PROVE W[t] = body(W, t)
    <3>1. CASE t > n
      BY <3>1
    <3>2. CASE t <= n
      <4>1. reward[t] = (IF t = n THEN 1 ELSE 0) /\ value[t] = 0 /\ t \in 1 .. n
        BY <3>2
      <4>2. t + 1 \in 1 .. n + 1 /\ (t + 1 > n <=> t = n)
        BY <3>2
      <4>3. W[t + 1] = [next |-> 0, last |-> IF t = n THEN 0 ELSE 1]
        BY <4>2
      <4>4. W[t] = [next |-> 0, last |-> 1]
        BY <3>2
      <4>5. CASE m[t] = 1
        BY <3>2, <4>1, <4>3, <4>4, <4>5
      <4>6. CASE m[t] # 1
        <5>1. t # n
          BY <4>6
        <5>. QED BY <3>2, <4>1, <4>3, <4>4, <4>6, <5>1
      <4>. QED  BY <4>5, <4>6
    <3>. QED  BY <3>1, <3>2
  <2>. HIDE DEF body
  <2>. QED  BY <2>1
<1>3. walk = [t \in 1 .. n + 1 |-> body(walk, t)]
  <2>. HIDE DEF W, body
  <2>. QED  BY <1>2
<1>4. \A t \in 1 .. n + 1 : walk[t] = body(walk, t)
  <2>. HIDE DEF walk, body
  <2>. QED  BY <1>3
<1>. DEFINE Wrong == {d \in Nat : d < n /\ walk[n - d] # [next |-> 0, last |-> 1]}
<1>5. Wrong = {}
  <2>. SUFFICES ASSUME Wrong # {} PROVE FALSE
    OBVIOUS
  <2>. HIDE DEF walk
  <2>. DEFINE Less == {ss \in Nat \X Nat : ss[1] < ss[2]}
  <2>1. IsWellFoundedOn(Less, Nat)
    BY NatLessThanWellFounded DEF OpToRel
  <2>2. PICK d \in Wrong : \A y \in Wrong : ~(<<y, d>> \in Less)
    <3>1. Wrong \in SUBSET Nat
      OBVIOUS
    <3>. HIDE DEF Wrong, Less
    <3>. QED  BY <2>1, <3>1, WFMin
  <2>3. d \in Nat /\ d < n /\ n - d \in 1 .. n /\ n - d \in 1 .. n + 1
        /\ walk[n - d] # [next |-> 0, last |-> 1]
    BY <2>2
  <2>3a. PICK t \in 1 .. n : t = n - d
    BY <2>3
  <2>4. reward[t] = (IF t = n THEN 1 ELSE 0) /\ value[t] = 0 /\ walk[t] = body(walk, t) /\ ~(t > n)
    <3>1. t \in 1 .. n + 1 /\ ~(t > n)
      OBVIOUS
    <3>2. walk[t] = body(walk, t)
      BY <1>4, <3>1
    <3>3. reward[t] = (IF t = n THEN 1 ELSE 0) /\ value[t] = 0
      OBVIOUS
    <3>. QED  BY <3>1, <3>2, <3>3
  <2>5. CASE d = 0
    <3>1. n + 1 \in 1 .. n + 1 /\ n + 1 > n /\ t = n
      BY <2>5, <2>3a
    <3>2. walk[n + 1] = [next |-> 0, last |-> 0]
      BY <1>4, <3>1
    <3>3. walk[t + 1] = [next |-> 0, last |-> 0] /\ reward[t] = 1 /\ m[t] = 1
      BY <3>1, <3>2, <2>4
    <3>. QED  BY <2>3, <2>4, <2>3a, <3>3
  <2>6. CASE d # 0
    <3>1. d - 1 \in Nat /\ d - 1 < n /\ n - (d - 1) = t + 1 /\ t # n
      BY <2>3, <2>6, <2>3a
    <3>2. d - 1 \notin Wrong
      <4>1. <<d - 1, d>> \in Less
        BY <2>3, <3>1
      <4>. HIDE DEF Wrong, Less
      <4>. QED  BY <2>2, <4>1
    <3>3. walk[t + 1] = [next |-> 0, last |-> 1] /\ reward[t] = 0
      BY <3>1, <3>2, <2>4
    <3>. QED  BY <2>3, <2>4, <2>3a, <3>3
  <2>. QED  BY <2>5, <2>6
<1>6. ASSUME NEW i \in 1 .. n PROVE walk[i].last = 1
  <2>. HIDE DEF walk
  <2>1. n - i \in Nat /\ n - i < n /\ n - (n - i) = i
    OBVIOUS
  <2>2. walk[i] = [next |-> 0, last |-> 1]
    BY <1>5, <2>1
  <2>. QED  BY <2>2
<1>. HIDE DEF walk
<1>. QED  BY <1>1, <1>6

LEMMA AppendOther ==
  ASSUME NEW q, NEW r \in Talks \ {q}, mask \in [Talks -> Seq({0, 1})],
         NEW by, NEW turn, NEW n, Append3(q, by, turn, n)
  PROVE  mask'[r] = mask[r]
<1>. DEFINE bits == Times(n, IF by = "model" THEN 1 ELSE 0)
<1>1. mask' = [mask EXCEPT ![q] = @ \o bits]
  BY DEF Append3
<1>. HIDE DEF bits
<1>. QED  BY <1>1

(* The mask that is left is the conversation's, cut to response_length.    *)
LEMMA FinishMask ==
  ASSUME NEW r \in Talks, TextTypes', out \in [Talks -> Outputs], Finish(r)
  PROVE  \E cut \in Nat :
           /\ cut = IF Len(mask'[r]) < ResponseLen THEN Len(mask'[r]) ELSE ResponseLen
           /\ Len(out'[r].mask) = cut
           /\ \A i \in 1 .. cut : out'[r].mask[i] = mask'[r][i]
<1>. DEFINE Bits == {0, 1}
<1>1. mask'[r] \in Seq(Bits) /\ ResponseLen \in Nat
  BY ToolAssumption DEF TextTypes
<1>2. out'[r].mask = UpTo(mask'[r], ResponseLen)
  BY DEF Finish
<1>. HIDE DEF Bits
<1>. QED  BY <1>1, <1>2, UpToType

(* An answer of the model is at the end of whatever is left behind it.     *)
LEMMA AnswerTail ==
  ASSUME IInv, NEW r \in Talks, Answer(r), TailInv(r)
  PROVE  TailInv(r)'
<1>. SUFFICES ASSUME ~interactive' PROVE TailInv(r)'
  BY DEF TailInv
<1>1. /\ ~interactive /\ state[r] = "waiting" /\ state \in [Talks -> States]
      /\ Len(mask[r]) \in Nat /\ Len(mask[r]) < ResponseLen /\ ResponseLen \in Nat
      /\ TextTypes /\ Together(r) /\ out \in [Talks -> Outputs]
  <2>1. ~interactive /\ state[r] = "waiting"
    BY DEF Answer
  <2>2. /\ state \in [Talks -> States] /\ TextTypes /\ out \in [Talks -> Outputs]
        /\ ResponseLen \in Nat
    BY ToolAssumption DEF IInv, TypeOK, TextTypes
  <2>3. Together(r) /\ Len(mask[r]) < ResponseLen
    BY <2>1 DEF IInv, TalkInv, TailInv
  <2>4. Len(mask[r]) \in Nat
    BY <2>2 DEF TextTypes
  <2>. QED  BY <2>1, <2>2, <2>3, <2>4
<1>2. PICK n \in Nat \ {0} : Append3(r, "model", assistant'[r], n)
  BY DEF Answer
<1>3. TextTypes' /\ Len(mask'[r]) = Len(mask[r]) + n
  <2>1. assistant'[r] \in Nat
    BY DEF IInv, TypeOK, Answer
  <2>2. n \in Nat
    OBVIOUS
  <2>. QED  BY <1>1, <1>2, <2>1, <2>2, AppendTogether
<1>4. \A i \in 1 .. n : mask'[r][Len(mask[r]) + i] = 1
  <2>. DEFINE Bits == {0, 1}
  <2>1. mask'[r] = mask[r] \o Times(n, 1) /\ mask[r] \in Seq(Bits) /\ 1 \in Bits /\ n \in Nat
    BY <1>1, <1>2 DEF Append3, TextTypes
  <2>. HIDE DEF Bits
  <2>2. \A i \in 1 .. n : (mask[r] \o Times(n, 1))[Len(mask[r]) + i] = 1
    BY <2>1, GrowType
  <2>. QED  BY <2>1, <2>2
<1>5. ASSUME NEW j \in Nat, j > Len(mask[r]), j <= Len(mask'[r]) PROVE mask'[r][j] = 1
  <2>1. PICK l \in Nat : l = Len(mask[r])
    BY <1>1
  <2>2. j - l \in 1 .. n /\ l + (j - l) = j
    BY <1>3, <1>5, <2>1
  <2>3. mask'[r][Len(mask[r]) + (j - l)] = 1
    BY <1>4, <2>2
  <2>. QED  BY <2>1, <2>2, <2>3
<1>6. \/ Finish(r)
      \/ ~Terminates(r) /\ GoOn(r, "tools")
  BY <1>1 DEF Answer
<1>7. CASE Finish(r)
  <2>1. state'[r] = "done"
    BY <1>1, <1>7 DEF Finish, Goto
  <2>2. PICK cut \in Nat :
          /\ cut = IF Len(mask'[r]) < ResponseLen THEN Len(mask'[r]) ELSE ResponseLen
          /\ Len(out'[r].mask) = cut
          /\ \A i \in 1 .. cut : out'[r].mask[i] = mask'[r][i]
    BY <1>1, <1>3, <1>7, FinishMask
  <2>3. cut \in 1 .. cut /\ cut > Len(mask[r]) /\ cut <= Len(mask'[r])
    BY <1>1, <1>3, <2>2
  <2>4. out'[r].mask[cut] = 1
    BY <1>5, <2>2, <2>3
  <2>. QED  BY <2>1, <2>2, <2>4 DEF TailInv, EndsWithModel
<1>8. CASE ~Terminates(r) /\ GoOn(r, "tools")
  <2>1. state'[r] = "tools" /\ Len(mask'[r]) < ResponseLen
    BY <1>1, <1>3, <1>8 DEF GoOn, Goto, Terminates
  <2>2. mask'[r][Len(mask'[r])] = 1
    BY <1>1, <1>3, <1>5
  <2>. QED  BY <2>1, <2>2 DEF TailInv, EndsWithModel
<1>. QED  BY <1>6, <1>7, <1>8

(* The tools' answers leave room for the model, or are not appended.       *)
LEMMA GatheredTail ==
  ASSUME IInv, NEW r \in Talks, Gathered(r), TailInv(r)
  PROVE  TailInv(r)'
<1>. SUFFICES ASSUME ~interactive' PROVE TailInv(r)'
  BY DEF TailInv
<1>1. /\ ~interactive /\ state[r] = "tools" /\ state \in [Talks -> States]
      /\ Len(mask[r]) \in Nat \ {0} /\ Len(mask[r]) < ResponseLen /\ ResponseLen \in Nat
      /\ TextTypes /\ Together(r) /\ out \in [Talks -> Outputs] /\ EndsWithModel(mask[r])
  <2>1. ~interactive /\ state[r] = "tools"
    BY DEF Gathered
  <2>2. TextTypes
    BY DEF IInv, TypeOK, TextTypes
  <2>3. Len(mask[r]) \in Nat /\ Len(mask[r]) > 0
    BY <2>1, <2>2 DEF IInv, TalkInv, TextTypes
  <2>. QED  BY <2>1, <2>2, <2>3, ToolAssumption DEF IInv, TypeOK, TalkInv, TailInv
<1>2. CASE GoOn(r, "raised")
  <2>1. state'[r] = "raised"
    BY <1>1, <1>2 DEF GoOn, Goto
  <2>. QED  BY <2>1 DEF TailInv
<1>3. ASSUME NEW n \in 1 .. MaxAnswer, Fits(r, n),
             Append3(r, "tool", user[r], n), GoOn(r, "generating")
      PROVE  TailInv(r)'
  <2>1. Append3(r, "tool", user[r], n) /\ state'[r] = "generating"
    BY <1>1, <1>3 DEF GoOn, Goto
  <2>2. user[r] \in Nat /\ n \in Nat
    BY ToolAssumption DEF IInv, TypeOK
  <2>3. Len(mask'[r]) = Len(mask[r]) + n
    BY <1>1, <2>1, <2>2, AppendTogether
  <2>. QED  BY <1>3, <2>1, <2>3 DEF TailInv, Fits
<1>4. CASE UNCHANGED <<text, user>> /\ Finish(r)
  <2>1. Finish(r) /\ mask' = mask /\ TextTypes' /\ state'[r] = "done"
    BY <1>1, <1>4 DEF text, TextTypes, Finish, Goto
  <2>2. PICK cut \in Nat :
          /\ cut = IF Len(mask'[r]) < ResponseLen THEN Len(mask'[r]) ELSE ResponseLen
          /\ Len(out'[r].mask) = cut
          /\ \A i \in 1 .. cut : out'[r].mask[i] = mask'[r][i]
    BY <1>1, <2>1, FinishMask
  <2>3. cut = Len(mask[r]) /\ cut \in 1 .. cut
    BY <1>1, <2>1, <2>2
  <2>4. out'[r].mask[cut] = 1
    BY <1>1, <2>1, <2>2, <2>3 DEF EndsWithModel
  <2>. QED  BY <2>1, <2>2, <2>4 DEF TailInv, EndsWithModel
<1>. QED  BY <1>2, <1>3, <1>4 DEF Gathered

LEMMA TailInit == Init => \A r \in Talks : TailInv(r)
BY DEF Init, TailInv

LEMMA TailNext ==
  IInv /\ (\A r \in Talks : TailInv(r)) /\ [Next]_vars => (\A r \in Talks : TailInv(r))'
<1>. SUFFICES ASSUME IInv, \A r \in Talks : TailInv(r), [Next]_vars, NEW r \in Talks
              PROVE  TailInv(r)'
  OBVIOUS
<1>1. CASE UNCHANGED vars
  BY <1>1 DEF vars, TailInv, text
<1>2. ASSUME NEW q \in Talks, Step(q) PROVE TailInv(r)'
  <2>1. CASE Answer(q) \/ Gathered(q)
    <3>1. CASE q = r
      BY <2>1, <3>1, AnswerTail, GatheredTail
    <3>2. CASE q # r
      <4>1. /\ mask'[r] = mask[r] /\ state'[r] = state[r] /\ out'[r] = out[r]
            /\ interactive' = interactive
        <5>1. /\ state \in [Talks -> States] /\ out \in [Talks -> Outputs]
              /\ mask \in [Talks -> Seq({0, 1})]
          BY DEF IInv, TypeOK
        <5>2. \/ mask' = mask
              \/ \E by, turn, n : Append3(q, by, turn, n)
          BY <2>1 DEF Answer, Gathered, text
        <5>3. Finish(q) \/ \E to \in States : GoOn(q, to)
          BY <2>1 DEF Answer, Gathered, States
        <5>4. mask'[r] = mask[r]
          BY <3>2, <5>1, <5>2, AppendOther
        <5>5. state'[r] = state[r] /\ out'[r] = out[r]
          BY <3>2, <5>1, <5>3 DEF Finish, GoOn, Goto
        <5>. QED  BY <2>1, <5>4, <5>5 DEF Answer, Gathered
      <4>. QED  BY <4>1 DEF TailInv
    <3>. QED  BY <3>1, <3>2
  <2>2. CASE Prepare(q)
    <3>1. /\ mask' = mask /\ out' = out /\ interactive' = interactive
          /\ state'[r] = IF q = r THEN "generating" ELSE state[r]
          /\ q = r => mask[r] = <<>> /\ state[r] = "pending"
      BY <2>2 DEF Prepare, GoOn, Goto, IInv, TypeOK, TalkInv
    <3>2. Len(<<>>) = 0 /\ ResponseLen > 0
      BY ToolAssumption
    <3>. QED  BY <3>1, <3>2 DEF TailInv
  <2>3. CASE Send(q)
    BY <2>3 DEF Send, GoOn, Goto, IInv, TypeOK, TailInv, text
  <2>4. CASE Interact(q) \/ InteractRaises(q)
    BY <2>4 DEF Interact, InteractRaises, TailInv
  <2>5. ASSUME NEW k \in 1 .. MaxParallel,
               OpenCall(q, k) \/ FailCall(q, k) \/ CloseCall(q, k) \/ RaiseCall(q, k)
        PROVE  TailInv(r)'
    <3>1. /\ UNCHANGED <<mask, out, interactive>>
          /\ state'[r] = state[r] \/ state'[r] = "raised"
      BY <2>5
         DEF OpenCall, FailCall, CloseCall, RaiseCall, GoOn, Goto, IInv, TypeOK, text
    <3>. QED  BY <3>1 DEF TailInv
  <2>. QED  BY <1>2, <2>1, <2>2, <2>3, <2>4, <2>5 DEF Step
<1>. QED  BY <1>1, <1>2 DEF Next, AllOver

(* agent_loop.rst:25: the score reaches every token of the model.          *)
THEOREM SpecToolsCredited == Spec => []ToolsCredited
<1>1. IInv /\ (\A r \in Talks : TailInv(r)) => ToolsCredited
  <2>. SUFFICES ASSUME IInv, \A r \in Talks : TailInv(r), NEW r \in Talks,
                       state[r] = "done", ~interactive
                PROVE  CreditedIn(r)
    BY DEF ToolsCredited
  <2>1. AlignedOut(out[r]) /\ EndsWithModel(out[r].mask) /\ out[r] \in Outputs
    BY DEF IInv, TypeOK, TalkInv, TailInv
  <2>2. PICK n \in Nat \ {0} : n = Len(out[r].ids)
    BY <2>1, ToolAssumption DEF AlignedOut
  <2>3. out[r].ids \in Seq(Tokens) /\ out[r].mask \in Seq({0, 1})
    BY <2>1 DEF Outputs
  <2>4. DOMAIN out[r].mask = 1 .. n /\ Len(out[r].mask) = n
    BY <2>1, <2>2, <2>3 DEF AlignedOut
  <2>5. out[r].mask[n] = 1
    BY <2>1, <2>4 DEF EndsWithModel
  <2>6. /\ Rewards(r) = [i \in 1 .. n |-> IF i = n THEN 1 ELSE 0]
        /\ Times(Len(out[r].ids), 0) = [i \in 1 .. n |-> 0]
    BY <2>2 DEF Rewards, Score, Times
  <2>7. \A i \in 1 .. n : Credit(r)[i] = 1
    <3>. DEFINE reward == Rewards(r)
                value == Times(Len(out[r].ids), 0)
                m == out[r].mask
    <3>1. Credit(r) = Gae(reward, value, m, 1, 1)
      BY DEF Credit
    <3>2. /\ DOMAIN m = 1 .. n /\ Len(m) = n /\ m[n] = 1
          /\ reward = [i \in 1 .. n |-> IF i = n THEN 1 ELSE 0]
          /\ value = [i \in 1 .. n |-> 0]
      BY <2>4, <2>5, <2>6
    <3>. HIDE DEF reward, value, m
    <3>3. \A i \in 1 .. n : Gae(reward, value, m, 1, 1)[i] = 1
      BY <3>2, GaeSpreads
    <3>. QED  BY <3>1, <3>3
  <2>8. \A i \in DOMAIN out[r].mask : Credit(r)[i] = 1
    BY <2>4, <2>7
  <2>. QED  BY <2>8 DEF CreditedIn, Score
<1>. QED  BY <1>1, TailInit, TailNext, SpecInv, PTL DEF Spec
=============================================================================
