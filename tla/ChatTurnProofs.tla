---------------------------- MODULE ChatTurnProofs ----------------------------
(***************************************************************************)
(* Proofs about ChatTurn and the conversations of ModelCall: whatever the    *)
(* context is cut to, whatever rounds, retries and a spent budget do to it,  *)
(* a request to the provider stays well formed; and the approval the person  *)
(* is shown is for what the bot prepared for that very message, last.        *)
(***************************************************************************)
EXTENDS ChatTurn, TLAPS

-----------------------------------------------------------------------------
(* Sequences of messages *)

LEMMA AppendAt ==
  ASSUME NEW S, NEW m \in Seq(S), NEW e \in S
  PROVE  /\ Append(m, e) \in Seq(S) /\ Len(Append(m, e)) = Len(m) + 1
         /\ \A i \in 1 .. Len(m) : Append(m, e)[i] = m[i]
         /\ Append(m, e)[Len(m) + 1] = e
OBVIOUS

LEMMA ConcatAt ==
  ASSUME NEW S, NEW m \in Seq(S), NEW t \in Seq(S)
  PROVE  /\ m \o t \in Seq(S) /\ Len(m \o t) = Len(m) + Len(t)
         /\ \A i \in 1 .. Len(m) : (m \o t)[i] = m[i]
         /\ \A i \in Len(m) + 1 .. Len(m) + Len(t) : (m \o t)[i] = t[i - Len(m)]
OBVIOUS

\* h followed by m from its s-th message on.
Cut(h, m, s) == h \o SubSeq(m, s, Len(m))

LEMMA CutAt ==
  ASSUME NEW S, NEW h \in Seq(S), NEW m \in Seq(S), NEW s \in 1 .. Len(m) + 1
  PROVE  /\ Cut(h, m, s) \in Seq(S) /\ Len(Cut(h, m, s)) = Len(h) + Len(m) - s + 1
         /\ \A i \in 1 .. Len(h) : Cut(h, m, s)[i] = h[i]
         /\ \A i \in Len(h) + 1 .. Len(h) + Len(m) - s + 1 :
               Cut(h, m, s)[i] = m[i - Len(h) + s - 1]
<1> DEFINE t == SubSeq(m, s, Len(m))
<1>1. t \in Seq(S) /\ Len(t) = Len(m) - s + 1 /\ \A i \in 1 .. Len(t) : t[i] = m[s + i - 1]
  OBVIOUS
<1> HIDE DEF t
<1>2. /\ h \o t \in Seq(S) /\ Len(h \o t) = Len(h) + Len(t)
      /\ \A i \in 1 .. Len(h) : (h \o t)[i] = h[i]
      /\ \A i \in Len(h) + 1 .. Len(h) + Len(t) : (h \o t)[i] = t[i - Len(h)]
  BY <1>1, ConcatAt
<1>3. Cut(h, m, s) = h \o t
  BY DEF Cut, t
<1> QED BY <1>1, <1>2, <1>3

-----------------------------------------------------------------------------
(* Requests the provider takes *)

\* A list that starts with the system prompt. The tool messages stand under their
\* calls; every call is answered, or is one of those still to be worked off, with
\* nothing but tool messages under it.
Headed(m) == m # <<>> /\ m[1] = Plain("system")
Placed(m) ==
    \A i \in DOMAIN m : IsTool(m, i) =>
        \E j \in 1 .. i - 1 :
            /\ m[i].answers \in m[j].calls
            /\ \A k \in j + 1 .. i - 1 : IsTool(m, k)
Answered(m, j, id) ==
    \E i \in j + 1 .. Len(m) :
        m[i].answers = id /\ \A k \in j + 1 .. i : IsTool(m, k)
Under(m, j) == \A k \in j + 1 .. Len(m) : IsTool(m, k)
Half(m, calls) ==
    /\ Headed(m) /\ Placed(m)
    /\ \A j \in DOMAIN m : \A id \in m[j].calls :
          \/ Answered(m, j, id)
          \/ Under(m, j) /\ \E i \in DOMAIN calls : calls[i] = id
    /\ \A i \in DOMAIN calls : \E j \in DOMAIN m : calls[i] \in m[j].calls /\ Under(m, j)
Good(m) == Headed(m) /\ Paired(m)

LEMMA PlainTyped ==
  /\ \A r \in Role : Plain(r) \in Message
  /\ \A id \in Nat, o \in Nat : ToolMessage(id, o) \in Message
  /\ \A ids \in SUBSET Nat : AssistantCalls(ids) \in Message
BY DEF Plain, ToolMessage, AssistantCalls, Message, Role

LEMMA NothingPending ==
  ASSUME NEW m \in Seq(Message) PROVE Half(m, <<>>) <=> Good(m)
<1>1. Paired(m) <=> /\ Placed(m)
                    /\ \A j \in DOMAIN m : \A id \in m[j].calls : Answered(m, j, id)
  BY DEF Paired, Placed, Answered
<1> QED BY <1>1 DEF Half, Good

\* What the compactions put in front of the messages they keep.
Prefix(h) ==
    /\ h \in Seq(Message) /\ Headed(h)
    /\ \A i \in DOMAIN h : h[i].role # "tool" /\ h[i].calls = {} /\ h[i].offer = NoAction

LEMMA PrefixIsGood == ASSUME NEW h, Prefix(h) PROVE Good(h)
BY DEF Prefix, Good, Paired, IsTool

LEMMA PromptIsGood ==
  ASSUME NEW n \in Nat PROVE Prefix(Prompt(n))
<1> DEFINE r(i) == IF i = 1 THEN "system" ELSE "user"
<1>1. \A i : Plain(r(i)) \in Message
  BY PlainTyped DEF Role
<1>2. Prompt(n) = [i \in 1 .. n + 2 |-> Plain(r(i))]
  BY DEF Prompt
<1>3. Prompt(n) \in Seq(Message)
  <2> HIDE DEF r
  <2>1. Prompt(n) \in [1 .. n + 2 -> Message]
    BY <1>1, <1>2
  <2> QED BY <2>1
<1>4. \A i \in DOMAIN Prompt(n) : Prompt(n)[i] = Plain(r(i))
  BY <1>2
<1>5. Prompt(n) # <<>> /\ Prompt(n)[1] = Plain("system")
  BY <1>2
<1> QED BY <1>3, <1>4, <1>5 DEF Prefix, Headed, Plain, NoAction

\* A cut keeps calls and answers together when it falls before a message that is no
\* tool message, or right behind the system prompt.
LEMMA CutIsGood ==
  ASSUME NEW m \in Seq(Message), Good(m), NEW h, Prefix(h),
         NEW s \in 2 .. Len(m) + 1, s = 2 \/ s = Len(m) + 1 \/ ~IsTool(m, s)
  PROVE  Good(Cut(h, m, s))
<1> DEFINE c == Cut(h, m, s)
<1>1. PICK L \in Nat, M \in Nat : L = Len(h) /\ M = Len(m) /\ L >= 1 /\ DOMAIN h = 1 .. L
  BY DEF Prefix, Headed
<1>2. PICK C \in Nat, d \in Int : C = Len(c) /\ C = M - d /\ s = L + 1 + d /\ DOMAIN c = 1 .. C
  <2>1. c \in Seq(Message) /\ Len(c) = L + M - s + 1
    BY <1>1, CutAt DEF Prefix
  <2> HIDE DEF c
  <2>2. /\ Len(c) \in Nat /\ s - L - 1 \in Int /\ DOMAIN c = 1 .. Len(c)
        /\ Len(c) = M - (s - L - 1) /\ s = L + 1 + (s - L - 1)
    BY <1>1, <2>1
  <2> QED BY <2>2
<1>3. \A i \in 1 .. L : c[i] = h[i]
  BY <1>1, CutAt DEF Prefix
<1>4. \A i \in L + 1 .. C : c[i] = m[i + d] /\ i + d \in s .. M
  <2>1. \A i \in Len(h) + 1 .. Len(h) + Len(m) - s + 1 : c[i] = m[i - Len(h) + s - 1]
    <3>1. h \in Seq(Message) /\ s \in 1 .. Len(m) + 1
      BY DEF Prefix
    <3> QED BY <3>1, CutAt
  <2> HIDE DEF c
  <2> TAKE i \in L + 1 .. C
  <2>2. C = L + M - s + 1 /\ i - L + s - 1 = i + d
    BY <1>1, <1>2
  <2> QED BY <1>1, <1>2, <2>1, <2>2
<1> HIDE DEF c
<1>5. Headed(c)
  BY <1>1, <1>2, <1>3, <1>4 DEF Prefix, Headed
<1>6. /\ \A i \in 1 .. L : ~IsTool(c, i) /\ c[i].calls = {}
      /\ \A i \in L + 1 .. C : IsTool(c, i) <=> IsTool(m, i + d)
  BY <1>1, <1>3, <1>4 DEF IsTool, Prefix
<1>7. \A p \in s .. M : p - d \in L + 1 .. C /\ c[p - d] = m[p]
  <2> TAKE p \in s .. M
  <2>1. p - d \in L + 1 .. C /\ (p - d) + d = p
    BY <1>1, <1>2
  <2> QED BY <1>4, <2>1
<1>8. /\ \A p \in 1 .. M : IsTool(m, p) =>
            \E j \in 1 .. p - 1 :
                m[p].answers \in m[j].calls /\ \A k \in j + 1 .. p - 1 : IsTool(m, k)
      /\ \A j \in 1 .. M : \A id \in m[j].calls :
            \E p \in j + 1 .. M :
                m[p].answers = id /\ \A k \in j + 1 .. p : IsTool(m, k)
      /\ m[1].calls = {}
  BY <1>1 DEF Good, Paired, Headed, Plain
<1>9. ASSUME NEW i \in 1 .. C, IsTool(c, i)
      PROVE  \E j \in 1 .. i - 1 :
                 /\ c[i].answers \in c[j].calls
                 /\ \A k \in j + 1 .. i - 1 : IsTool(c, k)
  <2>1. i \in L + 1 .. C
    BY <1>6, <1>9
  <2>2. PICK p \in s .. M : p = i + d /\ IsTool(m, p) /\ c[i] = m[p]
    BY <1>4, <1>6, <1>9, <2>1
  <2>3. PICK j \in 1 .. p - 1 :
               m[p].answers \in m[j].calls /\ \A k \in j + 1 .. p - 1 : IsTool(m, k)
    BY <1>8, <2>2
  <2>4. j # 1
    BY <1>8, <2>3
  <2>5. j < s => IsTool(m, s)
    BY <2>2, <2>3
  <2>6. j \in s .. M
    BY <1>1, <2>2, <2>3, <2>4, <2>5
  <2>7. PICK q \in L + 1 .. C : q = j - d /\ c[q] = m[j]
    BY <1>7, <2>6
  <2>8. q \in 1 .. i - 1
    BY <2>2, <2>3, <2>7
  <2>9. ASSUME NEW k \in q + 1 .. i - 1 PROVE IsTool(c, k)
    <3>1. k \in L + 1 .. C /\ k + d \in j + 1 .. p - 1
      BY <2>2, <2>7
    <3> QED BY <1>6, <2>3, <3>1
  <2> QED BY <2>2, <2>3, <2>7, <2>8, <2>9
<1>10. ASSUME NEW i \in 1 .. C, NEW id \in c[i].calls
       PROVE  \E q \in i + 1 .. C :
                 c[q].answers = id /\ \A k \in i + 1 .. q : IsTool(c, k)
  <2>1. i \in L + 1 .. C
    BY <1>6
  <2>2. PICK j \in s .. M : j = i + d /\ c[i] = m[j]
    BY <1>4, <2>1
  <2>3. PICK p \in j + 1 .. M :
               m[p].answers = id /\ \A k \in j + 1 .. p : IsTool(m, k)
    BY <1>8, <2>2
  <2>4. p \in s .. M
    BY <1>1, <2>2, <2>3
  <2>5. PICK q \in i + 1 .. C : q = p - d /\ c[q] = m[p]
    BY <1>7, <2>2, <2>3, <2>4
  <2>6. ASSUME NEW k \in i + 1 .. q PROVE IsTool(c, k)
    <3>1. k \in L + 1 .. C
      BY SMTT(30), <2>1, <2>5
    <3>2. k + d \in j + 1 .. p
      BY <2>1, <2>2, <2>5, <3>1
    <3> QED BY <1>6, <2>3, <3>1, <3>2
  <2> QED BY <2>3, <2>5, <2>6
<1> QED BY <1>2, <1>5, <1>9, <1>10 DEF Good, Paired, c

\* The offers of a list are of S and come in the order their actions were prepared.
Carries(m, S) ==
    /\ \A i \in DOMAIN m : m[i].offer # NoAction => m[i].offer \in S
    /\ \A i, j \in DOMAIN m : i < j /\ m[i].offer # NoAction /\ m[j].offer # NoAction
                                 => m[i].offer < m[j].offer

LEMMA PrefixCarries == ASSUME NEW h, Prefix(h), NEW S PROVE Carries(h, S)
BY DEF Prefix, Carries

LEMMA CutCarries ==
  ASSUME NEW m \in Seq(Message), NEW S, Carries(m, S), NEW h, Prefix(h),
         NEW s \in 1 .. Len(m) + 1
  PROVE  Carries(Cut(h, m, s), S)
<1> DEFINE c == Cut(h, m, s)
<1>1. PICK L \in Nat, C \in Nat : L = Len(h) /\ C = Len(c) /\ C = L + Len(m) - s + 1
                                  /\ DOMAIN c = 1 .. C
  <2>1. c \in Seq(Message) /\ Len(c) = Len(h) + Len(m) - s + 1
    BY CutAt DEF Prefix
  <2> HIDE DEF c
  <2>2. Len(c) \in Nat /\ DOMAIN c = 1 .. Len(c) /\ Len(h) \in Nat
    BY <2>1 DEF Prefix
  <2> QED BY <2>1, <2>2
<1>2. /\ \A i \in 1 .. L : c[i] = h[i]
      /\ \A i \in L + 1 .. C : c[i] = m[i - L + s - 1]
  <2>1. h \in Seq(Message) /\ s \in 1 .. Len(m) + 1
    BY DEF Prefix
  <2>2. \A i \in 1 .. Len(h) : c[i] = h[i]
    BY <2>1, CutAt
  <2>3. \A i \in Len(h) + 1 .. Len(h) + Len(m) - s + 1 : c[i] = m[i - Len(h) + s - 1]
    BY <2>1, CutAt
  <2> HIDE DEF c
  <2> QED BY <1>1, <2>2, <2>3
<1> HIDE DEF c
<1>3. \A i \in 1 .. L : c[i].offer = NoAction
  <2>1. DOMAIN h = 1 .. L
    BY <1>1 DEF Prefix
  <2> QED BY <1>2, <2>1 DEF Prefix
<1>4. ASSUME NEW i \in DOMAIN c, c[i].offer # NoAction
      PROVE  i \in L + 1 .. C /\ i - L + s - 1 \in DOMAIN m
  <2>1. i \in L + 1 .. C
    BY <1>1, <1>3, <1>4
  <2>2. Len(m) \in Nat /\ DOMAIN m = 1 .. Len(m)
    OBVIOUS
  <2> QED BY <1>1, <2>1, <2>2
<1>5. ASSUME NEW i \in DOMAIN c, c[i].offer # NoAction PROVE c[i].offer \in S
  BY <1>2, <1>4, <1>5 DEF Carries
<1>6. ASSUME NEW i \in DOMAIN c, NEW j \in DOMAIN c, i < j,
             c[i].offer # NoAction, c[j].offer # NoAction
      PROVE  c[i].offer < c[j].offer
  <2>1. i - L + s - 1 < j - L + s - 1
    BY <1>1, <1>6
  <2>2. /\ i \in L + 1 .. C /\ i - L + s - 1 \in DOMAIN m
        /\ j \in L + 1 .. C /\ j - L + s - 1 \in DOMAIN m
    BY <1>4, <1>6
  <2>3. PICK p \in DOMAIN m, q \in DOMAIN m : c[i] = m[p] /\ c[j] = m[q] /\ p < q
    BY <1>2, <2>1, <2>2
  <2> QED BY <1>6, <2>3 DEF Carries
<1> QED BY <1>5, <1>6 DEF Carries, c

\* What a compaction makes of m may be sent where m may, and offers what m offers.
Keeps(c, m) ==
    c \in Seq(Message) /\ Good(c) /\ \A S : Carries(m, S) => Carries(c, S)

LEMMA CutKeeps ==
  ASSUME NEW m \in Seq(Message), Good(m), NEW h, Prefix(h),
         NEW s \in 2 .. Len(m) + 1, s = 2 \/ ~IsTool(m, s)
  PROVE  Keeps(Cut(h, m, s), m)
<1>1. Cut(h, m, s) \in Seq(Message)
  BY CutAt DEF Prefix
<1>2. Good(Cut(h, m, s))
  BY CutIsGood
<1>3. s \in 1 .. Len(m) + 1
  OBVIOUS
<1>4. \A S : Carries(m, S) => Carries(Cut(h, m, s), S)
  BY <1>3, CutCarries
<1> QED BY <1>1, <1>2, <1>4 DEF Keeps

LEMMA HeadIsPrefix ==
  ASSUME NEW m \in Seq(Message), Good(m)
  PROVE  Prefix(<<m[1]>>) /\ Prefix(<<m[1], Plain("user")>>)
<1>1. m[1] = Plain("system") /\ Plain("system") \in Message /\ Plain("user") \in Message
  BY PlainTyped DEF Good, Headed, Role
<1>2. \A r : Plain(r).role = r /\ Plain(r).calls = {} /\ Plain(r).offer = NoAction
  BY DEF Plain, NoAction
<1> HIDE DEF Plain
<1> QED BY <1>1, <1>2 DEF Prefix, Headed

LEMMA RecentStarts ==
  ASSUME NEW m \in Seq(Message), Good(m), NEW s \in RecentStart(m)
  PROVE  s \in 2 .. Len(m) + 1 /\ (s = 2 \/ ~IsTool(m, s))
<1>1. Len(m) \in Nat /\ Len(m) >= 1
  BY DEF Good, Headed
<1> DEFINE wanted == Len(m) - RecentMessages + 1
           from == IF wanted > 2 THEN wanted ELSE 2
<1>2. from \in Nat /\ from <= Len(m) + 1
  BY <1>1, ModelCallBounds
<1> QED BY <1>2 DEF RecentStart

LEMMA TruncatedKeeps ==
  ASSUME NEW m \in Seq(Message), Good(m), NEW c \in TruncateMessages(m)
  PROVE  Keeps(c, m)
<1>1. CASE c = <<m[1]>>
  <2>1. Prefix(c)
    BY <1>1, HeadIsPrefix
  <2> QED BY <2>1, PrefixIsGood, PrefixCarries DEF Keeps, Prefix
<1>2. CASE \E i \in CutPoints(m) : c = From(m, i)
  <2>1. PICK i \in CutPoints(m) : c = Cut(<<m[1]>>, m, i)
    BY <1>2 DEF From, Cut
  <2>2. PICK s \in RecentStart(m) : i \in DOMAIN m /\ (i = s \/ (i > s /\ ~IsTool(m, i)))
    BY DEF CutPoints
  <2>3. i \in 2 .. Len(m) + 1 /\ (i = 2 \/ ~IsTool(m, i))
    BY <2>2, RecentStarts
  <2> QED BY <2>1, <2>3, HeadIsPrefix, CutKeeps
<1> QED BY <1>1, <1>2 DEF TruncateMessages

LEMMA SummarisedKeeps ==
  ASSUME NEW m \in Seq(Message), Good(m), NEW c \in Summarised(m)
  PROVE  Keeps(c, m)
<1>1. PICK s \in RecentStart(m) : c = Cut(<<m[1], Plain("user")>>, m, s)
  BY DEF Summarised, Cut
<1> QED BY <1>1, RecentStarts, HeadIsPrefix, CutKeeps

\* Whatever a compaction cuts, wherever it falls: no tool message loses its call, no
\* call its answers, and no offer comes before one prepared earlier.
LEMMA CompactedKeeps ==
  ASSUME NEW m \in Seq(Message), Good(m), NEW c \in CompactMessages(m)
  PROVE  Keeps(c, m)
<1>1. CASE c \in Summarised(m)
  BY <1>1, SummarisedKeeps
<1>2. CASE c \in TruncateMessages(m)
  BY <1>2, TruncatedKeeps
<1>3. ASSUME NEW d \in Summarised(m), c \in TruncateMessages(d) PROVE Keeps(c, m)
  <2>1. Keeps(d, m)
    BY SummarisedKeeps
  <2>2. Keeps(c, d)
    BY <1>3, <2>1, TruncatedKeeps DEF Keeps
  <2> QED BY <2>1, <2>2 DEF Keeps
<1> QED BY <1>1, <1>2, <1>3 DEF CompactMessages

-----------------------------------------------------------------------------
(* A round of tool calls *)

CallsOf(ids) == AssistantCalls({ids[i] : i \in DOMAIN ids})

\* The answer of the model that makes the calls is appended.
LEMMA CallsAppended ==
  ASSUME NEW m \in Seq(Message), Good(m), NEW ids \in Seq(Nat)
  PROVE  /\ Append(m, CallsOf(ids)) \in Seq(Message) /\ Half(Append(m, CallsOf(ids)), ids)
         /\ \A S : Carries(m, S) => Carries(Append(m, CallsOf(ids)), S)
<1> DEFINE e == CallsOf(ids)
           a == Append(m, e)
<1>1. e \in Message
  BY PlainTyped DEF CallsOf
<1>2. e.role = "assistant" /\ e.calls = {ids[i] : i \in DOMAIN ids} /\ e.offer = NoAction
  BY DEF CallsOf, AssistantCalls, Plain, NoAction
<1>3. PICK L \in Nat \ {0} : L = Len(m) /\ DOMAIN m = 1 .. L
  BY DEF Good, Headed
<1>4. a \in Seq(Message) /\ Len(a) = L + 1 /\ DOMAIN a = 1 .. L + 1
      /\ (\A i \in 1 .. L : a[i] = m[i]) /\ a[L + 1] = e
  <2> HIDE DEF e
  <2>1. a \in Seq(Message) /\ Len(a) = L + 1
        /\ (\A i \in 1 .. L : a[i] = m[i]) /\ a[L + 1] = e
    BY <1>1, <1>3, AppendAt
  <2> HIDE DEF a
  <2> QED BY <2>1
<1> HIDE DEF a, e
<1>5. ~IsTool(a, L + 1) /\ \A i \in 1 .. L : IsTool(a, i) <=> IsTool(m, i)
  BY <1>2, <1>4 DEF IsTool
<1>6. Headed(a)
  BY <1>3, <1>4 DEF Good, Headed
<1>7. ASSUME NEW i \in 1 .. L, IsTool(a, i)
      PROVE  \E j \in 1 .. i - 1 :
                 a[i].answers \in a[j].calls /\ \A k \in j + 1 .. i - 1 : IsTool(a, k)
  <2>1. PICK j \in 1 .. i - 1 :
                 m[i].answers \in m[j].calls /\ \A k \in j + 1 .. i - 1 : IsTool(m, k)
    BY <1>3, <1>5, <1>7 DEF Good, Paired
  <2>2. j \in 1 .. L /\ \A k \in j + 1 .. i - 1 : k \in 1 .. L
    BY <2>1
  <2>3. a[i].answers \in a[j].calls
    BY <1>4, <2>1, <2>2
  <2>4. \A k \in j + 1 .. i - 1 : IsTool(a, k)
    BY <1>5, <2>1, <2>2
  <2> QED BY <2>1, <2>3, <2>4
<1>8. ASSUME NEW j \in 1 .. L, NEW id \in a[j].calls PROVE Answered(a, j, id)
  <2>1. PICK i \in j + 1 .. L : m[i].answers = id /\ \A k \in j + 1 .. i : IsTool(m, k)
    BY <1>3, <1>4 DEF Good, Paired
  <2> QED BY <1>4, <1>5, <2>1 DEF Answered
<1>9. Under(a, L + 1)
  BY <1>4 DEF Under
<1>10. Placed(a)
  <2>1. \A i \in DOMAIN a : IsTool(a, i) => i \in 1 .. L
    BY <1>4, <1>5
  <2> QED BY <1>7, <2>1 DEF Placed
<1>11. \A j \in DOMAIN a : \A id \in a[j].calls :
          Answered(a, j, id) \/ (Under(a, j) /\ \E i \in DOMAIN ids : ids[i] = id)
  BY <1>2, <1>4, <1>8, <1>9
<1>12. \A i \in DOMAIN ids : ids[i] \in a[L + 1].calls /\ Under(a, L + 1)
  BY <1>2, <1>4, <1>9
<1>13. Half(a, ids)
  BY <1>4, <1>6, <1>10, <1>11, <1>12 DEF Half
<1>14. ASSUME NEW S, Carries(m, S) PROVE Carries(a, S)
  <2>1. \A i \in DOMAIN a : a[i].offer # NoAction => i \in DOMAIN m /\ a[i] = m[i]
    BY <1>2, <1>3, <1>4
  <2> QED BY <1>14, <2>1 DEF Carries
<1> QED BY <1>4, <1>13, <1>14 DEF a, e

\* t answers some of the pending calls and leaves rest.
Answering(t, calls, rest) ==
    /\ \A i \in DOMAIN t : /\ t[i].role = "tool" /\ t[i].calls = {}
                           /\ \E p \in DOMAIN calls : t[i].answers = calls[p]
    /\ \A p \in DOMAIN rest : \E q \in DOMAIN calls : rest[p] = calls[q]
    /\ \A p \in DOMAIN calls : \/ \E i \in DOMAIN t : t[i].answers = calls[p]
                               \/ \E q \in DOMAIN rest : rest[q] = calls[p]

\* Each answer stands under its call, and what was answered stays so.
LEMMA AnswersAppended ==
  ASSUME NEW m \in Seq(Message), NEW calls, Half(m, calls), NEW t \in Seq(Message),
         NEW rest, Answering(t, calls, rest)
  PROVE  m \o t \in Seq(Message) /\ Half(m \o t, rest)
<1> DEFINE a == m \o t
<1>1. PICK L \in Nat \ {0}, N \in Nat :
         L = Len(m) /\ DOMAIN m = 1 .. L /\ N = Len(t) /\ DOMAIN t = 1 .. N
  BY DEF Half, Headed
<1>2. a \in Seq(Message) /\ Len(a) = L + N /\ DOMAIN a = 1 .. L + N
      /\ (\A i \in 1 .. L : a[i] = m[i]) /\ \A i \in L + 1 .. L + N : a[i] = t[i - L]
  <2>1. a \in Seq(Message) /\ Len(a) = L + N
        /\ (\A i \in 1 .. L : a[i] = m[i]) /\ \A i \in L + 1 .. L + N : a[i] = t[i - L]
    BY <1>1, ConcatAt
  <2> HIDE DEF a
  <2> QED BY <2>1
<1> HIDE DEF a
<1>3. \A i \in 1 .. L : IsTool(a, i) <=> IsTool(m, i)
  BY <1>2 DEF IsTool
<1>4. \A i \in L + 1 .. L + N :
         /\ IsTool(a, i) /\ a[i].calls = {}
         /\ \E p \in DOMAIN calls : a[i].answers = calls[p]
  <2> TAKE i \in L + 1 .. L + N
  <2>1. PICK k \in DOMAIN t : a[i] = t[k]
    <3>1. i - L \in 1 .. N
      OBVIOUS
    <3> QED BY <1>1, <1>2, <3>1
  <2> QED BY <2>1 DEF Answering, IsTool
<1>5. Headed(a)
  <2>1. a[1] = m[1] /\ a # <<>>
    BY <1>1, <1>2
  <2> QED BY <2>1 DEF Half, Headed
<1>6. ASSUME NEW j \in 1 .. L, Under(m, j) PROVE \A k \in j + 1 .. L + N : IsTool(a, k)
  <2> TAKE k \in j + 1 .. L + N
  <2>1. k \in 1 .. L => IsTool(m, k)
    BY <1>1, <1>6 DEF Under
  <2>2. k \in 1 .. L \/ k \in L + 1 .. L + N
    OBVIOUS
  <2> QED BY <1>3, <1>4, <2>1, <2>2
<1>7. \A p \in DOMAIN calls : \E j \in 1 .. L : calls[p] \in a[j].calls /\ Under(m, j)
  BY <1>1, <1>2 DEF Half
<1>8. ASSUME NEW i \in DOMAIN a, IsTool(a, i)
      PROVE  \E j \in 1 .. i - 1 :
                 a[i].answers \in a[j].calls /\ \A k \in j + 1 .. i - 1 : IsTool(a, k)
  <2>1. CASE i \in 1 .. L
    <3>1. PICK j \in 1 .. i - 1 :
                 m[i].answers \in m[j].calls /\ \A k \in j + 1 .. i - 1 : IsTool(m, k)
      BY <1>1, <1>3, <1>8, <2>1 DEF Half, Placed
    <3>2. j \in 1 .. L /\ \A k \in j + 1 .. i - 1 : k \in 1 .. L
      BY <2>1, <3>1
    <3>3. a[i].answers \in a[j].calls
      BY <1>2, <2>1, <3>1, <3>2
    <3>4. \A k \in j + 1 .. i - 1 : IsTool(a, k)
      BY <1>3, <3>1, <3>2
    <3> QED BY <3>1, <3>3, <3>4
  <2>2. CASE i \in L + 1 .. L + N
    <3>1. PICK p \in DOMAIN calls : a[i].answers = calls[p]
      BY <1>4, <2>2
    <3>2. PICK j \in 1 .. L : calls[p] \in a[j].calls /\ Under(m, j)
      BY <1>7
    <3>3. \A k \in j + 1 .. L + N : IsTool(a, k)
      BY <1>6, <3>2
    <3>4. j \in 1 .. i - 1 /\ \A k \in j + 1 .. i - 1 : k \in j + 1 .. L + N
      BY <2>2
    <3> QED BY <3>1, <3>2, <3>3, <3>4
  <2>3. i \in 1 .. L \/ i \in L + 1 .. L + N
    BY <1>2
  <2> QED BY <2>1, <2>2, <2>3
<1>9. ASSUME NEW j \in 1 .. L, Under(m, j) PROVE Under(a, j) /\ j \in DOMAIN a
  <2>1. \A k \in j + 1 .. L + N : IsTool(a, k)
    BY <1>6, <1>9
  <2> QED BY <1>2, <2>1 DEF Under
<1>10. ASSUME NEW j \in DOMAIN a, NEW id \in a[j].calls
       PROVE  Answered(a, j, id) \/ (Under(a, j) /\ \E i \in DOMAIN rest : rest[i] = id)
  <2>1. j \in 1 .. L /\ id \in m[j].calls
    <3>1. j \in 1 .. L \/ j \in L + 1 .. L + N
      BY <1>2
    <3> QED BY <1>2, <1>4, <3>1
  <2>2. CASE Answered(m, j, id)
    <3>1. PICK i \in j + 1 .. L : m[i].answers = id /\ \A k \in j + 1 .. i : IsTool(m, k)
      BY <1>1, <2>2 DEF Answered
    <3>2. i \in 1 .. L /\ i \in j + 1 .. Len(a) /\ \A k \in j + 1 .. i : k \in 1 .. L
      BY <1>2, <2>1, <3>1
    <3>3. a[i].answers = id /\ \A k \in j + 1 .. i : IsTool(a, k)
      BY <1>2, <1>3, <3>1, <3>2
    <3> QED BY <3>2, <3>3 DEF Answered
  <2>3. CASE Under(m, j) /\ \E p \in DOMAIN calls : calls[p] = id
    <3>1. Under(a, j) /\ \A k \in j + 1 .. L + N : IsTool(a, k)
      BY <1>6, <1>9, <2>1, <2>3
    <3>2. CASE \E i \in DOMAIN t : t[i].answers = id
      <4>1. PICK i \in 1 .. N : t[i].answers = id
        BY <1>1, <3>2
      <4>2. PICK n \in L + 1 .. L + N : n - L = i
        BY <4>1
      <4>3. a[n].answers = id
        BY <1>2, <4>1, <4>2
      <4>4. n \in j + 1 .. Len(a) /\ \A k \in j + 1 .. n : k \in j + 1 .. L + N
        BY <1>2, <2>1
      <4> QED BY <3>1, <4>3, <4>4 DEF Answered
    <3>3. CASE \E q \in DOMAIN rest : rest[q] = id
      BY <3>1, <3>3
    <3> QED BY <2>3, <3>2, <3>3 DEF Answering
  <2> QED BY <1>1, <2>1, <2>2, <2>3 DEF Half
<1>11. ASSUME NEW p \in DOMAIN rest
       PROVE  \E j \in DOMAIN a : rest[p] \in a[j].calls /\ Under(a, j)
  <2>1. PICK q \in DOMAIN calls : rest[p] = calls[q]
    BY DEF Answering
  <2>2. PICK j \in 1 .. L : calls[q] \in a[j].calls /\ Under(m, j)
    BY <1>7
  <2> QED BY <1>9, <2>1, <2>2
<1>12. Placed(a)
  BY <1>8 DEF Placed
<1> QED BY <1>2, <1>5, <1>10, <1>11, <1>12 DEF Half, a

-----------------------------------------------------------------------------
(* A conversation *)

Conversation ==
    [pc : {"idle", "ready", "asked", "tools", "answered", "failed"},
     messages : Seq(Message), sent : Seq(Message), width : Nat, closing : BOOLEAN,
     executed : Nat, attempt : Nat, adjusted : BOOLEAN, calls : Seq(Nat), next : Nat]

\* The strengthening of RequestsArePaired: what will be sent is well formed, and so
\* is the caller's list until the budget is spent; while calls are worked off, it
\* is but for the calls left.
Sound(k) ==
    /\ k \in Conversation
    /\ k.pc \in {"ready", "asked"} => Good(k.sent) /\ (~k.closing => Good(k.messages))
    /\ k.pc = "tools" => ~k.closing /\ k.calls # <<>> /\ Half(k.messages, k.calls)

\* What both lists offer is of S.
Offering(k, S) == Carries(k.messages, S) /\ Carries(k.sent, S)

\* k is followed by q: sound, not over, and offering nothing more.
Follows(q, k) ==
    /\ Sound(q) /\ q.pc # "idle"
    /\ \A S : Offering(k, S) => Offering(q, S)

LEMMA EmptyCarries == \A S : Carries(<<>>, S)
BY DEF Carries

LEMMA NoConversationIsSound == Sound(NoConversation) /\ NoConversation.pc = "idle"
BY DEF NoConversation, Sound, Conversation

LEMMA StartedIsSound ==
  ASSUME NEW n \in Nat, NEW w \in Nat
  PROVE  /\ Sound(Started(n, w)) /\ Started(n, w).pc = "ready"
         /\ \A S : Offering(Started(n, w), S)
<1> DEFINE k == Started(n, w)
           p == Prompt(n)
<1>1. Prefix(p)
  BY PromptIsGood
<1>2. p \in Seq(Message) /\ Good(p) /\ \A S : Carries(p, S)
  BY <1>1, PrefixIsGood, PrefixCarries DEF Prefix
<1> HIDE DEF p
<1>3. NoConversation \in Conversation
  BY NoConversationIsSound DEF Sound
<1>4. k \in Conversation /\ k.pc = "ready" /\ k.messages = p /\ k.sent = p
  BY <1>2, <1>3 DEF Started, Conversation, p
<1> HIDE DEF k
<1> QED BY <1>2, <1>4 DEF Sound, Offering, k

LEMMA WithSentIs ==
  ASSUME NEW k \in Conversation, NEW m \in Seq(Message), NEW q, q = WithSent(k, m)
  PROVE  /\ q \in Conversation /\ q.pc = k.pc /\ q.sent = m /\ q.closing = k.closing
         /\ q.messages = IF k.closing THEN k.messages ELSE m
BY DEF WithSent, Conversation

\* A compacted list in the place of the one to be sent.
LEMMA WithSentFollows ==
  ASSUME NEW k, Sound(k), k.pc \in {"ready", "asked"},
         NEW m, m = k.sent \/ m \in CompactMessages(k.sent)
  PROVE  Follows(WithSent(k, m), k)
<1> DEFINE q == WithSent(k, m)
<1>1. k \in Conversation /\ k.sent \in Seq(Message) /\ Good(k.sent)
  BY DEF Sound, Conversation
<1>2. Keeps(m, k.sent)
  BY <1>1, CompactedKeeps DEF Keeps
<1>3. m \in Seq(Message) /\ Good(m)
  BY <1>2 DEF Keeps
<1>4. /\ q \in Conversation /\ q.pc = k.pc /\ q.sent = m /\ q.closing = k.closing
      /\ q.messages = IF k.closing THEN k.messages ELSE m
  BY <1>1, <1>3, WithSentIs
<1> HIDE DEF q
<1>5. Sound(q) /\ q.pc # "idle"
  BY <1>3, <1>4 DEF Sound
<1>6. ASSUME NEW S, Offering(k, S) PROVE Offering(q, S)
  BY <1>2, <1>4, <1>6 DEF Keeps, Offering
<1> QED BY <1>5, <1>6 DEF Follows, q

LEMMA FollowsOn ==
  ASSUME NEW k, NEW p, NEW q, Follows(p, k), Follows(q, p) PROVE Follows(q, k)
BY DEF Follows

\* Another attempt at the same lists.
LEMMA RetryFollows ==
  ASSUME NEW k, Sound(k), k.pc \in {"ready", "asked"}, NEW q \in Conversation,
         q.pc \in {"ready", "asked"},
         q.sent = k.sent, q.messages = k.messages, q.closing = k.closing
  PROVE  Follows(q, k)
BY DEF Sound, Follows, Offering

LEMMA EndedFollows ==
  ASSUME NEW k, Sound(k), NEW pc \in {"answered", "failed"}
  PROVE  Follows(Ended(k, pc), k)
<1> DEFINE q == Ended(k, pc)
<1>1. /\ NoConversation \in Conversation /\ NoConversation.sent = <<>>
      /\ k.messages \in Seq(Message)
  BY NoConversationIsSound DEF Sound, Conversation, NoConversation
<1>2. q \in Conversation /\ q.pc = pc /\ q.messages = k.messages /\ q.sent = <<>>
  BY <1>1 DEF Ended, Conversation
<1> HIDE DEF q
<1> QED BY <1>1, <1>2, EmptyCarries DEF Follows, Sound, Offering, q

LEMMA AnswersCarry ==
  ASSUME NEW m \in Seq(Message), NEW t \in Seq(Message), NEW S, Carries(m, S),
         \A i \in DOMAIN t : t[i].offer = NoAction
  PROVE  Carries(m \o t, S)
<1> DEFINE a == m \o t
<1>1. PICK L \in Nat, N \in Nat :
         L = Len(m) /\ DOMAIN m = 1 .. L /\ N = Len(t) /\ DOMAIN t = 1 .. N
  OBVIOUS
<1>2. DOMAIN a = 1 .. L + N
      /\ (\A i \in 1 .. L : a[i] = m[i]) /\ \A i \in L + 1 .. L + N : a[i] = t[i - L]
  <2>1. a \in Seq(Message) /\ Len(a) = L + N
        /\ (\A i \in 1 .. L : a[i] = m[i]) /\ \A i \in L + 1 .. L + N : a[i] = t[i - L]
    BY <1>1, ConcatAt
  <2> HIDE DEF a
  <2> QED BY <2>1
<1> HIDE DEF a
<1>3. ASSUME NEW i \in DOMAIN a, a[i].offer # NoAction PROVE i \in DOMAIN m /\ a[i] = m[i]
  <2>1. i \notin 1 .. L => i \in L + 1 .. L + N /\ i - L \in 1 .. N
    BY <1>2
  <2> QED BY <1>1, <1>2, <1>3, <2>1
<1> QED BY <1>3 DEF Carries, a

\* The model answers with tool calls.
Ids(k, n) == [i \in 1 .. n |-> k.next + i - 1]
Skipped(ids) == [i \in DOMAIN ids |-> ToolMessage(ids[i], 0)]

LEMMA IdsTyped ==
  ASSUME NEW k \in Conversation, NEW n \in 1 .. k.width
  PROVE  /\ Ids(k, n) \in Seq(Nat) /\ Ids(k, n) # <<>> /\ DOMAIN Ids(k, n) = 1 .. n
         /\ n \in Nat
<1>1. k.next \in Nat /\ n \in Nat \ {0}
  BY DEF Conversation
<1>2. \A i \in 1 .. n : k.next + i - 1 \in Nat
  BY <1>1
<1>3. Ids(k, n) \in [1 .. n -> Nat]
  BY <1>2 DEF Ids
<1> QED BY <1>1, <1>3

LEMMA SkippedTyped ==
  ASSUME NEW ids \in Seq(Nat)
  PROVE  Skipped(ids) \in Seq(Message) /\ Answering(Skipped(ids), ids, <<>>)
         /\ \A i \in DOMAIN Skipped(ids) : Skipped(ids)[i].offer = NoAction
<1>1. \A i \in DOMAIN ids : Skipped(ids)[i] = ToolMessage(ids[i], 0) /\ ids[i] \in Nat
  BY DEF Skipped
<1>2. \A id, o : /\ ToolMessage(id, o).role = "tool" /\ ToolMessage(id, o).calls = {}
                 /\ ToolMessage(id, o).answers = id /\ ToolMessage(id, o).offer = o
  BY DEF ToolMessage
<1>3. DOMAIN Skipped(ids) = DOMAIN ids /\ DOMAIN ids = 1 .. Len(ids) /\ Len(ids) \in Nat
  BY DEF Skipped
<1>4. Skipped(ids) \in [1 .. Len(ids) -> Message]
  BY <1>1, <1>3, PlainTyped DEF Skipped
<1>5. Skipped(ids) \in Seq(Message)
  BY <1>3, <1>4
<1> QED BY <1>1, <1>2, <1>3, <1>5 DEF Answering, NoAction

\* The round that calls k makes, if answered is where they are made in it.
LEMMA RoundFollows ==
  ASSUME NEW k, Sound(k), Good(k.messages),
         NEW ids \in Seq(Nat), ids # <<>>,
         NEW answered \in Conversation, answered.messages = Append(k.messages, CallsOf(ids)),
         answered.sent = <<>>, answered.closing = FALSE
  PROVE  /\ Follows([Again([answered EXCEPT !.messages = @ \o Skipped(ids)])
                        EXCEPT !.closing = TRUE], k)
         /\ Follows([answered EXCEPT !.pc = "tools", !.calls = ids], k)
<1> DEFINE asked == Append(k.messages, CallsOf(ids))
           over == [answered EXCEPT !.messages = @ \o Skipped(ids)]
           last == [Again(over) EXCEPT !.closing = TRUE]
           more == [answered EXCEPT !.pc = "tools", !.calls = ids]
<1>1. /\ asked \in Seq(Message) /\ Half(asked, ids)
      /\ \A S : Carries(k.messages, S) => Carries(asked, S)
  BY CallsAppended DEF Sound, Conversation
<1>2. /\ asked \o Skipped(ids) \in Seq(Message) /\ Good(asked \o Skipped(ids))
      /\ \A S : Carries(asked, S) => Carries(asked \o Skipped(ids), S)
  BY <1>1, SkippedTyped, AnswersAppended, AnswersCarry, NothingPending
<1>3. answered.messages = asked
  OBVIOUS
<1> HIDE DEF asked
<1>4. more \in Conversation /\ more.pc = "tools" /\ more.messages = asked /\ more.sent = <<>>
      /\ more.calls = ids /\ more.closing = FALSE
  BY <1>3 DEF Conversation
<1>5. over \in Conversation /\ over.messages = asked \o Skipped(ids)
  BY <1>2, <1>3 DEF Conversation
<1> HIDE DEF over
<1>6. /\ last \in Conversation /\ last.pc = "ready" /\ last.closing = TRUE
      /\ last.messages = asked \o Skipped(ids) /\ last.sent = asked \o Skipped(ids)
  BY <1>2, <1>5 DEF Conversation, Again
<1> HIDE DEF last, more
<1>7. Follows(last, k)
  BY <1>1, <1>2, <1>6 DEF Follows, Sound, Offering
<1>8. Follows(more, k)
  BY <1>1, <1>4, EmptyCarries DEF Follows, Sound, Offering
<1> QED BY <1>7, <1>8 DEF over, last, more

LEMMA CallToolsFollows ==
  ASSUME NEW c \in Caller, Sound(conv[c]), CallTools(c)
  PROVE  \E q : SetConv(c, q) /\ Follows(q, conv[c])
<1> DEFINE k == conv[c]
<1>1. k \in Conversation /\ k.closing = FALSE /\ Good(k.messages)
      /\ k.messages \in Seq(Message) /\ k.next \in Nat
  BY DEF CallTools, Sound, Conversation
<1>2. PICK n \in 1 .. k.width, timedOut \in BOOLEAN :
        LET ids == Ids(k, n)
            asked == Append(k.messages, AssistantCalls({ids[i] : i \in 1 .. n}))
            skipped == [i \in 1 .. n |-> ToolMessage(ids[i], 0)]
            answered == [k EXCEPT !.messages = asked, !.next = @ + n, !.sent = <<>>,
                                  !.attempt = 1, !.adjusted = FALSE]
        IN  SetConv(c, IF OverLimit(k, n) \/ timedOut
                       THEN [Again([answered EXCEPT !.messages = @ \o skipped])
                                EXCEPT !.closing = TRUE]
                       ELSE [answered EXCEPT !.pc = "tools", !.calls = ids])
  BY DEF CallTools, Ids
<1> DEFINE ids == Ids(k, n)
<1>3. ids \in Seq(Nat) /\ ids # <<>> /\ DOMAIN ids = 1 .. n /\ n \in Nat
  BY <1>1, IdsTyped
<1>4. PICK a \in Seq(Message), x \in Nat : a = Append(k.messages, CallsOf(ids)) /\ x = k.next + n
  <2>1. k.messages \in Seq(Message) /\ Good(k.messages) /\ ids \in Seq(Nat)
    BY <1>1, <1>3
  <2>2. k.next + n \in Nat
    BY <1>1, <1>3
  <2> HIDE DEF ids, k
  <2>3. Append(k.messages, CallsOf(ids)) \in Seq(Message)
    BY <2>1, CallsAppended
  <2> QED BY <2>2, <2>3
<1> DEFINE answered == [k EXCEPT !.messages = Append(k.messages, CallsOf(ids)),
                                 !.next = @ + n, !.sent = <<>>, !.attempt = 1,
                                 !.adjusted = FALSE]
<1>5. answered = [k EXCEPT !.messages = a, !.next = x, !.sent = <<>>, !.attempt = 1,
                           !.adjusted = FALSE]
  BY <1>4
<1>6. \/ SetConv(c, [Again([answered EXCEPT !.messages = @ \o Skipped(ids)])
                        EXCEPT !.closing = TRUE])
      \/ SetConv(c, [answered EXCEPT !.pc = "tools", !.calls = ids])
  BY <1>2, <1>3 DEF CallsOf, Skipped
<1> HIDE DEF ids, answered
<1>7. /\ answered \in Conversation /\ answered.messages = a
      /\ answered.sent = <<>> /\ answered.closing = FALSE
  <2>1. <<>> \in Seq(Message) /\ 1 \in Nat /\ FALSE \in BOOLEAN
    OBVIOUS
  <2>2. k \in Conversation /\ k.closing = FALSE
    BY <1>1
  <2> HIDE DEF k
  <2> QED BY <1>5, <2>1, <2>2 DEF Conversation
<1>8. answered.messages = Append(k.messages, CallsOf(ids))
  BY <1>4, <1>7
<1> QED BY <1>1, <1>3, <1>6, <1>7, <1>8, RoundFollows

\* A step of a conversation, of whatever kind.
LEMMA ConvStepFollows ==
  ASSUME NEW c \in Caller, Sound(conv[c]), ConvStep(c)
  PROVE  /\ conv[c].pc \in {"ready", "asked"}
         /\ \E q : SetConv(c, q) /\ Follows(q, conv[c])
<1> DEFINE k == conv[c]
<1>1. k \in Conversation
  BY DEF Sound
<1>2. CASE Request(c)
  <2>1. PICK m \in {k.sent} \cup (IF c \in Large THEN CompactMessages(k.sent) ELSE {}) :
           SetConv(c, [WithSent(k, m) EXCEPT !.pc = "asked"])
    BY <1>2 DEF Request
  <2> DEFINE p == WithSent(k, m)
             q == [p EXCEPT !.pc = "asked"]
  <2>2. Follows(p, k) /\ p.pc \in {"ready", "asked"} /\ p \in Conversation /\ k.pc = "ready"
    <3>1. m = k.sent \/ m \in CompactMessages(k.sent)
      BY <2>1
    <3>2. k.pc = "ready"
      BY <1>2 DEF Request
    <3>3. Follows(p, k)
      BY <3>1, <3>2, WithSentFollows
    <3> QED BY <3>2, <3>3 DEF WithSent, Follows, Sound, Conversation
  <2> HIDE DEF p
  <2>3. q \in Conversation /\ q.pc = "asked" /\ q.sent = p.sent /\ q.messages = p.messages
        /\ q.closing = p.closing
    BY <2>2 DEF Conversation
  <2> HIDE DEF q
  <2>4. Follows(q, p)
    BY <2>2, <2>3, RetryFollows DEF Follows
  <2> QED BY <2>1, <2>2, <2>4, FollowsOn DEF p, q
<1>3. CASE Answers(c)
  BY <1>3, EndedFollows DEF Answers
<1>4. CASE CallTools(c)
  BY <1>4, CallToolsFollows DEF CallTools
<1>5. CASE ContextRejected(c)
  <2>1. PICK m \in CompactMessages(k.sent) :
          SetConv(c, IF k.attempt < MaxRetries
                     THEN [WithSent(k, m) EXCEPT !.pc = "ready", !.adjusted = TRUE,
                                                 !.attempt = @ + 1]
                     ELSE Ended(WithSent(k, m), "failed"))
    BY <1>5 DEF ContextRejected
  <2> DEFINE p == WithSent(k, m)
             q == [p EXCEPT !.pc = "ready", !.adjusted = TRUE, !.attempt = @ + 1]
  <2>2. Follows(p, k) /\ p.pc \in {"ready", "asked"} /\ p \in Conversation /\ k.pc = "asked"
    <3>1. k.pc = "asked"
      BY <1>5 DEF ContextRejected
    <3>2. Follows(p, k)
      BY <3>1, WithSentFollows
    <3> QED BY <3>1, <3>2 DEF WithSent, Follows, Sound, Conversation
  <2> HIDE DEF p
  <2>3. q \in Conversation /\ q.pc = "ready" /\ q.sent = p.sent /\ q.messages = p.messages
        /\ q.closing = p.closing
    <3>1. PICK x \in Nat : x = p.attempt + 1
      BY <2>2 DEF Conversation
    <3>2. q = [p EXCEPT !.pc = "ready", !.adjusted = TRUE, !.attempt = x]
      BY <3>1
    <3> HIDE DEF q
    <3> QED BY <2>2, <3>2 DEF Conversation
  <2> HIDE DEF q
  <2>4. Follows(q, p) /\ Follows(Ended(p, "failed"), p)
    BY <2>2, <2>3, RetryFollows, EndedFollows DEF Follows
  <2>5. Follows(q, k) /\ Follows(Ended(p, "failed"), k)
    BY <2>2, <2>4, FollowsOn
  <2> QED BY <2>1, <2>2, <2>5 DEF p, q
<1>6. CASE Unavailable(c)
  <2> DEFINE q == [k EXCEPT !.pc = "ready", !.attempt = @ + 1]
  <2>1. k.pc = "asked" /\ (SetConv(c, q) \/ SetConv(c, Ended(k, "failed")))
    BY <1>6 DEF Unavailable
  <2>2. q \in Conversation /\ q.pc = "ready" /\ q.sent = k.sent /\ q.messages = k.messages
        /\ q.closing = k.closing
    <3>1. PICK x \in Nat : x = k.attempt + 1
      BY <1>1 DEF Conversation
    <3>2. q = [k EXCEPT !.pc = "ready", !.attempt = x]
      BY <3>1
    <3> HIDE DEF q
    <3> QED BY <1>1, <3>2 DEF Conversation
  <2> HIDE DEF q
  <2>3. Follows(q, k) /\ Follows(Ended(k, "failed"), k)
    BY <2>1, <2>2, RetryFollows, EndedFollows
  <2> QED BY <2>1, <2>3
<1>7. CASE Refused(c)
  BY <1>7, EndedFollows DEF Refused
<1> QED BY <1>2, <1>3, <1>4, <1>5, <1>6, <1>7 DEF ConvStep

LEMMA AppendIsConcatOne ==
  ASSUME NEW S, NEW m \in Seq(S), NEW e \in S PROVE Append(m, e) = m \o <<e>>
OBVIOUS

LEMMA HeadAndTail ==
  ASSUME NEW calls \in Seq(Nat), calls # <<>>
  PROVE  /\ Head(calls) \in Nat /\ Tail(calls) \in Seq(Nat) /\ 1 \in DOMAIN calls
         /\ Head(calls) = calls[1]
         /\ \A p \in DOMAIN Tail(calls) : p + 1 \in DOMAIN calls /\ Tail(calls)[p] = calls[p + 1]
         /\ \A p \in DOMAIN calls : p = 1 \/ (p - 1 \in DOMAIN Tail(calls)
                                              /\ Tail(calls)[p - 1] = calls[p])
OBVIOUS

LEMMA OneIsAnswered ==
  ASSUME NEW calls \in Seq(Nat), calls # <<>>, NEW o \in Nat
  PROVE  /\ <<ToolMessage(Head(calls), o)>> \in Seq(Message)
         /\ Answering(<<ToolMessage(Head(calls), o)>>, calls, Tail(calls))
<1> DEFINE e == ToolMessage(Head(calls), o)
<1>1. e.role = "tool" /\ e.calls = {} /\ e.answers = calls[1] /\ e \in Message
  BY HeadAndTail, PlainTyped DEF ToolMessage
<1> HIDE DEF e
<1>2. <<e>> \in Seq(Message) /\ DOMAIN <<e>> = {1} /\ <<e>>[1] = e
  BY <1>1
<1>3. \A i \in DOMAIN <<e>> : /\ <<e>>[i].role = "tool" /\ <<e>>[i].calls = {}
                              /\ \E p \in DOMAIN calls : <<e>>[i].answers = calls[p]
  BY <1>1, <1>2, HeadAndTail
<1>4. \A p \in DOMAIN Tail(calls) : \E q \in DOMAIN calls : Tail(calls)[p] = calls[q]
  BY HeadAndTail
<1>5. \A p \in DOMAIN calls : \/ \E i \in DOMAIN <<e>> : <<e>>[i].answers = calls[p]
                              \/ \E q \in DOMAIN Tail(calls) : Tail(calls)[q] = calls[p]
  <2> TAKE p \in DOMAIN calls
  <2>1. CASE p = 1
    BY <1>1, <1>2, <2>1
  <2>2. CASE p # 1
    BY <2>2, HeadAndTail
  <2> QED BY <2>1, <2>2
<1> QED BY <1>2, <1>3, <1>4, <1>5 DEF Answering, e

\* An offer later than all there are.
Newer(o, S, T) == S \subseteq T /\ (o = NoAction \/ (o \in T /\ \A x \in S : x < o))

LEMMA OfferAppended ==
  ASSUME NEW m \in Seq(Message), NEW S, Carries(m, S), NEW e \in Message,
         NEW T, Newer(e.offer, S, T)
  PROVE  Carries(Append(m, e), T)
<1> DEFINE a == Append(m, e)
<1>1. PICK L \in Nat : L = Len(m) /\ DOMAIN m = 1 .. L
  OBVIOUS
<1>2. DOMAIN a = 1 .. L + 1 /\ (\A i \in 1 .. L : a[i] = m[i]) /\ a[L + 1] = e
  <2>1. a \in Seq(Message) /\ Len(a) = L + 1 /\ (\A i \in 1 .. L : a[i] = m[i]) /\ a[L + 1] = e
    BY <1>1, AppendAt
  <2> HIDE DEF a
  <2> QED BY <2>1
<1> HIDE DEF a
<1>3. ASSUME NEW i \in DOMAIN a, a[i].offer # NoAction
      PROVE  \/ i = L + 1 /\ e.offer = a[i].offer /\ a[i].offer \in T
                /\ \A x \in S : x < a[i].offer
             \/ i \in DOMAIN m /\ a[i] = m[i] /\ a[i].offer \in S /\ a[i].offer \in T
  <2>1. i \in 1 .. L \/ i = L + 1
    BY <1>2
  <2>2. CASE i \in 1 .. L
    BY <1>1, <1>2, <1>3, <2>2 DEF Carries, Newer
  <2>3. CASE i = L + 1
    BY <1>2, <1>3, <2>3 DEF Newer
  <2> QED BY <2>1, <2>2, <2>3
<1>4. ASSUME NEW i \in DOMAIN a, NEW j \in DOMAIN a, i < j,
             a[i].offer # NoAction, a[j].offer # NoAction
      PROVE  a[i].offer < a[j].offer
  <2>1. i \in 1 .. L /\ i \in DOMAIN m
    BY <1>1, <1>2, <1>4
  <2>2. i # L + 1
    BY <2>1
  <2>3. a[i] = m[i] /\ a[i].offer \in S
    BY <1>3, <1>4, <2>2
  <2> QED BY <1>3, <1>4, <2>1, <2>3 DEF Carries
<1> QED BY <1>3, <1>4 DEF Carries, a

\* A call is answered, with or without an offer.
LEMMA ToolAnsweredIsSound ==
  ASSUME NEW k, Sound(k), k.pc = "tools", NEW o \in Nat
  PROVE  /\ Sound(ToolAnswered(k, o)) /\ ToolAnswered(k, o).pc # "idle"
         /\ \A S, T : Offering(k, S) /\ Newer(o, S, T) => Offering(ToolAnswered(k, o), T)
<1> DEFINE e == ToolMessage(Head(k.calls), o)
           a == Append(k.messages, e)
           done == [k EXCEPT !.messages = Append(@, e), !.calls = Tail(@), !.executed = @ + 1]
           q == ToolAnswered(k, o)
<1>1. /\ k \in Conversation /\ k.messages \in Seq(Message) /\ k.calls \in Seq(Nat)
      /\ k.calls # <<>> /\ k.executed \in Nat /\ Half(k.messages, k.calls)
      /\ k.closing = FALSE
  BY DEF Sound, Conversation
<1>2. e \in Message /\ e.offer = o /\ Tail(k.calls) \in Seq(Nat)
  <2>1. e.offer = o
    BY DEF ToolMessage
  <2> QED BY <1>1, <2>1, HeadAndTail, PlainTyped
<1>3. a \in Seq(Message) /\ Half(a, Tail(k.calls))
  <2>1. <<e>> \in Seq(Message) /\ Answering(<<e>>, k.calls, Tail(k.calls))
    BY <1>1, OneIsAnswered
  <2> HIDE DEF e
  <2>2. a = k.messages \o <<e>>
    BY <1>1, <1>2, AppendIsConcatOne
  <2> HIDE DEF a
  <2> QED BY <1>1, <2>1, <2>2, AnswersAppended
<1>4. \A S, T : Carries(k.messages, S) /\ Newer(o, S, T) => Carries(a, T)
  <2> HIDE DEF e
  <2> QED BY <1>1, <1>2, OfferAppended
<1>5. \A S, T : Carries(k.sent, S) /\ Newer(o, S, T) => Carries(k.sent, T)
  BY DEF Carries, Newer
<1>6. q = IF done.calls = <<>> THEN Again(done) ELSE done
  BY DEF ToolAnswered
<1>7. PICK x \in Nat : x = k.executed + 1
  BY <1>1
<1>8. done = [k EXCEPT !.messages = a, !.calls = Tail(k.calls), !.executed = x]
  BY <1>7
<1> HIDE DEF a, done, q, e
<1>9. /\ done \in Conversation /\ done.pc = "tools" /\ done.messages = a
      /\ done.calls = Tail(k.calls) /\ done.sent = k.sent /\ done.closing = FALSE
  BY <1>1, <1>2, <1>3, <1>8 DEF Conversation
<1>10. CASE done.calls # <<>>
  <2>1. q = done
    BY <1>6, <1>10
  <2>2. Sound(q) /\ q.pc # "idle"
    BY <1>3, <1>9, <1>10, <2>1 DEF Sound
  <2>3. \A S, T : Offering(k, S) /\ Newer(o, S, T) => Offering(q, T)
    BY <1>4, <1>5, <1>9, <2>1 DEF Offering
  <2> QED BY <2>2, <2>3 DEF q
<1>11. CASE done.calls = <<>>
  <2>1. q = Again(done)
    BY <1>6, <1>11
  <2>2. q \in Conversation /\ q.pc = "ready" /\ q.messages = a /\ q.sent = a /\ q.closing = FALSE
    BY <1>3, <1>9, <2>1 DEF Again, Conversation
  <2>3. Good(a)
    BY <1>3, <1>9, <1>11, NothingPending
  <2>4. Sound(q) /\ q.pc # "idle"
    BY <2>2, <2>3 DEF Sound
  <2>5. \A S, T : Offering(k, S) /\ Newer(o, S, T) => Offering(q, T)
    BY <1>4, <2>2 DEF Offering
  <2> QED BY <2>4, <2>5 DEF q
<1> QED BY <1>10, <1>11

-----------------------------------------------------------------------------
(* The turn *)

TurnPc == {"idle", "main", "forced", "concluded", "reply", "attach", "error"}
ChatTypeOK ==
    /\ updates \subseteq Nat
    /\ turn \in [pc : TurnPc, message : Nat, runs : Seq(Nat), offer : Nat, lost : SUBSET Nat]
    /\ task \in [stage : {"off", "reason", "plan", "act"}, plan : Seq(PlanAction), done : Nat,
                 records : Seq(Nat), since : Nat, before : Nat]
    /\ actions \in Seq(Nat)
    /\ shown \subseteq [delivery : Nat, action : Nat]
    /\ deliveries \in Nat /\ crashes \in Nat

ConvsSound == conv \in [Caller -> Conversation] /\ \A c \in Caller : Sound(conv[c])

\* The order agent is at work, or executes an action of its plan.
Busy == task.stage # "off"
InAction == conv[Action].pc # "idle"

\* The order agent works in a turn of its own or inside a delegation of the main
\* agent, whose conversation waits with the call; one action of the plan at a time.
Stages ==
    /\ turn.pc = "idle" => turn = NoTurn
    /\ Busy => turn.pc \in {"main", "forced"}
    /\ turn.pc = "forced" => Busy
    /\ Busy /\ turn.pc = "main" => conv[Main].pc = "tools"
    /\ InAction => task.stage = "act" /\ task.done < Len(task.plan)
    /\ task.stage \in {"off", "reason", "plan"} => task.records = <<>>

\* Actions are numbered in the order of the deliveries that prepared them. Those
\* after the mark since are of the run at work, those after before of its action.
Marks ==
    /\ \A a \in DOMAIN actions : actions[a] <= deliveries
    /\ turn.lost \subseteq 1 .. Len(actions)
    /\ Busy => /\ task.since <= Len(actions)
               /\ \A a \in task.since + 1 .. Len(actions) : actions[a] = deliveries
    /\ InAction => /\ task.since <= task.before /\ task.before <= Len(actions)
                   /\ turn.lost \subseteq 1 .. task.before

\* s names actions of K in rising order, the last of K among them.
Tells(s, K) ==
    /\ \A i \in DOMAIN s : s[i] # NoAction => s[i] \in K
    /\ \A i, j \in DOMAIN s : i < j /\ s[i] # NoAction /\ s[j] # NoAction => s[i] < s[j]
    /\ \A a \in K : \E i \in DOMAIN s : s[i] # NoAction /\ a <= s[i]
Latest(o, K) ==
    \/ o = NoAction /\ K = {}
    \/ o # NoAction /\ o \in K /\ \A a \in K : a <= o

\* The actions whose approval has not been dropped: of the runs that are over, and of
\* the actions of the plan that are.
Kept == PreparedBy(deliveries) \ turn.lost
OfRuns == {a \in Kept : Busy => a <= task.since}
OfTask == {a \in Kept : task.since < a /\ (InAction => a <= task.before)}

Told ==
    /\ turn.pc \in {"main", "forced", "concluded"} => Tells(turn.runs, OfRuns)
    /\ Busy => Tells(task.records, OfTask)
    /\ InAction => Offering(conv[Action], task.before + 1 .. Len(actions))
    /\ turn.pc \in {"reply", "attach"} => Latest(turn.offer, Kept)

\* Nothing is shown twice for a delivery: one that is still to show has shown nothing.
ShownOnce ==
    /\ OffersAreOwn
    /\ \A s \in shown : /\ s.delivery <= deliveries
                        /\ turn.pc \notin {"idle", "attach"} => s.delivery < deliveries

ChatInv == ChatTypeOK /\ ConvsSound /\ Stages /\ Marks /\ Told /\ ShownOnce

LEMMA NothingTells == Tells(<<>>, {}) /\ Latest(NoAction, {})
BY DEF Tells, Latest

\* The last offer that is listed is for the last action there is.
LEMMA LastIsLatest ==
  ASSUME NEW s \in Seq(Nat), NEW K \in SUBSET Nat, Tells(s, K), NEW o \in Nat, IsLastOffer(s, o)
  PROVE  Latest(o, K)
<1>1. CASE o = NoAction /\ \A i \in DOMAIN s : s[i] = NoAction
  BY <1>1 DEF Tells, Latest
<1>2. ASSUME NEW i \in DOMAIN s, s[i] = o, o # NoAction,
             \A j \in i + 1 .. Len(s) : s[j] = NoAction
      PROVE  Latest(o, K)
  <2>1. ASSUME NEW a \in K PROVE a <= o
    <3>1. PICK j \in DOMAIN s : s[j] # NoAction /\ a <= s[j]
      BY <2>1 DEF Tells
    <3>2. j <= i
      BY <1>2, <3>1
    <3>3. s[j] \in Nat /\ s[i] \in Nat /\ a \in Nat
      BY <3>1
    <3>4. CASE j = i
      BY <1>2, <3>1, <3>4
    <3>5. CASE j < i
      <4>1. s[j] < s[i]
        BY <1>2, <3>1, <3>5 DEF Tells
      <4> QED BY <1>2, <3>1, <3>3, <4>1
    <3> QED BY <3>2, <3>4, <3>5
  <2>2. o \in K
    BY <1>2 DEF Tells
  <2> QED BY <1>2, <2>1, <2>2 DEF Latest
<1> QED BY <1>1, <1>2 DEF IsLastOffer

\* The offer of one more run, or of one more action, is listed behind the others.
LEMMA OneMoreTold ==
  ASSUME NEW s \in Seq(Nat), NEW K \in SUBSET Nat, Tells(s, K),
         NEW L \in SUBSET Nat, NEW o \in Nat, Latest(o, L), \A x \in K, y \in L : x < y
  PROVE  Append(s, o) \in Seq(Nat) /\ Tells(Append(s, o), K \cup L)
<1> DEFINE t == Append(s, o)
<1>1. PICK n \in Nat : n = Len(s) /\ DOMAIN s = 1 .. n
  OBVIOUS
<1>2. /\ t \in Seq(Nat) /\ DOMAIN t = 1 .. n + 1 /\ t[n + 1] = o
      /\ \A i \in 1 .. n : t[i] = s[i]
  <2>1. t \in Seq(Nat) /\ Len(t) = n + 1 /\ t[n + 1] = o /\ \A i \in 1 .. n : t[i] = s[i]
    BY <1>1, AppendAt
  <2> HIDE DEF t
  <2> QED BY <2>1
<1> HIDE DEF t
<1>3. \A i \in DOMAIN t : i = n + 1 \/ i \in 1 .. n
  BY <1>2
<1>4. \A i \in DOMAIN t : t[i] # NoAction => t[i] \in K \cup L
  BY <1>1, <1>2, <1>3 DEF Tells, Latest
<1>5. ASSUME NEW i \in DOMAIN t, NEW j \in DOMAIN t, i < j, t[i] # NoAction, t[j] # NoAction
      PROVE  t[i] < t[j]
  <2>1. i \in 1 .. n /\ t[i] = s[i] /\ s[i] \in K
    BY <1>1, <1>2, <1>5 DEF Tells
  <2>2. CASE j = n + 1
    BY <1>2, <1>5, <2>1, <2>2 DEF Latest
  <2>3. CASE j \in 1 .. n
    <3>1. t[j] = s[j]
      BY <1>2, <2>3
    <3> QED BY <1>1, <1>5, <2>1, <2>3, <3>1 DEF Tells
  <2> QED BY <1>3, <2>2, <2>3
<1>6. ASSUME NEW a \in K \cup L PROVE \E i \in DOMAIN t : t[i] # NoAction /\ a <= t[i]
  <2>1. CASE a \in L
    <3>1. o # NoAction /\ a <= o
      BY <2>1 DEF Latest
    <3>2. n + 1 \in DOMAIN t
      BY <1>2
    <3> QED BY <1>2, <3>1, <3>2
  <2>2. CASE a \in K
    <3>1. PICK i \in 1 .. n : s[i] # NoAction /\ a <= s[i]
      BY <1>1, <2>2 DEF Tells
    <3>2. i \in DOMAIN t /\ t[i] = s[i]
      BY <1>2
    <3> QED BY <3>1, <3>2
  <2> QED BY <1>6, <2>1, <2>2
<1> QED BY <1>2, <1>4, <1>5, <1>6 DEF Tells, t

\* A conversation is set, and the other left alone.
LEMMA ConvIsSet ==
  ASSUME ConvsSound, NEW c \in Caller, NEW k, SetConv(c, k)
  PROVE  /\ conv'[c] = k /\ \A d \in Caller : d # c => conv'[d] = conv[d]
         /\ Sound(k) => ConvsSound'
BY DEF ConvsSound, SetConv, Sound

LEMMA TwoCallers == Main \in Caller /\ Action \in Caller /\ Main # Action
BY Callers DEF Main, Action

\* What a step leaves alone when it touches neither store nor queue.
StoreKept == UNCHANGED <<store, queue>>

LEMMA StoreIsKept ==
  ASSUME StoreKept
  PROVE  actions' = actions /\ shown' = shown /\ updates' = updates
         /\ deliveries' = deliveries /\ crashes' = crashes
BY DEF StoreKept, store, queue

LEMMA NoTurnTyped ==
  /\ NoTurn \in [pc : TurnPc, message : Nat, runs : Seq(Nat), offer : Nat, lost : SUBSET Nat]
  /\ NoTask \in [stage : {"off", "reason", "plan", "act"}, plan : Seq(PlanAction), done : Nat,
                 records : Seq(Nat), since : Nat, before : Nat]
  /\ NoTask.stage = "off" /\ NoTask.records = <<>>
  /\ NoTurn.pc = "idle" /\ NoTurn.lost = {} /\ NoTurn.runs = <<>>
BY DEF NoTurn, NoTask, TurnPc, NoAction

LEMMA ReasoningTyped ==
  ASSUME ChatTypeOK
  PROVE  /\ Reasoning \in [stage : {"off", "reason", "plan", "act"}, plan : Seq(PlanAction),
                           done : Nat, records : Seq(Nat), since : Nat, before : Nat]
         /\ Reasoning.stage = "reason" /\ Reasoning.records = <<>>
         /\ Reasoning.since = Len(actions)
<1>1. Len(actions) \in Nat
  BY DEF ChatTypeOK
<1>2. Reasoning.stage = "reason" /\ Reasoning.records = <<>> /\ Reasoning.since = Len(actions)
  BY DEF Reasoning, NoTask
<1>3. PICK n \in Nat : n = Len(actions)
  BY <1>1
<1>4. Reasoning = [NoTask EXCEPT !.stage = "reason", !.since = n]
  BY <1>3 DEF Reasoning
<1> QED BY <1>2, <1>4, NoTurnTyped

LEMMA InitIsSound == ChatInit => ChatInv
<1> SUFFICES ASSUME ChatInit PROVE ChatInv
  OBVIOUS
<1> USE DEF ChatInit
<1>1. ConvsSound
  BY NoConversationIsSound DEF ConvsSound, Sound
<1>2. ~Busy /\ ~InAction /\ turn.pc = "idle"
  BY NoTurnTyped, NoConversationIsSound, TwoCallers DEF Busy, InAction
<1>3. ChatTypeOK
  BY NoTurnTyped, ChatBounds DEF ChatTypeOK
<1>4. Stages /\ Marks
  BY <1>2, NoTurnTyped DEF Stages, Marks
<1>5. Told /\ ShownOnce
  BY <1>2 DEF Told, ShownOnce, OffersAreOwn
<1> QED BY <1>1, <1>3, <1>4, <1>5 DEF ChatInv

LEMMA TakeMessageKeeps ==
  ASSUME ChatInv, TakeMessage PROVE ChatInv'
<1>1. PICK m \in updates :
         /\ deliveries' = deliveries + 1
         /\ IF m \in Forced
            THEN /\ turn' = [turn EXCEPT !.pc = "forced", !.message = m]
                 /\ task' = Reasoning
                 /\ UNCHANGED conv
            ELSE /\ turn' = [turn EXCEPT !.pc = "main", !.message = m]
                 /\ SetConv(Main, Started(ChatHistory, 1))
                 /\ UNCHANGED task
  BY DEF TakeMessage
<1>2. /\ turn.pc = "idle" /\ turn = NoTurn /\ ~Busy /\ ~InAction
      /\ actions' = actions /\ shown' = shown /\ updates' = updates /\ crashes' = crashes
  BY DEF TakeMessage, ChatInv, Stages, store, Busy
<1>3. turn.runs = <<>> /\ turn.lost = {} /\ m \in Nat
  BY <1>2, NoTurnTyped DEF ChatInv, ChatTypeOK
<1>4. \A a \in DOMAIN actions : actions[a] <= deliveries /\ actions[a] \in Nat
  BY DEF ChatInv, ChatTypeOK, Marks
<1>5. deliveries \in Nat /\ deliveries' = deliveries + 1
  BY <1>1 DEF ChatInv, ChatTypeOK
<1>6. Kept' = {}
  BY <1>2, <1>4, <1>5 DEF Kept, PreparedBy
<1>7. OfRuns' = {} /\ OfTask' = {}
  BY <1>6 DEF OfRuns, OfTask
<1>8. ShownOnce'
  BY SMTT(30), <1>2, <1>5 DEF ChatInv, ChatTypeOK, ShownOnce, OffersAreOwn, PreparedBy
<1>9. CASE m \in Forced
  <2>1. turn' = [turn EXCEPT !.pc = "forced", !.message = m] /\ task' = Reasoning /\ conv' = conv
    BY <1>1, <1>9
  <2>2. /\ turn'.pc = "forced" /\ turn'.runs = <<>> /\ turn'.lost = {}
        /\ turn' \in [pc : TurnPc, message : Nat, runs : Seq(Nat), offer : Nat, lost : SUBSET Nat]
    BY <1>3, <2>1 DEF ChatInv, ChatTypeOK, TurnPc
  <2>3. /\ task'.stage = "reason" /\ task'.records = <<>> /\ task'.since = Len(actions)
        /\ task' \in [stage : {"off", "reason", "plan", "act"}, plan : Seq(PlanAction),
                      done : Nat, records : Seq(Nat), since : Nat, before : Nat]
    BY <2>1, ReasoningTyped DEF ChatInv
  <2>4. ChatTypeOK' /\ ConvsSound'
    <3>1. ConvsSound'
      BY <2>1 DEF ChatInv, ConvsSound, Sound
    <3> QED BY <1>2, <1>5, <2>2, <2>3, <3>1 DEF ChatInv, ChatTypeOK
  <2>5. Busy' /\ ~InAction'
    BY <1>2, <2>1, <2>3 DEF Busy, InAction
  <2>6. Stages'
    BY <2>2, <2>3, <2>5 DEF Stages
  <2>7. Marks'
    <3>1. Len(actions) \in Nat /\ Len(actions) + 1 .. Len(actions) = {}
      BY DEF ChatInv, ChatTypeOK
    <3> QED BY <1>2, <1>4, <1>5, <2>2, <2>3, <2>5, <3>1 DEF Marks
  <2>8. Told'
    BY <1>7, <2>2, <2>3, <2>5, NothingTells DEF Told
  <2> QED BY <1>8, <2>4, <2>6, <2>7, <2>8 DEF ChatInv
<1>10. CASE m \notin Forced
  <2>1. /\ turn' = [turn EXCEPT !.pc = "main", !.message = m] /\ task' = task
        /\ SetConv(Main, Started(ChatHistory, 1))
    BY <1>1, <1>10
  <2>2. /\ turn'.pc = "main" /\ turn'.runs = <<>> /\ turn'.lost = {}
        /\ turn' \in [pc : TurnPc, message : Nat, runs : Seq(Nat), offer : Nat, lost : SUBSET Nat]
    BY <1>3, <2>1 DEF ChatInv, ChatTypeOK, TurnPc
  <2>3. ConvsSound' /\ conv'[Action] = conv[Action]
    BY <2>1, ChatBounds, TwoCallers, StartedIsSound, ConvIsSet DEF ChatInv
  <2>4. ChatTypeOK'
    BY SMTT(30), <1>2, <1>5, <2>1, <2>2 DEF ChatInv, ChatTypeOK
  <2>5. ~Busy' /\ ~InAction'
    BY <1>2, <2>1, <2>3 DEF Busy, InAction
  <2>6. Stages'
    BY <2>1, <2>2, <2>5 DEF Stages, ChatInv
  <2>7. Marks'
    BY <1>2, <1>4, <1>5, <2>2, <2>5 DEF Marks
  <2>8. Told'
    BY <1>7, <2>2, <2>5, NothingTells DEF Told
  <2> QED BY <1>8, <2>3, <2>4, <2>6, <2>7, <2>8 DEF ChatInv
<1> QED BY <1>9, <1>10

LEMMA TakeCommandKeeps ==
  ASSUME ChatInv, TakeCommand PROVE ChatInv'
<1>1. /\ turn.pc = "idle" /\ turn = NoTurn /\ ~Busy /\ ~InAction
      /\ actions' = actions /\ shown' = shown /\ crashes' = crashes
      /\ turn' = turn /\ task' = task /\ conv' = conv
      /\ deliveries \in Nat /\ deliveries' = deliveries + 1 /\ updates' \subseteq updates
  BY DEF TakeCommand, ChatInv, ChatTypeOK, Stages, store, Busy
<1>2. ~Busy' /\ ~InAction' /\ turn'.pc = "idle"
  BY <1>1 DEF Busy, InAction
<1>3. ChatTypeOK' /\ ConvsSound'
  BY <1>1 DEF ChatInv, ChatTypeOK, ConvsSound, Sound
<1>4. Stages'
  BY <1>1, <1>2 DEF Stages, ChatInv
<1>5. Marks'
  <2>1. \A a \in DOMAIN actions : actions[a] <= deliveries /\ actions[a] \in Nat
    BY DEF ChatInv, ChatTypeOK, Marks
  <2> QED BY <1>1, <1>2, <2>1 DEF Marks, ChatInv
<1>6. Told'
  BY <1>2 DEF Told
<1>7. ShownOnce'
  BY <1>1 DEF ChatInv, ChatTypeOK, ShownOnce, OffersAreOwn, PreparedBy
<1> QED BY <1>3, <1>4, <1>5, <1>6, <1>7 DEF ChatInv

\* What is shown stays right while nothing is prepared.
LEMMA ShownIsKept ==
  ASSUME ChatInv, StoreKept, turn'.pc \in {"idle", "attach"} \/ turn.pc \notin {"idle", "attach"}
  PROVE  ShownOnce'
BY StoreIsKept DEF ChatInv, ShownOnce, OffersAreOwn, PreparedBy

LEMMA KeptTyped ==
  ASSUME ChatTypeOK
  PROVE  /\ Kept \in SUBSET Nat /\ OfRuns \in SUBSET Nat /\ OfTask \in SUBSET Nat
         /\ Kept \subseteq 1 .. Len(actions) /\ Len(actions) \in Nat
         /\ task.since \in Nat /\ task.before \in Nat
<1>1. actions \in Seq(Nat) /\ Len(actions) \in Nat /\ DOMAIN actions = 1 .. Len(actions)
      /\ task.since \in Nat /\ task.before \in Nat
  BY DEF ChatTypeOK
<1> QED BY <1>1 DEF Kept, OfRuns, OfTask, PreparedBy

LEMMA DelegateOrderKeeps ==
  ASSUME ChatInv, DelegateOrder PROVE ChatInv'
<1>1. /\ turn.pc = "main" /\ conv[Main].pc = "tools" /\ ~Busy /\ ~InAction
      /\ task' = Reasoning /\ conv' = conv /\ turn' = turn /\ StoreKept
  BY DEF DelegateOrder, ChatInv, Stages, Busy, StoreKept
<1>2. /\ actions' = actions /\ shown' = shown /\ updates' = updates
      /\ deliveries' = deliveries /\ crashes' = crashes
  BY <1>1, StoreIsKept
<1>3. /\ task' \in [stage : {"off", "reason", "plan", "act"}, plan : Seq(PlanAction),
                    done : Nat, records : Seq(Nat), since : Nat, before : Nat]
      /\ task'.stage = "reason" /\ task'.records = <<>> /\ task'.since = Len(actions)
  BY <1>1, ReasoningTyped DEF ChatInv
<1>4. Busy' /\ ~InAction'
  BY <1>1, <1>3 DEF Busy, InAction
<1>5. ConvsSound'
  BY <1>1 DEF ChatInv, ConvsSound, Sound
<1>6. ChatTypeOK'
  BY <1>1, <1>2, <1>3 DEF ChatInv, ChatTypeOK
<1>7. Stages'
  BY <1>1, <1>3, <1>4 DEF Stages
<1>8. Marks'
  <2>1. Len(actions) \in Nat /\ Len(actions) + 1 .. Len(actions) = {}
    BY DEF ChatInv, ChatTypeOK
  <2> QED BY <1>1, <1>2, <1>3, <1>4, <2>1 DEF ChatInv, Marks
<1>9. OfRuns' = OfRuns /\ OfTask' = {}
  <2>1. Kept' = Kept
    BY <1>1, <1>2 DEF Kept, PreparedBy
  <2>2. Kept \subseteq 1 .. Len(actions) /\ Len(actions) \in Nat
    BY KeptTyped DEF ChatInv
  <2>3. \A a \in Kept : a <= Len(actions) /\ ~(Len(actions) < a)
    BY <2>2
  <2> HIDE DEF Kept
  <2>4. OfRuns = Kept /\ OfRuns' = Kept
    BY <1>1, <1>3, <2>1, <2>3 DEF OfRuns
  <2> QED BY <1>3, <2>1, <2>3, <2>4 DEF OfTask
<1>10. Told'
  <2>1. turn'.pc = "main" /\ Tells(turn'.runs, OfRuns')
    BY <1>1, <1>9 DEF ChatInv, Told
  <2> QED BY <1>3, <1>4, <1>9, <2>1, NothingTells DEF Told
<1>11. ShownOnce'
  BY <1>1, ShownIsKept
<1> QED BY <1>5, <1>6, <1>7, <1>8, <1>10, <1>11 DEF ChatInv

LEMMA DelegateOtherKeeps ==
  ASSUME ChatInv, DelegateOther PROVE ChatInv'
<1>1. PICK runs \in {turn.runs, Append(turn.runs, NoAction)} :
         turn' = [turn EXCEPT !.runs = runs]
  BY DEF DelegateOther
<1>2. /\ turn.pc = "main" /\ conv[Main].pc = "tools" /\ ~Busy /\ ~InAction
      /\ SetConv(Main, ToolAnswered(conv[Main], NoAction)) /\ task' = task /\ StoreKept
  BY DEF DelegateOther, ChatInv, Stages, Busy, StoreKept
<1>3. /\ actions' = actions /\ shown' = shown /\ updates' = updates
      /\ deliveries' = deliveries /\ crashes' = crashes
  BY <1>2, StoreIsKept
<1>4. ConvsSound' /\ conv'[Action] = conv[Action]
  <2>1. Sound(ToolAnswered(conv[Main], NoAction))
    BY <1>2, TwoCallers, ToolAnsweredIsSound DEF ChatInv, ConvsSound, NoAction
  <2> QED BY <1>2, <2>1, TwoCallers, ConvIsSet DEF ChatInv
<1>5. turn.runs \in Seq(Nat) /\ OfRuns \in SUBSET Nat /\ Tells(turn.runs, OfRuns)
  BY <1>2, KeptTyped DEF ChatInv, ChatTypeOK, Told
<1>6. runs \in Seq(Nat) /\ Tells(runs, OfRuns)
  <2>1. /\ Append(turn.runs, NoAction) \in Seq(Nat)
        /\ Tells(Append(turn.runs, NoAction), OfRuns \cup {})
    BY <1>5, NothingTells, OneMoreTold DEF NoAction
  <2> QED BY <1>1, <1>5, <2>1
<1>7. /\ turn'.pc = "main" /\ turn'.runs = runs /\ turn'.lost = turn.lost
      /\ turn' \in [pc : TurnPc, message : Nat, runs : Seq(Nat), offer : Nat, lost : SUBSET Nat]
  BY <1>1, <1>2, <1>6 DEF ChatInv, ChatTypeOK
<1>8. ~Busy' /\ ~InAction'
  BY <1>2, <1>4 DEF Busy, InAction
<1>9. ChatTypeOK'
  BY <1>2, <1>3, <1>7 DEF ChatInv, ChatTypeOK
<1>10. Stages'
  BY <1>2, <1>7, <1>8 DEF ChatInv, Stages
<1>11. Marks'
  BY <1>3, <1>7, <1>8 DEF ChatInv, Marks
<1>12. Told'
  <2>1. OfRuns' = OfRuns
    BY <1>2, <1>3, <1>7, <1>8 DEF OfRuns, Kept, PreparedBy
  <2> QED BY <1>6, <1>7, <1>8, <2>1 DEF Told
<1>13. ShownOnce'
  BY <1>2, ShownIsKept
<1> QED BY <1>4, <1>9, <1>10, <1>11, <1>12, <1>13 DEF ChatInv

\* A run that ends lists the last of what it leaves offered, or nothing.
LEMMA RunEndsKeeps ==
  ASSUME ChatInv, Busy, ~InAction, NEW offer \in Nat,
         NEW dropped \in SUBSET (task.since + 1 .. Len(actions)),
         Latest(offer, OfTask \ dropped), RunEnds(offer, dropped)
  PROVE  ChatInv'
<1>1. /\ task' = NoTask /\ StoreKept
      /\ turn' = [turn EXCEPT !.runs = Append(@, offer), !.lost = @ \cup dropped,
                              !.pc = IF @ = "forced" THEN "concluded" ELSE @]
      /\ IF turn.pc = "main" THEN SetConv(Main, ToolAnswered(conv[Main], NoAction))
                             ELSE UNCHANGED conv
  BY DEF RunEnds, StoreKept
<1>2. /\ actions' = actions /\ shown' = shown /\ updates' = updates
      /\ deliveries' = deliveries /\ crashes' = crashes
  BY <1>1, StoreIsKept
<1>3. turn.pc \in {"main", "forced"} /\ (turn.pc = "main" => conv[Main].pc = "tools")
  BY DEF ChatInv, Stages
<1>4. ConvsSound' /\ conv'[Action] = conv[Action]
  <2>1. CASE turn.pc = "main"
    <3>1. Sound(ToolAnswered(conv[Main], NoAction))
      BY <1>3, <2>1, TwoCallers, ToolAnsweredIsSound DEF ChatInv, ConvsSound, NoAction
    <3> QED BY <1>1, <2>1, <3>1, TwoCallers, ConvIsSet DEF ChatInv
  <2>2. CASE turn.pc # "main"
    <3>1. conv' = conv
      BY <1>1, <2>2
    <3> QED BY <3>1 DEF ChatInv, ConvsSound, Sound
  <2> QED BY <2>1, <2>2
<1>5. /\ turn.runs \in Seq(Nat) /\ Tells(turn.runs, OfRuns) /\ turn.lost \in SUBSET Nat
      /\ Len(actions) \in Nat /\ task.since \in Nat
      /\ Kept \in SUBSET Nat /\ OfRuns \in SUBSET Nat /\ OfTask \in SUBSET Nat
      /\ task.since <= Len(actions)
  BY <1>3, KeptTyped DEF ChatInv, ChatTypeOK, Told, Marks
<1>6. dropped \subseteq Nat /\ \A a \in dropped : task.since < a /\ a \in 1 .. Len(actions)
  BY <1>5
<1>7. \A x \in OfRuns, y \in OfTask \ dropped : x < y
  BY <1>5 DEF OfRuns, OfTask
<1>8. /\ Append(turn.runs, offer) \in Seq(Nat)
      /\ Tells(Append(turn.runs, offer), OfRuns \cup (OfTask \ dropped))
  BY <1>5, <1>7, OneMoreTold
<1>9. /\ turn'.runs = Append(turn.runs, offer) /\ turn'.lost = turn.lost \cup dropped
      /\ turn'.pc = IF turn.pc = "forced" THEN "concluded" ELSE turn.pc
      /\ turn' \in [pc : TurnPc, message : Nat, runs : Seq(Nat), offer : Nat, lost : SUBSET Nat]
  BY <1>1, <1>5, <1>6, <1>8 DEF ChatInv, ChatTypeOK, TurnPc
<1>10. ~Busy' /\ ~InAction' /\ turn'.pc \in {"main", "concluded"}
  BY <1>1, <1>3, <1>4, <1>9, NoTurnTyped DEF Busy, InAction
<1>11. OfRuns' = OfRuns \cup (OfTask \ dropped)
  <2>1. Kept' = Kept \ dropped
    BY <1>2, <1>9 DEF Kept, PreparedBy
  <2>2. OfRuns' = Kept \ dropped
    BY <1>10, <2>1 DEF OfRuns
  <2>3. OfRuns = {a \in Kept : a <= task.since} /\ OfTask = {a \in Kept : task.since < a}
    BY DEF OfRuns, OfTask
  <2>4. \A a \in Kept : a <= task.since \/ task.since < a
    BY <1>5
  <2>5. \A a \in dropped : ~(a <= task.since)
    BY <1>5, <1>6
  <2> HIDE DEF Kept
  <2> QED BY <2>2, <2>3, <2>4, <2>5
<1>12. ChatTypeOK'
  BY <1>1, <1>2, <1>9, NoTurnTyped DEF ChatInv, ChatTypeOK
<1>13. Stages'
  BY <1>1, <1>10, NoTurnTyped DEF Stages
<1>14. Marks'
  BY <1>2, <1>6, <1>9, <1>10 DEF ChatInv, Marks
<1>15. Told'
  BY <1>8, <1>9, <1>10, <1>11 DEF Told
<1>16. ShownOnce'
  BY <1>1, <1>3, ShownIsKept
<1> QED BY <1>4, <1>12, <1>13, <1>14, <1>15, <1>16 DEF ChatInv

\* An exception drops all that the run had prepared.
LEMMA TaskRaisesKeeps ==
  ASSUME ChatInv, Busy, ~InAction, TaskRaises PROVE ChatInv'
<1>1. OfTask \ (task.since + 1 .. Len(actions)) = {}
  BY KeptTyped DEF ChatInv, OfTask
<1> QED BY <1>1, NothingTells, RunEndsKeeps DEF TaskRaises, NoAction

LEMMA NothingYetToTell ==
  ASSUME ChatInv, Busy, task.records = <<>> PROVE OfTask = {}
<1>1. Tells(<<>>, OfTask)
  BY DEF ChatInv, Told
<1> QED BY <1>1 DEF Tells

\* The order agent goes on with its task, without a step of anything else.
LEMMA TaskGoesOn ==
  ASSUME ChatInv, Busy, ~InAction, conv' = conv, turn' = turn, StoreKept,
         task' \in [stage : {"reason", "plan", "act"}, plan : Seq(PlanAction), done : Nat,
                    records : Seq(Nat), since : Nat, before : Nat],
         task'.since = task.since, Tells(task'.records, OfTask),
         task'.stage = "act" \/ task'.records = <<>>
  PROVE  ChatInv'
<1>1. /\ actions' = actions /\ shown' = shown /\ updates' = updates
      /\ deliveries' = deliveries /\ crashes' = crashes
  BY StoreIsKept
<1>2. Busy' /\ ~InAction'
  BY DEF Busy, InAction
<1>3. ChatTypeOK' /\ ConvsSound'
  <2>1. ConvsSound'
    BY DEF ChatInv, ConvsSound, Sound
  <2> QED BY <1>1, <2>1 DEF ChatInv, ChatTypeOK
<1>4. Stages'
  BY <1>2 DEF ChatInv, Stages
<1>5. Marks'
  BY <1>1, <1>2 DEF ChatInv, Marks
<1>6. Told'
  <2>1. OfRuns' = OfRuns /\ OfTask' = OfTask
    BY <1>1, <1>2 DEF OfRuns, OfTask, Kept, PreparedBy
  <2>2. turn.pc \in {"main", "forced"} /\ Tells(turn.runs, OfRuns)
    BY DEF ChatInv, Stages, Told
  <2> QED BY <1>2, <2>1, <2>2 DEF Told
<1>7. ShownOnce'
  <2>1. turn.pc \in {"main", "forced"}
    BY DEF ChatInv, Stages
  <2> QED BY <2>1, ShownIsKept
<1> QED BY <1>3, <1>4, <1>5, <1>6, <1>7 DEF ChatInv

LEMMA ReasonKeeps ==
  ASSUME ChatInv, Reason PROVE ChatInv'
<1>1. task.stage = "reason" /\ Busy /\ ~InAction /\ task.records = <<>>
  BY DEF Reason, ChatInv, Stages, Busy
<1>2. OfTask = {}
  BY <1>1, NothingYetToTell
<1>3. CASE RunEnds(NoAction, {})
  BY <1>1, <1>2, <1>3, NothingTells, RunEndsKeeps DEF NoAction
<1>4. CASE /\ task' = [task EXCEPT !.stage = "plan"]
           /\ UNCHANGED <<conv, turn, store, queue>>
  <2>1. /\ task' \in [stage : {"reason", "plan", "act"}, plan : Seq(PlanAction), done : Nat,
                      records : Seq(Nat), since : Nat, before : Nat]
        /\ task'.since = task.since /\ task'.records = <<>>
    BY <1>1, <1>4 DEF ChatInv, ChatTypeOK
  <2> QED BY <1>1, <1>2, <1>4, <2>1, NothingTells, TaskGoesOn DEF StoreKept
<1> QED BY <1>3, <1>4 DEF Reason

LEMMA PlanKeeps ==
  ASSUME ChatInv, Plan PROVE ChatInv'
<1>1. task.stage = "plan" /\ Busy /\ ~InAction /\ task.records = <<>>
  BY DEF Plan, ChatInv, Stages, Busy
<1>2. OfTask = {}
  BY <1>1, NothingYetToTell
<1>3. CASE TaskRaises
  BY <1>1, <1>3, TaskRaisesKeeps
<1>4. ASSUME NEW p \in Plans, task' = [task EXCEPT !.stage = "act", !.plan = p],
             UNCHANGED <<conv, turn, store, queue>>
      PROVE  ChatInv'
  <2>1. p \in Seq(PlanAction)
    BY PlansArePlans
  <2>2. /\ task' \in [stage : {"reason", "plan", "act"}, plan : Seq(PlanAction), done : Nat,
                      records : Seq(Nat), since : Nat, before : Nat]
        /\ task'.since = task.since /\ task'.records = <<>>
    BY <1>1, <1>4, <2>1 DEF ChatInv, ChatTypeOK
  <2> QED BY <1>1, <1>2, <1>4, <2>2, NothingTells, TaskGoesOn DEF StoreKept
<1> QED BY <1>3, <1>4 DEF Plan

LEMMA SynthesiseKeeps ==
  ASSUME ChatInv, Synthesise PROVE ChatInv'
<1>1. Busy /\ ~InAction
  <2>1. task.done \in Nat /\ Len(task.plan) \in Nat
    BY DEF ChatInv, ChatTypeOK
  <2> QED BY <2>1 DEF Synthesise, ChatInv, Stages, Busy
<1>2. CASE TaskRaises
  BY <1>1, <1>2, TaskRaisesKeeps
<1>3. ASSUME NEW o \in 0 .. Len(actions), IsLastOffer(task.records, o), RunEnds(o, {})
      PROVE  ChatInv'
  <2>1. task.records \in Seq(Nat) /\ o \in Nat /\ OfTask \in SUBSET Nat
        /\ Tells(task.records, OfTask)
    BY <1>1, KeptTyped DEF ChatInv, ChatTypeOK, Told
  <2>2. Latest(o, OfTask \ {})
    BY <1>3, <2>1, LastIsLatest
  <2> QED BY <1>1, <1>3, <2>1, <2>2, RunEndsKeeps
<1> QED BY <1>2, <1>3 DEF Synthesise

LEMMA WidthIsNat == \A a : Width(a) \in Nat
BY ModelCallBounds DEF Width

LEMMA StartActionKeeps ==
  ASSUME ChatInv, StartAction PROVE ChatInv'
<1> DEFINE a == task.plan[task.done + 1]
<1>1. /\ task.stage = "act" /\ task.done < Len(task.plan) /\ ~InAction /\ Busy
      /\ turn' = turn /\ StoreKept
  BY DEF StartAction, InAction, Busy, StoreKept
<1>2. /\ actions' = actions /\ shown' = shown /\ updates' = updates
      /\ deliveries' = deliveries /\ crashes' = crashes
  BY <1>1, StoreIsKept
<1>3. /\ task.records \in Seq(Nat) /\ Tells(task.records, OfTask)
      /\ Len(actions) \in Nat /\ task.since \in Nat /\ task.done \in Nat
      /\ OfTask \in SUBSET Nat /\ Kept \subseteq 1 .. Len(actions)
  BY <1>1, KeptTyped DEF ChatInv, ChatTypeOK, Told
<1>4. CASE a.tool = "missing"
  <2>1. task' = [task EXCEPT !.done = @ + 1, !.records = Append(@, NoAction)] /\ conv' = conv
    BY <1>4 DEF StartAction, Recorded
  <2>2. /\ Append(task.records, NoAction) \in Seq(Nat)
        /\ Tells(Append(task.records, NoAction), OfTask \cup {})
    BY <1>3, NothingTells, OneMoreTold DEF NoAction
  <2>3. PICK n \in Nat, r \in Seq(Nat) :
           n = task.done + 1 /\ r = Append(task.records, NoAction)
    <3> DEFINE w == Append(task.records, NoAction)
    <3>1. w \in Seq(Nat) /\ task.done + 1 \in Nat
      BY <1>3, <2>2
    <3> HIDE DEF w
    <3>2. \E n \in Nat, r \in Seq(Nat) : n = task.done + 1 /\ r = w
      BY <3>1
    <3> QED BY <3>2 DEF w
  <2>4. task' = [task EXCEPT !.done = n, !.records = r]
    BY <2>1, <2>3
  <2>5. /\ task' \in [stage : {"reason", "plan", "act"}, plan : Seq(PlanAction), done : Nat,
                      records : Seq(Nat), since : Nat, before : Nat]
        /\ task'.since = task.since /\ task'.records = r /\ task'.stage = "act"
    BY <1>1, <2>4 DEF ChatInv, ChatTypeOK
  <2> QED BY <1>1, <2>1, <2>2, <2>3, <2>5, TaskGoesOn
<1>5. CASE a.tool # "missing"
  <2>1. /\ SetConv(Action, Started(ChatHistory, Width(a)))
        /\ task' = [task EXCEPT !.before = Len(actions)]
    BY <1>5 DEF StartAction
  <2> DEFINE k == Started(ChatHistory, Width(a))
  <2>2. Sound(k) /\ k.pc = "ready" /\ \A S : Offering(k, S)
    BY WidthIsNat, ChatBounds, StartedIsSound
  <2> HIDE DEF k
  <2>3. ConvsSound' /\ conv'[Action] = k /\ conv'[Main] = conv[Main]
    BY <2>1, <2>2, TwoCallers, ConvIsSet DEF ChatInv, k
  <2>4. PICK n \in Nat : n = Len(actions) /\ task' = [task EXCEPT !.before = n]
    BY <1>3, <2>1
  <2>5. /\ task' \in [stage : {"off", "reason", "plan", "act"}, plan : Seq(PlanAction),
                      done : Nat, records : Seq(Nat), since : Nat, before : Nat]
        /\ task'.since = task.since /\ task'.records = task.records /\ task'.stage = "act"
        /\ task'.done = task.done /\ task'.plan = task.plan /\ task'.before = n
    BY <1>1, <2>4 DEF ChatInv, ChatTypeOK
  <2>6. Busy' /\ InAction'
    BY <2>2, <2>3, <2>5 DEF Busy, InAction
  <2>7. ChatTypeOK'
    BY <1>1, <1>2, <2>5 DEF ChatInv, ChatTypeOK
  <2>8. Stages'
    <3>1. /\ turn.pc \in {"main", "forced"} /\ turn.pc # "idle"
          /\ (turn.pc = "main" => conv[Main].pc = "tools")
      BY <1>1 DEF ChatInv, Stages
    <3> QED BY <1>1, <2>3, <2>5, <2>6, <3>1 DEF Stages
  <2>9. Marks'
    BY <1>1, <1>2, <1>3, <2>4, <2>5, <2>6 DEF ChatInv, Marks
  <2>10. OfRuns' = OfRuns /\ OfTask' = OfTask
    <3>1. Kept' = Kept
      BY <1>1, <1>2 DEF Kept, PreparedBy
    <3>2. \A b \in Kept : b <= n
      BY <1>3, <2>4
    <3> HIDE DEF Kept
    <3> QED BY <1>1, <2>5, <2>6, <3>1, <3>2 DEF OfRuns, OfTask
  <2>11. Told'
    <3>1. turn.pc \in {"main", "forced"} /\ Tells(turn.runs, OfRuns)
      BY <1>1 DEF ChatInv, Stages, Told
    <3>2. Offering(conv'[Action], task'.before + 1 .. Len(actions'))
      BY <2>2, <2>3
    <3> QED BY <1>1, <1>3, <2>5, <2>10, <3>1, <3>2 DEF Told
  <2>12. ShownOnce'
    <3>1. turn.pc \in {"main", "forced"}
      BY <1>1 DEF ChatInv, Stages
    <3> QED BY <1>1, <3>1, ShownIsKept
  <2> QED BY <2>3, <2>7, <2>8, <2>9, <2>11, <2>12 DEF ChatInv
<1> QED BY <1>4, <1>5

\* What a list of messages still offers of a range of actions.
LEMMA OffersTell ==
  ASSUME NEW m \in Seq(Message), NEW R \in SUBSET (Nat \ {NoAction}), Carries(m, R)
  PROVE  /\ OffersIn(m) \in Seq(Nat)
         /\ Tells(OffersIn(m), {a \in R : \E i \in DOMAIN OffersIn(m) : OffersIn(m)[i] = a})
<1> DEFINE s == OffersIn(m)
<1>1. DOMAIN s = DOMAIN m /\ \A i \in DOMAIN m : s[i] = m[i].offer /\ s[i] \in Nat
  <2>1. \A i \in DOMAIN m : m[i] \in Message
    OBVIOUS
  <2>2. \A i \in DOMAIN m : m[i].offer \in Nat
    BY <2>1 DEF Message
  <2> QED BY <2>2 DEF OffersIn
<1>2. s \in Seq(Nat)
  <2>1. PICK n \in Nat : DOMAIN m = 1 .. n
    OBVIOUS
  <2>2. s = [i \in 1 .. n |-> m[i].offer]
    BY <2>1 DEF OffersIn
  <2>3. \A i \in 1 .. n : m[i].offer \in Nat
    BY <1>1, <2>1
  <2> HIDE DEF s
  <2> QED BY <2>2, <2>3
<1> HIDE DEF s
<1>3. \A i \in DOMAIN s : s[i] # NoAction => s[i] \in R
  BY <1>1 DEF Carries
<1>4. \A i, j \in DOMAIN s : i < j /\ s[i] # NoAction /\ s[j] # NoAction => s[i] < s[j]
  <2> TAKE i, j \in DOMAIN s
  <2>1. i \in DOMAIN m /\ j \in DOMAIN m /\ s[i] = m[i].offer /\ s[j] = m[j].offer
    BY <1>1
  <2> QED BY <2>1 DEF Carries
<1>5. ASSUME NEW a \in {x \in R : \E i \in DOMAIN s : s[i] = x}
      PROVE  \E i \in DOMAIN s : s[i] # NoAction /\ a <= s[i]
  BY <1>1
<1>6. Tells(s, {x \in R : \E i \in DOMAIN s : s[i] = x})
  BY <1>3, <1>4, <1>5 DEF Tells
<1> QED BY <1>2, <1>6 DEF s

LEMMA FinishActionKeeps ==
  ASSUME ChatInv, FinishAction PROVE ChatInv'
<1> DEFINE m == conv[Action].messages
           offers == OffersIn(m)
           R == task.before + 1 .. Len(actions)
           D == {a \in R : \A i \in DOMAIN offers : offers[i] # a}
           L == {a \in R : \E i \in DOMAIN offers : offers[i] = a}
<1>1. PICK o \in 0 .. Len(actions) : IsLastOffer(offers, o) /\ Recorded(o)
  BY DEF FinishAction
<1>2. /\ InAction /\ SetConv(Action, NoConversation) /\ turn' = [turn EXCEPT !.lost = @ \cup D]
      /\ StoreKept
  BY DEF FinishAction, InAction, StoreKept
<1>3. /\ actions' = actions /\ shown' = shown /\ updates' = updates
      /\ deliveries' = deliveries /\ crashes' = crashes
  BY <1>2, StoreIsKept
<1>4. /\ Busy /\ task.stage = "act" /\ turn.pc \in {"main", "forced"}
      /\ Tells(turn.runs, OfRuns) /\ Tells(task.records, OfTask)
      /\ Offering(conv[Action], R)
  BY <1>2 DEF ChatInv, Stages, Told, Busy
<1>5. /\ task.records \in Seq(Nat) /\ task.since \in Nat /\ task.before \in Nat
      /\ task.done \in Nat /\ Len(actions) \in Nat /\ DOMAIN actions = 1 .. Len(actions)
      /\ turn.lost \in SUBSET Nat /\ OfRuns \in SUBSET Nat /\ OfTask \in SUBSET Nat
      /\ Kept \subseteq 1 .. Len(actions)
  BY KeptTyped DEF ChatInv, ChatTypeOK
<1>6. /\ task.since <= task.before /\ task.before <= Len(actions)
      /\ turn.lost \subseteq 1 .. task.before
      /\ \A a \in task.since + 1 .. Len(actions) : actions[a] = deliveries
  BY <1>2, <1>4 DEF ChatInv, Marks
<1>7. R \in SUBSET (Nat \ {NoAction}) /\ D \in SUBSET R /\ L = R \ D
      /\ \A a \in R : task.before < a /\ task.since < a /\ a <= Len(actions)
  BY <1>5, <1>6 DEF NoAction
<1>8. offers \in Seq(Nat) /\ Tells(offers, L)
  <2>1. m \in Seq(Message) /\ Carries(m, R)
    BY <1>4, TwoCallers DEF ChatInv, ConvsSound, Sound, Conversation, Offering
  <2> HIDE DEF m, R
  <2> QED BY <1>7, <2>1, OffersTell
<1>9. Latest(o, L) /\ o \in Nat
  <2>1. L \in SUBSET Nat /\ o \in Nat
    BY <1>5, <1>7
  <2> HIDE DEF offers, L
  <2> QED BY <1>1, <1>8, <2>1, LastIsLatest
<1> HIDE DEF m, offers, D, L, R
<1>10. \A x \in OfTask, y \in L : x < y
  <2>1. \A x \in OfTask : x <= task.before /\ x \in Nat
    BY <1>2, <1>5 DEF OfTask
  <2>2. \A y \in L : task.before < y /\ y \in Nat
    BY <1>7
  <2> QED BY <1>5, <2>1, <2>2
<1>11. PICK r \in Seq(Nat), n \in Nat : r = Append(task.records, o) /\ n = task.done + 1
                                        /\ Tells(r, OfTask \cup L)
  <2> DEFINE w == Append(task.records, o)
  <2>1. w \in Seq(Nat) /\ Tells(w, OfTask \cup L) /\ task.done + 1 \in Nat
    <3>1. L \in SUBSET Nat
      BY <1>7
    <3> QED BY <1>4, <1>5, <1>9, <1>10, <3>1, OneMoreTold
  <2> HIDE DEF w
  <2>2. \E r \in Seq(Nat), n \in Nat : r = w /\ n = task.done + 1 /\ Tells(r, OfTask \cup L)
    BY <2>1
  <2> QED BY <2>2 DEF w
<1>12. task' = [task EXCEPT !.done = n, !.records = r]
  BY <1>1, <1>11 DEF Recorded
<1>13. /\ task' \in [stage : {"off", "reason", "plan", "act"}, plan : Seq(PlanAction),
                     done : Nat, records : Seq(Nat), since : Nat, before : Nat]
       /\ task'.since = task.since /\ task'.records = r /\ task'.stage = "act"
  BY <1>4, <1>12 DEF ChatInv, ChatTypeOK
<1>14. /\ turn'.lost = turn.lost \cup D /\ turn'.pc = turn.pc /\ turn'.runs = turn.runs
       /\ turn' \in [pc : TurnPc, message : Nat, runs : Seq(Nat), offer : Nat, lost : SUBSET Nat]
  BY <1>2, <1>5, <1>7 DEF ChatInv, ChatTypeOK
<1>15. ConvsSound' /\ conv'[Action] = NoConversation /\ conv'[Main] = conv[Main]
  BY <1>2, TwoCallers, NoConversationIsSound, ConvIsSet DEF ChatInv
<1>16. Busy' /\ ~InAction'
  BY <1>13, <1>15, NoConversationIsSound DEF Busy, InAction
<1>17. ChatTypeOK'
  BY <1>3, <1>13, <1>14 DEF ChatInv, ChatTypeOK
<1>18. Stages'
  <2>1. turn.pc # "idle" /\ (turn.pc = "main" => conv[Main].pc = "tools")
    BY <1>4 DEF ChatInv, Stages
  <2> QED BY <1>4, <1>13, <1>14, <1>15, <1>16, <2>1 DEF Stages
<1>19. Marks'
  <2>1. D \subseteq 1 .. Len(actions)
    BY <1>5, <1>7
  <2> QED BY <1>3, <1>4, <1>13, <1>14, <1>16, <2>1 DEF ChatInv, Marks
<1>20. Kept' = Kept \ D
  BY <1>3, <1>14 DEF Kept, PreparedBy
<1>21. OfRuns' = OfRuns
  <2>1. \A a \in D : ~(a <= task.since)
    BY <1>5, <1>7
  <2> HIDE DEF Kept
  <2> QED BY <1>4, <1>13, <1>16, <1>20, <2>1 DEF OfRuns
<1>22. OfTask' = OfTask \cup L
  <2>1. OfTask' = {a \in Kept \ D : task.since < a}
    BY <1>13, <1>16, <1>20 DEF OfTask
  <2>2. OfTask = {a \in Kept : task.since < a /\ a <= task.before}
    BY <1>2 DEF OfTask
  <2>3. \A a \in L : a \in Kept /\ a \notin D /\ task.since < a
    <3> TAKE a \in L
    <3>1. a \in R /\ a \notin D
      BY <1>7
    <3>2. a \in Nat /\ task.before < a /\ task.since < a /\ a <= Len(actions)
      BY <1>7, <3>1
    <3>3. a \in task.since + 1 .. Len(actions) /\ a \notin 1 .. task.before
      BY <1>5, <3>2
    <3>4. a \in DOMAIN actions
      BY <1>5, <3>2
    <3>5. actions[a] = deliveries /\ a \notin turn.lost
      BY <1>6, <3>3
    <3> QED BY <3>1, <3>2, <3>4, <3>5 DEF Kept, PreparedBy
  <2>4. \A a \in Kept \ D : task.before < a => a \in L
    <3>1. \A a \in Kept : task.before < a => a \in R
      BY <1>5 DEF R
    <3> HIDE DEF Kept
    <3> QED BY <1>7, <3>1
  <2>5. \A a \in OfTask : a \notin D
    BY <1>5, <1>7, <2>2
  <2>6. \A a \in Kept : a <= task.before \/ task.before < a
    BY <1>5
  <2> HIDE DEF Kept
  <2> QED BY <2>1, <2>2, <2>3, <2>4, <2>5, <2>6
<1>23. Told'
  BY <1>4, <1>11, <1>13, <1>14, <1>16, <1>21, <1>22 DEF Told
<1>24. ShownOnce'
  BY <1>2, <1>4, ShownIsKept
<1> QED BY <1>15, <1>17, <1>18, <1>19, <1>23, <1>24 DEF ChatInv

\* A tool call may prepare an action, the last one then.
LEMMA BrokerToolKeeps ==
  ASSUME ChatInv, BrokerTool PROVE ChatInv'
<1> DEFINE k == conv[Action]
<1>1. /\ InAction /\ k.pc = "tools" /\ Sound(k) /\ turn' = turn /\ task' = task /\ shown' = shown
      /\ updates' = updates /\ deliveries' = deliveries /\ crashes' = crashes
  BY TwoCallers DEF BrokerTool, InAction, queue, ChatInv, ConvsSound
<1>2. /\ Busy /\ task.stage = "act" /\ turn.pc \in {"main", "forced"}
      /\ Tells(turn.runs, OfRuns) /\ Tells(task.records, OfTask)
      /\ Offering(k, task.before + 1 .. Len(actions))
  BY <1>1 DEF ChatInv, Stages, Told, Busy
<1>3. /\ actions \in Seq(Nat) /\ deliveries \in Nat /\ task.since \in Nat /\ task.before \in Nat
      /\ Kept \subseteq 1 .. Len(actions)
  BY KeptTyped DEF ChatInv, ChatTypeOK
<1>4. PICK n \in Nat : n = Len(actions) /\ DOMAIN actions = 1 .. n
  BY <1>3
<1>5. /\ task.since <= task.before /\ task.before <= n /\ turn.lost \subseteq 1 .. task.before
      /\ turn.lost \subseteq 1 .. n
      /\ \A a \in 1 .. n : actions[a] <= deliveries
      /\ \A a \in task.since + 1 .. n : actions[a] = deliveries
  BY <1>1, <1>2, <1>4 DEF ChatInv, Marks
<1>6. PICK o \in Nat :
         /\ SetConv(Action, ToolAnswered(k, o))
         /\ \/ o = n + 1 /\ actions' = Append(actions, deliveries)
            \/ o = NoAction /\ actions' = actions
  BY <1>4 DEF BrokerTool, NoAction
<1>7. /\ Sound(ToolAnswered(k, o)) /\ ToolAnswered(k, o).pc # "idle"
      /\ \A S, T : Offering(k, S) /\ Newer(o, S, T) => Offering(ToolAnswered(k, o), T)
  <2> HIDE DEF k
  <2> QED BY <1>1, ToolAnsweredIsSound
<1>8. ConvsSound' /\ conv'[Action] = ToolAnswered(k, o) /\ conv'[Main] = conv[Main]
  BY <1>6, <1>7, TwoCallers, ConvIsSet DEF ChatInv
<1> HIDE DEF k
<1>9. Busy' /\ InAction'
  BY <1>1, <1>2, <1>7, <1>8 DEF Busy, InAction
<1>10. Stages'
  <2>1. /\ turn.pc # "idle" /\ (turn.pc = "main" => conv[Main].pc = "tools")
        /\ task.done < Len(task.plan)
    BY <1>1, <1>2 DEF ChatInv, Stages
  <2> QED BY <1>1, <1>2, <1>8, <1>9, <2>1 DEF Stages
<1>11. PICK l \in Nat :
          /\ l = Len(actions') /\ DOMAIN actions' = 1 .. l /\ actions' \in Seq(Nat)
          /\ n <= l /\ (\A a \in 1 .. n : actions'[a] = actions[a])
          /\ (\A a \in 1 .. l : a \in 1 .. n \/ (a = n + 1 /\ actions'[a] = deliveries))
          /\ (o = NoAction \/ (o = n + 1 /\ l = n + 1))
  <2>1. CASE o = NoAction /\ actions' = actions
    BY <1>3, <1>4, <2>1
  <2>2. CASE o = n + 1 /\ actions' = Append(actions, deliveries)
    <3> DEFINE w == Append(actions, deliveries)
    <3>1. /\ w \in Seq(Nat) /\ Len(w) = n + 1 /\ w[n + 1] = deliveries
          /\ \A a \in 1 .. n : w[a] = actions[a]
      BY <1>3, <1>4, AppendAt
    <3> HIDE DEF w
    <3>2. /\ Len(w) \in Nat /\ DOMAIN w = 1 .. n + 1
      BY <3>1
    <3>3. actions' = w
      BY <2>2 DEF w
    <3> QED BY <1>4, <2>2, <3>1, <3>2, <3>3
  <2> QED BY <1>6, <2>1, <2>2
<1>12. ChatTypeOK'
  BY <1>1, <1>11 DEF ChatInv, ChatTypeOK
<1>13. Marks'
  <2>1. \A a \in 1 .. l : actions'[a] <= deliveries
    BY SMTT(30), <1>3, <1>5, <1>11
  <2>2. turn.lost \subseteq 1 .. l
    BY <1>4, <1>5, <1>11
  <2>3. ASSUME NEW a \in task.since + 1 .. l PROVE actions'[a] = deliveries
    <3>1. a \in 1 .. l /\ (a \in 1 .. n => a \in task.since + 1 .. n)
      BY <1>3
    <3> QED BY <1>5, <1>11, <3>1
  <2>4. task.since <= l /\ task.before <= l
    BY <1>3, <1>5, <1>11
  <2> QED BY <1>1, <1>5, <1>9, <1>11, <2>1, <2>2, <2>3, <2>4 DEF Marks
<1>14. \A d : PreparedBy(d) \subseteq PreparedBy(d)'
  BY <1>4, <1>11 DEF PreparedBy
<1>15. /\ Kept \subseteq Kept' /\ \A a \in Kept' : a \in Kept \/ n < a
       /\ \A a \in Kept : a <= n /\ a \in Nat
  <2>1. Kept \subseteq Kept'
    BY <1>1, <1>14 DEF Kept
  <2>2. \A a \in Kept' : a \in Kept \/ n < a
    <3>1. \A a \in DOMAIN actions' : a \in 1 .. n \/ n < a
      BY <1>11
    <3> QED BY <1>1, <1>4, <1>11, <3>1 DEF Kept, PreparedBy
  <2> QED BY <1>3, <1>4, <2>1, <2>2
<1>16. OfRuns' = OfRuns /\ OfTask' = OfTask
  <2>1. Kept' \subseteq 1 .. l
    BY <1>11 DEF Kept, PreparedBy
  <2>2. \A a \in Kept' : a <= task.since \/ a <= task.before => a \in Kept
    <3> TAKE a \in Kept'
    <3>1. a \in Nat /\ (a <= task.since \/ a <= task.before => ~(n < a))
      BY <1>3, <1>5, <2>1
    <3> QED BY <1>15, <3>1
  <2> HIDE DEF Kept
  <2>3. OfRuns = {a \in Kept : a <= task.since} /\ OfRuns' = {a \in Kept' : a <= task.since}
    BY <1>1, <1>2, <1>9 DEF OfRuns
  <2>4. /\ OfTask = {a \in Kept : task.since < a /\ a <= task.before}
        /\ OfTask' = {a \in Kept' : task.since < a /\ a <= task.before}
    BY <1>1, <1>9 DEF OfTask
  <2> QED BY <1>15, <2>2, <2>3, <2>4
<1>17. Told'
  <2> DEFINE S == task.before + 1 .. n
             T == task.before + 1 .. l
  <2>1. Newer(o, S, T)
    BY <1>3, <1>5, <1>11 DEF Newer
  <2>2. Offering(conv'[Action], T)
    <3>1. Offering(k, S)
      BY <1>2, <1>4
    <3> QED BY <1>7, <1>8, <2>1, <3>1
  <2> HIDE DEF S
  <2>3. Offering(conv[Action], task.before + 1 .. Len(actions))'
    BY <1>1, <1>11, <2>2
  <2> QED BY <1>1, <1>2, <1>9, <1>16, <2>3 DEF Told
<1>18. ShownOnce'
  BY <1>1, <1>14 DEF ChatInv, ShownOnce, OffersAreOwn
<1> QED BY <1>8, <1>10, <1>12, <1>13, <1>17, <1>18 DEF ChatInv

LEMMA ConcludeKeeps ==
  ASSUME ChatInv, Conclude PROVE ChatInv'
<1>1. /\ turn.pc \in {"concluded", "main"} /\ SetConv(Main, NoConversation) /\ task' = task
      /\ StoreKept /\ ~Busy /\ ~InAction
  BY DEF Conclude, ChatInv, Stages, Busy, StoreKept
<1>2. /\ actions' = actions /\ shown' = shown /\ updates' = updates
      /\ deliveries' = deliveries /\ crashes' = crashes
  BY <1>1, StoreIsKept
<1>3. ConvsSound' /\ conv'[Action] = conv[Action]
  BY <1>1, TwoCallers, NoConversationIsSound, ConvIsSet DEF ChatInv
<1>4. ~Busy' /\ ~InAction'
  BY <1>1, <1>3 DEF Busy, InAction
<1>5. /\ turn.runs \in Seq(Nat) /\ OfRuns = Kept /\ Kept \in SUBSET Nat
      /\ Tells(turn.runs, Kept) /\ Len(actions) \in Nat
  <2>1. OfRuns = Kept
    BY <1>1 DEF OfRuns
  <2> QED BY <1>1, <2>1, KeptTyped DEF ChatInv, ChatTypeOK, Told
<1>6. /\ turn'.lost = turn.lost /\ turn'.pc \in {"reply", "error"}
      /\ turn'.pc = "reply" => Latest(turn'.offer, Kept)
      /\ turn' \in [pc : TurnPc, message : Nat, runs : Seq(Nat), offer : Nat, lost : SUBSET Nat]
  <2>1. ASSUME NEW o \in 0 .. Len(actions), IsLastOffer(turn.runs, o),
               turn' = [turn EXCEPT !.pc = "reply", !.offer = o]
        PROVE  /\ turn'.lost = turn.lost /\ turn'.pc \in {"reply", "error"}
               /\ turn'.pc = "reply" => Latest(turn'.offer, Kept)
               /\ turn' \in [pc : TurnPc, message : Nat, runs : Seq(Nat), offer : Nat,
                             lost : SUBSET Nat]
    <3>1. o \in Nat
      BY <1>5
    <3>2. Latest(o, Kept)
      BY <1>5, <2>1, <3>1, LastIsLatest
    <3>3. /\ turn'.lost = turn.lost /\ turn'.pc = "reply" /\ turn'.offer = o
          /\ turn' \in [pc : TurnPc, message : Nat, runs : Seq(Nat), offer : Nat,
                        lost : SUBSET Nat]
      BY <2>1, <3>1 DEF ChatInv, ChatTypeOK, TurnPc
    <3> QED BY <3>2, <3>3
  <2>2. CASE turn' = [turn EXCEPT !.pc = "error"]
    BY <2>2 DEF ChatInv, ChatTypeOK, TurnPc
  <2> QED BY <2>1, <2>2 DEF Conclude
<1>7. ChatTypeOK'
  BY <1>1, <1>2, <1>6 DEF ChatInv, ChatTypeOK
<1>8. Stages'
  BY <1>1, <1>4, <1>6 DEF ChatInv, Stages
<1>9. Marks'
  BY <1>2, <1>4, <1>6 DEF ChatInv, Marks
<1>10. Told'
  <2>1. Kept' = Kept
    BY <1>2, <1>6 DEF Kept, PreparedBy
  <2> QED BY <1>4, <1>6, <2>1 DEF Told
<1>11. ShownOnce'
  BY <1>1, ShownIsKept
<1> QED BY <1>3, <1>7, <1>8, <1>9, <1>10, <1>11 DEF ChatInv

\* The turn is over, with the store left as it is.
LEMMA TurnOverKeeps ==
  ASSUME ChatInv, turn' = NoTurn, ~Busy', ~InAction', ConvsSound', task' = NoTask \/ task' = task,
         UNCHANGED <<store, deliveries>>, updates' \subseteq updates, crashes' \in Nat
  PROVE  ChatInv'
<1>1. actions' = actions /\ shown' = shown /\ deliveries' = deliveries
  BY DEF store
<1>2. ChatTypeOK'
  BY <1>1, NoTurnTyped DEF ChatInv, ChatTypeOK
<1>3. Stages'
  BY NoTurnTyped DEF ChatInv, Stages
<1>4. Marks'
  BY <1>1, NoTurnTyped DEF ChatInv, Marks
<1>5. Told'
  BY NoTurnTyped DEF Told
<1>6. ShownOnce'
  BY <1>1, NoTurnTyped DEF ChatInv, ShownOnce, OffersAreOwn, PreparedBy
<1> QED BY <1>2, <1>3, <1>4, <1>5, <1>6 DEF ChatInv

LEMMA BridgeKeeps ==
  ASSUME ChatInv, Attach \/ SendAnswer PROVE ChatInv'
<1>1. /\ turn.pc \in {"attach", "reply", "error"} /\ turn' = NoTurn /\ updates' \subseteq updates
      /\ conv' = conv /\ task' = task /\ UNCHANGED <<store, deliveries>> /\ crashes' = crashes
  BY DEF Attach, SendAnswer, TurnOver, Handled
<1>2. ~Busy' /\ ~InAction'
  BY <1>1 DEF ChatInv, Stages, Busy, InAction
<1>3. ConvsSound' /\ crashes' \in Nat
  BY <1>1 DEF ChatInv, ChatTypeOK, ConvsSound, Sound
<1> QED BY <1>1, <1>2, <1>3, TurnOverKeeps

LEMMA CrashKeeps ==
  ASSUME ChatInv, Crash PROVE ChatInv'
<1>1. /\ turn' = NoTurn /\ task' = NoTask /\ updates' \subseteq updates
      /\ conv' = [c \in Caller |-> NoConversation] /\ UNCHANGED <<store, deliveries>>
      /\ crashes' = crashes + 1
  BY DEF Crash
<1>2. ~Busy' /\ ~InAction'
  BY <1>1, TwoCallers, NoTurnTyped, NoConversationIsSound DEF Busy, InAction
<1>3. ConvsSound' /\ crashes' \in Nat
  BY <1>1, NoConversationIsSound DEF ConvsSound, Sound, ChatInv, ChatTypeOK
<1> QED BY <1>1, <1>2, <1>3, TurnOverKeeps

LEMMA SendApprovalKeeps ==
  ASSUME ChatInv, SendApproval PROVE ChatInv'
<1> DEFINE new == [delivery |-> deliveries, action |-> turn.offer]
<1>1. /\ turn.pc = "reply" /\ turn.offer # NoAction /\ shown' = shown \cup {new}
      /\ turn' = [turn EXCEPT !.pc = "attach"] /\ conv' = conv /\ task' = task
      /\ actions' = actions /\ updates' = updates /\ deliveries' = deliveries
      /\ crashes' = crashes
  BY DEF SendApproval, queue
<1>2. /\ ~Busy /\ ~InAction /\ ~Busy' /\ ~InAction'
  BY <1>1 DEF ChatInv, Stages, Busy, InAction
<1>3. /\ turn'.pc = "attach" /\ turn'.lost = turn.lost /\ turn'.offer = turn.offer
      /\ turn' \in [pc : TurnPc, message : Nat, runs : Seq(Nat), offer : Nat, lost : SUBSET Nat]
  BY <1>1 DEF ChatInv, ChatTypeOK, TurnPc
<1>4. turn.offer \in PreparedBy(deliveries)
  BY <1>1 DEF ChatInv, Told, Latest, Kept
<1>5. ConvsSound' /\ ChatTypeOK'
  <2>1. ConvsSound'
    BY <1>1 DEF ChatInv, ConvsSound, Sound
  <2>2. new \in [delivery : Nat, action : Nat]
    BY DEF ChatInv, ChatTypeOK
  <2> HIDE DEF new
  <2> QED BY <1>1, <1>3, <2>1, <2>2 DEF ChatInv, ChatTypeOK
<1>6. Stages'
  BY <1>1, <1>2, <1>3 DEF ChatInv, Stages
<1>7. Marks'
  BY <1>1, <1>2, <1>3 DEF ChatInv, Marks
<1>8. Told'
  <2>1. Kept' = Kept
    BY <1>1, <1>3 DEF Kept, PreparedBy
  <2> QED BY <1>1, <1>2, <1>3, <2>1 DEF ChatInv, Told
<1>9. ShownOnce'
  <2>1. \A d : PreparedBy(d)' = PreparedBy(d)
    BY <1>1 DEF PreparedBy
  <2>2. \A s \in shown : s.delivery \in Nat /\ s.delivery < deliveries
    BY <1>1 DEF ChatInv, ChatTypeOK, ShownOnce
  <2>3. deliveries \in Nat /\ new.delivery = deliveries /\ new.action = turn.offer
    BY DEF ChatInv, ChatTypeOK
  <2> HIDE DEF new
  <2>4. \A s \in shown \cup {new} : s.action \in PreparedBy(s.delivery)
    BY <1>4, <2>3 DEF ChatInv, ShownOnce, OffersAreOwn
  <2>5. \A s, t \in shown \cup {new} : t.delivery = s.delivery => t = s
    BY <2>2, <2>3 DEF ChatInv, ShownOnce, OffersAreOwn
  <2>6. \A s \in shown \cup {new} : s.delivery <= deliveries
    BY <2>2, <2>3
  <2> QED BY <1>1, <1>3, <2>1, <2>4, <2>5, <2>6 DEF ShownOnce, OffersAreOwn
<1> QED BY <1>5, <1>6, <1>7, <1>8, <1>9 DEF ChatInv

LEMMA ModelStepKeeps ==
  ASSUME ChatInv, ModelStep PROVE ChatInv'
<1>1. PICK c \in Caller : ConvStep(c)
  BY DEF ModelStep
<1>2. turn' = turn /\ task' = task /\ StoreKept
  BY DEF ModelStep, StoreKept
<1>3. /\ actions' = actions /\ shown' = shown /\ updates' = updates
      /\ deliveries' = deliveries /\ crashes' = crashes
  BY <1>2, StoreIsKept
<1>4. conv[c].pc \in {"ready", "asked"} /\ \E q : SetConv(c, q) /\ Follows(q, conv[c])
  BY <1>1, ConvStepFollows DEF ChatInv, ConvsSound
<1>5. PICK q : SetConv(c, q) /\ Follows(q, conv[c])
  BY <1>4
<1>6. ConvsSound' /\ conv'[c] = q /\ \A d \in Caller : d # c => conv'[d] = conv[d]
  BY <1>5, ConvIsSet DEF ChatInv, Follows
<1>7. InAction' = InAction
  BY <1>4, <1>5, <1>6, TwoCallers DEF InAction, Follows
<1>8. Busy' = Busy
  BY <1>2 DEF Busy
<1>9. ChatTypeOK'
  BY <1>2, <1>3 DEF ChatInv, ChatTypeOK
<1>10. Stages'
  <2>1. Busy /\ turn.pc = "main" => conv'[Main].pc = "tools"
    <3>1. ASSUME Busy, turn.pc = "main" PROVE conv'[Main].pc = "tools"
      <4>1. conv[Main].pc = "tools"
        BY <3>1 DEF ChatInv, Stages
      <4> QED BY <1>4, <1>6, <4>1, TwoCallers
    <3> QED BY <3>1
  <2> QED BY <1>2, <1>7, <1>8, <2>1 DEF ChatInv, Stages
<1>11. Marks'
  BY <1>2, <1>3, <1>7, <1>8 DEF ChatInv, Marks
<1>12. Told'
  <2>1. Kept' = Kept
    BY <1>2, <1>3 DEF Kept, PreparedBy
  <2>2. OfRuns' = OfRuns /\ OfTask' = OfTask
    BY <1>2, <1>7, <1>8, <2>1 DEF OfRuns, OfTask
  <2>3. \A S : Offering(conv[Action], S) => Offering(conv'[Action], S)
    BY <1>5, <1>6, TwoCallers DEF Follows
  <2>4. InAction' => Offering(conv'[Action], task'.before + 1 .. Len(actions'))
    BY <1>2, <1>3, <1>7, <2>3 DEF ChatInv, Told
  <2> QED BY <1>2, <1>8, <2>1, <2>2, <2>4 DEF ChatInv, Told
<1>13. ShownOnce'
  BY <1>2, <1>3 DEF ChatInv, ShownOnce, OffersAreOwn, PreparedBy
<1> QED BY <1>6, <1>9, <1>10, <1>11, <1>12, <1>13 DEF ChatInv

-----------------------------------------------------------------------------
(* The theorems *)

LEMMA StutterKeeps == ASSUME ChatInv, UNCHANGED vars PROVE ChatInv'
<1>1. /\ conv' = conv /\ updates' = updates /\ turn' = turn /\ task' = task
      /\ actions' = actions /\ shown' = shown /\ deliveries' = deliveries /\ crashes' = crashes
  BY DEF vars
<1>2. ChatTypeOK' /\ ConvsSound'
  BY <1>1 DEF ChatInv, ChatTypeOK, ConvsSound, Sound
<1>3. Busy' = Busy /\ InAction' = InAction
  BY <1>1 DEF Busy, InAction
<1>4. Kept' = Kept
  BY <1>1 DEF Kept, PreparedBy
<1>5. OfRuns' = OfRuns /\ OfTask' = OfTask
  BY <1>1, <1>3, <1>4 DEF OfRuns, OfTask
<1>6. Stages' /\ Marks'
  BY <1>1, <1>3 DEF ChatInv, Stages, Marks
<1>7. Told'
  BY <1>1, <1>3, <1>4, <1>5 DEF ChatInv, Told
<1>8. ShownOnce'
  BY <1>1 DEF ChatInv, ShownOnce, OffersAreOwn, PreparedBy
<1> QED BY <1>2, <1>6, <1>7, <1>8 DEF ChatInv

LEMMA StepKeeps == ASSUME ChatInv, [ChatNext]_vars PROVE ChatInv'
<1>1. CASE Crash
  BY <1>1, CrashKeeps
<1>2. CASE TakeMessage \/ TakeCommand
  BY <1>2, TakeMessageKeeps, TakeCommandKeeps
<1>3. CASE DelegateOrder \/ DelegateOther \/ Conclude
  BY <1>3, DelegateOrderKeeps, DelegateOtherKeeps, ConcludeKeeps
<1>4. CASE Reason \/ Plan \/ StartAction \/ BrokerTool \/ FinishAction \/ Synthesise
  BY <1>4, ReasonKeeps, PlanKeeps, StartActionKeeps, BrokerToolKeeps, FinishActionKeeps,
     SynthesiseKeeps
<1>5. CASE SendApproval \/ Attach \/ SendAnswer
  BY <1>5, SendApprovalKeeps, BridgeKeeps
<1>6. CASE ModelStep
  BY <1>6, ModelStepKeeps
<1>7. CASE UNCHANGED vars
  BY <1>7, StutterKeeps
<1> QED BY <1>1, <1>2, <1>3, <1>4, <1>5, <1>6, <1>7 DEF ChatNext, Work

\* The invariant behind the three theorems, of a conversation and of a turn.
THEOREM TurnsAreSound == ChatSpec => []ChatInv
<1>1. ChatInit => ChatInv
  BY InitIsSound
<1>2. ChatInv /\ [ChatNext]_vars => ChatInv'
  BY StepKeeps
<1> QED BY <1>1, <1>2, PTL DEF ChatSpec

\* Whatever a compaction, a retry or a spent budget does to a conversation, no request
\* goes to the provider with a tool message that lacks its call, or the other way
\* round: for contexts and plans of any length (truncate_messages, _recent_start,
\* _append_tool_budget_exceeded_messages).
THEOREM RequestsStayPaired == ChatSpec => []RequestsArePaired
<1>1. ChatInv => RequestsArePaired
  BY DEF ChatInv, ConvsSound, Sound, Good, RequestsArePaired
<1> QED BY <1>1, TurnsAreSound, PTL

\* Nothing is shown for approval that was not prepared while that delivery was at
\* work, and never two things for one delivery, with any number of messages, of
\* redeliveries after a crash and of actions prepared for one.
THEOREM OffersStayOwn == ChatSpec => []OffersAreOwn
<1>1. ChatInv => OffersAreOwn
  BY DEF ChatInv, ShownOnce
<1> QED BY <1>1, TurnsAreSound, PTL

\* Through the messages of an action, the records of a plan and the runs of a turn it
\* is always the action prepared last that is handed on, as far as its approval was not
\* dropped on the way (the three loops over reversed lists).
THEOREM LastPreparedStaysOffered == ChatSpec => []LastPreparedIsOffered
<1>1. ChatInv => LastPreparedIsOffered
  <2>1. ASSUME ChatInv, turn.pc \in {"reply", "attach"} PROVE Latest(turn.offer, Kept)
    BY <2>1 DEF ChatInv, Told
  <2> HIDE DEF ChatInv
  <2> QED BY <2>1 DEF LastPreparedIsOffered, Latest, Kept
<1> QED BY <1>1, TurnsAreSound, PTL

=============================================================================
