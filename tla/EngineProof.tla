---------------------------- MODULE EngineProof ----------------------------
(***************************************************************************)
(* Proofs about the engine: EngineSession for any number of sessions and   *)
(* callers, EngineCache for any number of tasks, objects, rotations and    *)
(* attempts.                                                               *)
(*                                                                         *)
(* The invariant of the sessions has two halves: what is true of every     *)
(* graph of tokens the operations build (references lead to higher ranks,  *)
(* so that the walk of `cancel` reaches all there is, and what hangs from  *)
(* a cancelled token is cancelled), and by which references the tokens of  *)
(* one session hang together in each of its states.                        *)
(*                                                                         *)
(* A cache entry is current because the answer it holds carries the        *)
(* generation its call took with the secret, and the write block that      *)
(* stores it compares that generation with the installed one; a refreshed  *)
(* answer is new because the object's version only grows between the start *)
(* of the call and the provider's look.                                    *)
(***************************************************************************)
EXTENDS EngineSession, EngineCache, FiniteSetTheorems, TLAPS

\* How far from a root a token of each role is made.
RankOf == [engine |-> 0, caller |-> 0, session |-> 1, linked |-> 2, lent |-> 2, inner |-> 3,
           op |-> 4, stream |-> 4]
Rank(t) == RankOf[t[1]]

\* A graph of tokens as the operations build it.
GraphOK(g) ==
    /\ g.live \in SUBSET Token /\ g.cancelled \in SUBSET Token
    /\ g.kids \in [Token -> SUBSET Token]
    /\ \A p \in Token : \A x \in g.kids[p] : Rank(p) < Rank(x)
    /\ \A p \in g.cancelled : g.kids[p] \subseteq g.cancelled

TokensOK == GraphOK(Graph)

\* The states in which a session has a transaction.
Busy == InFlight \cup {"txn", "stream"}

\* The references between the tokens of a session, and the token its
\* provider call looks at.
ChainOf(s) ==
    /\ st[s] \notin {"absent", "counted", "dropped"} => Tok("session", s) \in kids[Engine]
    /\ st[s] \in Busy \cup {"linking"} => form[s] \in {"borrowed", "owned"} /\ caller[s] \in Caller
    /\ st[s] \in {"linking", "beginning"} => ~streamed[s]
    /\ st[s] \in {"opening", "stream", "fetching"} => streamed[s]
    /\ st[s] \in Busy /\ (form[s] = "borrowed" \/ ~streamed[s]) =>
          Tok("linked", s) \in kids[Tok("session", s)] /\ Tok("linked", s) \in kids[App(caller[s])]
    /\ st[s] \in Busy \ {"beginning"} /\ form[s] = "owned" /\ ~streamed[s] =>
          Tok("inner", s) \in kids[Tok("linked", s)]
    /\ st[s] \in {"running", "finishing"} /\ form[s] = "owned" =>
          Tok("op", s) \in kids[Tok("inner", s)] /\ using[s] = Tok("op", s)
    /\ st[s] = "beginning" \/ (st[s] \in InFlight /\ form[s] = "borrowed") =>
          using[s] = Tok("linked", s)

\* A lent token hangs from its session's until that is dropped.
LentOf(s) ==
    Tok("lent", s) \in live =>
        /\ st[s] \notin {"absent", "counted"}
        /\ st[s] # "dropped" => Tok("lent", s) \in kids[Tok("session", s)]
        /\ st[s] \in {"leaving", "closed", "dropped"} => Tok("lent", s) \in cancelled

SessionsOK == \A s \in Session : ChainOf(s) /\ LentOf(s)

IInv == TypeOK /\ TokensOK /\ SessionsOK /\ ActiveSessionsExact

-----------------------------------------------------------------------------
(* Tokens and their operations.                                            *)

\* Tokens of different roles or sessions are different.
LEMMA TokenFacts ==
  /\ Engine \in Token /\ Rank(Engine) = 0
  /\ \A c \in Caller : App(c) \in Token /\ Rank(App(c)) = 0
  /\ \A r \in Role, s \in Session :
        /\ Tok(r, s) \in Token /\ Tok(r, s) # Engine /\ Rank(Tok(r, s)) = RankOf[r]
        /\ \A c \in Caller : Tok(r, s) # App(c)
        /\ \A q \in Role, u \in Session : Tok(r, s) = Tok(q, u) => r = q /\ s = u
  /\ \A x \in Token : Rank(x) \in 0 .. 4
  <1>1. Engine \in Token /\ Rank(Engine) = 0
    BY DEF Engine, Token, Rank, RankOf
  <1>2. \A c \in Caller : App(c) \in Token /\ Rank(App(c)) = 0
    BY DEF App, Token, Rank, RankOf
  <1>3. ASSUME NEW r \in Role, NEW s \in Session
        PROVE  /\ Tok(r, s) \in Token /\ Tok(r, s) # Engine /\ Rank(Tok(r, s)) = RankOf[r]
               /\ \A c \in Caller : Tok(r, s) # App(c)
               /\ \A q \in Role, u \in Session : Tok(r, s) = Tok(q, u) => r = q /\ s = u
    <2>1. Tok(r, s) \in Token /\ Rank(Tok(r, s)) = RankOf[r]
      BY DEF Tok, Token, Rank
    <2>2. Tok(r, s) # Engine
      BY DEF Tok, Engine
    <2>3. \A c \in Caller : Tok(r, s) # App(c)
      BY DEF Tok, App, Role
    <2>4. \A q \in Role, u \in Session : Tok(r, s) = Tok(q, u) => r = q /\ s = u
      BY DEF Tok
    <2> QED
      BY <2>1, <2>2, <2>3, <2>4
  <1>4. ASSUME NEW x \in Token PROVE Rank(x) \in 0 .. 4
    <2>1. \A r \in Role : RankOf[r] \in 0 .. 4
      BY DEF RankOf, Role
    <2>2. CASE x \in Role \X Session
      <3>1. PICK r \in Role, s \in Session : x = <<r, s>>
        BY <2>2
      <3> QED
        BY <3>1, <2>1 DEF Rank
    <2> QED
      BY <1>1, <1>2, <2>2, <1>4 DEF Token
  <1> QED
    BY <1>1, <1>2, <1>3, <1>4

\* The ranks of the roles.
LEMMA RoleRanks ==
  /\ RankOf["session"] = 1 /\ RankOf["linked"] = 2 /\ RankOf["lent"] = 2 /\ RankOf["inner"] = 3
  /\ RankOf["op"] = 4 /\ RankOf["stream"] = 4
  /\ Role = {"session", "linked", "inner", "stream", "op", "lent"}
  BY DEF RankOf, Role

\* child_token and linked: only the new token moves.
LEMMA LinkedFacts ==
  ASSUME NEW g, GraphOK(g), NEW t \in Token, NEW ps \in SUBSET Token,
         \A p \in ps : Rank(p) < Rank(t)
  PROVE  /\ GraphOK(Linked(g, t, ps))
         /\ t \in Linked(g, t, ps).live
         /\ \A p \in ps : t \in Linked(g, t, ps).kids[p]
         /\ \A x \in Token : x # t =>
               /\ x \in Linked(g, t, ps).live <=> x \in g.live
               /\ x \in Linked(g, t, ps).cancelled <=> x \in g.cancelled
               /\ \A p \in Token : p # t => (x \in Linked(g, t, ps).kids[p] <=> x \in g.kids[p])
  <1> DEFINE h == Linked(g, t, ps)
  <1>a. \A x \in Token : Rank(x) \in 0 .. 4
    BY TokenFacts
  <1>b. t \notin ps
    BY <1>a
  <1>1. /\ h.live = g.live \cup {t}
        /\ h.cancelled = IF ps \cap g.cancelled # {} THEN g.cancelled \cup {t} ELSE g.cancelled \ {t}
        /\ h.kids = [p \in Token |-> IF p = t THEN {}
                                     ELSE IF p \in ps THEN g.kids[p] \cup {t}
                                     ELSE g.kids[p] \ {t}]
    BY DEF Linked
  <1> HIDE DEF h
  <1>2. h.live \in SUBSET Token /\ h.cancelled \in SUBSET Token /\ h.kids \in [Token -> SUBSET Token]
    BY <1>1 DEF GraphOK
  <1>3. ASSUME NEW p \in Token, NEW x \in h.kids[p] PROVE Rank(p) < Rank(x)
    BY <1>1, <1>3 DEF GraphOK
  <1>4. ASSUME NEW p \in h.cancelled PROVE h.kids[p] \subseteq h.cancelled
    <2>1. CASE p = t
      BY <1>1, <2>1
    <2>2. CASE p # t
      <3>1. p \in Token /\ p \in g.cancelled /\ g.kids[p] \subseteq g.cancelled
        BY <1>1, <1>2, <1>4, <2>2 DEF GraphOK
      <3>2. CASE p \in ps
        <4>1. ps \cap g.cancelled # {}
          BY <3>1, <3>2
        <4>2. h.cancelled = g.cancelled \cup {t} /\ h.kids[p] = g.kids[p] \cup {t}
          BY <1>1, <2>2, <3>1, <3>2, <4>1
        <4> QED
          BY <3>1, <4>2
      <3>3. CASE p \notin ps
        BY <1>1, <2>2, <3>1, <3>3
      <3> QED
        BY <3>2, <3>3
    <2> QED
      BY <2>1, <2>2
  <1>5. GraphOK(h)
    BY <1>2, <1>3, <1>4 DEF GraphOK
  <1>6. t \in h.live /\ \A p \in ps : t \in h.kids[p]
    BY <1>1, <1>b
  <1>7. \A x \in Token : x # t =>
               /\ x \in h.live <=> x \in g.live
               /\ x \in h.cancelled <=> x \in g.cancelled
               /\ \A p \in Token : p # t => (x \in h.kids[p] <=> x \in g.kids[p])
    BY <1>1
  <1> QED
    BY <1>5, <1>6, <1>7 DEF h

\* Handles are dropped: only the dropped tokens move.
LEMMA DroppedFacts ==
  ASSUME NEW g, GraphOK(g), NEW ts \in SUBSET Token
  PROVE  /\ GraphOK(Dropped(g, ts))
         /\ \A x \in Token : x \notin ts =>
               /\ x \in Dropped(g, ts).live <=> x \in g.live
               /\ x \in Dropped(g, ts).cancelled <=> x \in g.cancelled
               /\ \A p \in Token : p \notin ts => (x \in Dropped(g, ts).kids[p] <=> x \in g.kids[p])
  <1> DEFINE h == Dropped(g, ts)
  <1>1. /\ h.live = g.live \ ts /\ h.cancelled = g.cancelled \ ts
        /\ h.kids = [p \in Token |-> IF p \in ts THEN {} ELSE g.kids[p] \ ts]
    BY DEF Dropped
  <1> HIDE DEF h
  <1>2. h.live \in SUBSET Token /\ h.cancelled \in SUBSET Token /\ h.kids \in [Token -> SUBSET Token]
    BY <1>1 DEF GraphOK
  <1>3. GraphOK(h)
    BY <1>1, <1>2 DEF GraphOK
  <1>4. \A x \in Token : x \notin ts =>
               /\ x \in h.live <=> x \in g.live
               /\ x \in h.cancelled <=> x \in g.cancelled
               /\ \A p \in Token : p \notin ts => (x \in h.kids[p] <=> x \in g.kids[p])
    BY <1>1
  <1> QED
    BY <1>3, <1>4 DEF h

\* Four levels down from any token there is nothing below.
LEMMA BelowFacts ==
  ASSUME NEW g, GraphOK(g), NEW t \in Token
  PROVE  /\ t \in Below(g, t) /\ Below(g, t) \subseteq Token
         /\ \A p \in Below(g, t) : g.kids[p] \subseteq Below(g, t)
  <1> DEFINE A == Children(g, {t})
  <1> DEFINE B == Children(g, A)
  <1> DEFINE C == Children(g, B)
  <1> DEFINE D == Children(g, C)
  <1>a. /\ \A x \in Token : Rank(x) \in 0 .. 4
        /\ \A p \in Token : g.kids[p] \subseteq Token /\ \A x \in g.kids[p] : Rank(p) < Rank(x)
    BY TokenFacts DEF GraphOK
  <1>b. \A ts \in SUBSET Token :
           /\ ts \subseteq Children(g, ts) /\ Children(g, ts) \in SUBSET Token
           /\ \A x \in Children(g, ts) : x \in ts \/ \E p \in ts : x \in g.kids[p]
           /\ \A p \in ts : g.kids[p] \subseteq Children(g, ts)
    BY <1>a DEF Children
  <1>1. {t} \in SUBSET Token /\ A \in SUBSET Token /\ B \in SUBSET Token /\ C \in SUBSET Token
        /\ D \in SUBSET Token
    BY <1>b
  <1>2. \A x \in A : x \in {t} \/ \E p \in {t} : x \in g.kids[p]
    BY <1>b, <1>1
  <1>3. \A x \in B : x \in A \/ \E p \in A : x \in g.kids[p]
    BY <1>b, <1>1
  <1>4. \A x \in C : x \in B \/ \E p \in B : x \in g.kids[p]
    BY <1>b, <1>1
  <1>5. \A x \in D : x \in C \/ \E p \in C : x \in g.kids[p]
    BY <1>b, <1>1
  <1>6. /\ \A p \in {t} : g.kids[p] \subseteq A
        /\ \A p \in A : g.kids[p] \subseteq B
        /\ \A p \in B : g.kids[p] \subseteq C
        /\ \A p \in C : g.kids[p] \subseteq D
        /\ t \in A /\ A \subseteq B /\ B \subseteq C /\ C \subseteq D
    BY <1>b, <1>1
  <1>7. Below(g, t) = D
    BY DEF Below
  <1> HIDE DEF A, B, C, D
  \* What a level adds has at least its rank.
  <1>8. \A x \in A : x = t \/ Rank(x) > 0
    BY <1>1, <1>2, <1>a
  <1>9. \A x \in B : x \in A \/ Rank(x) > 1
    <2> SUFFICES ASSUME NEW x \in B, x \notin A PROVE Rank(x) > 1
      OBVIOUS
    <2>1. PICK p \in A : x \in g.kids[p]
      BY <1>3
    <2>2. p # t
      BY <2>1, <1>6
    <2>3. Rank(p) > 0 /\ Rank(p) < Rank(x) /\ Rank(p) \in 0 .. 4 /\ Rank(x) \in 0 .. 4
      BY <2>1, <2>2, <1>1, <1>8, <1>a
    <2> QED
      BY <2>3
  <1>10. \A x \in C : x \in B \/ Rank(x) > 2
    <2> SUFFICES ASSUME NEW x \in C, x \notin B PROVE Rank(x) > 2
      OBVIOUS
    <2>1. PICK p \in B : x \in g.kids[p]
      BY <1>4
    <2>2. p \notin A
      BY <2>1, <1>6
    <2>3. Rank(p) > 1 /\ Rank(p) < Rank(x) /\ Rank(p) \in 0 .. 4 /\ Rank(x) \in 0 .. 4
      BY <2>1, <2>2, <1>1, <1>9, <1>a
    <2> QED
      BY <2>3
  <1>11. \A x \in D : x \in C \/ Rank(x) > 3
    <2> SUFFICES ASSUME NEW x \in D, x \notin C PROVE Rank(x) > 3
      OBVIOUS
    <2>1. PICK p \in C : x \in g.kids[p]
      BY <1>5
    <2>2. p \notin B
      BY <2>1, <1>6
    <2>3. Rank(p) > 2 /\ Rank(p) < Rank(x) /\ Rank(p) \in 0 .. 4 /\ Rank(x) \in 0 .. 4
      BY <2>1, <2>2, <1>1, <1>10, <1>a
    <2> QED
      BY <2>3
  <1>12. ASSUME NEW p \in D, NEW x \in g.kids[p] PROVE x \in D
    <2>1. CASE p \in C
      BY <2>1, <1>6, <1>12
    <2>2. CASE p \notin C
      <3>1. Rank(p) > 3 /\ Rank(p) < Rank(x) /\ Rank(p) \in 0 .. 4 /\ Rank(x) \in 0 .. 4
        BY <2>2, <1>11, <1>12, <1>1, <1>a
      <3> QED
        BY <3>1
    <2> QED
      BY <2>1, <2>2
  <1> QED
    BY <1>1, <1>6, <1>7, <1>12

\* cancel: all that hangs from the token is cancelled with it.
LEMMA CancelledFacts ==
  ASSUME NEW g, GraphOK(g), g = [live |-> g.live, cancelled |-> g.cancelled, kids |-> g.kids],
         NEW t \in Token
  PROVE  /\ GraphOK(Cancelled(g, t))
         /\ Cancelled(g, t).live = g.live /\ Cancelled(g, t).kids = g.kids
         /\ g.cancelled \subseteq Cancelled(g, t).cancelled /\ t \in Cancelled(g, t).cancelled
  <1> DEFINE h == Cancelled(g, t)
  <1>1. h.live = g.live /\ h.kids = g.kids /\ h.cancelled = g.cancelled \cup Below(g, t)
    BY DEF Cancelled
  <1> HIDE DEF h
  <1>2. /\ t \in Below(g, t) /\ Below(g, t) \subseteq Token
        /\ \A p \in Below(g, t) : g.kids[p] \subseteq Below(g, t)
    BY BelowFacts
  <1>3. GraphOK(h)
    BY <1>1, <1>2 DEF GraphOK
  <1> QED
    BY <1>1, <1>2, <1>3 DEF h

-----------------------------------------------------------------------------
(* The same for the variables.                                             *)

\* A step of session s leaves the tokens of the others alone.
Apart(s) ==
    \A u \in Session, r \in Role : u # s =>
        /\ Tok(r, u) \in live' => Tok(r, u) \in live
        /\ Tok(r, u) \in cancelled => Tok(r, u) \in cancelled'
        /\ \A p \in Token : (\A q \in Role : p # Tok(q, s)) /\ Tok(r, u) \in kids[p] => Tok(r, u) \in kids'[p]

\* A step of session s with one new token.
LEMMA LinkStep ==
  ASSUME TokensOK, NEW s \in Session, NEW r \in Role, NEW ps \in SUBSET Token,
         \A p \in ps : Rank(p) < Rank(Tok(r, s)), Becomes(Linked(Graph, Tok(r, s), ps))
  PROVE  /\ TokensOK' /\ Apart(s)
         /\ Tok(r, s) \in live' /\ \A p \in ps : Tok(r, s) \in kids'[p]
         /\ \A q \in Role : q # r =>
               /\ Tok(q, s) \in live' <=> Tok(q, s) \in live
               /\ Tok(q, s) \in cancelled' <=> Tok(q, s) \in cancelled
               /\ \A p \in Token : p # Tok(r, s) => (Tok(q, s) \in kids'[p] <=> Tok(q, s) \in kids[p])
  <1> DEFINE t == Tok(r, s)
  <1> DEFINE h == Linked(Graph, t, ps)
  <1>1. live' = h.live /\ cancelled' = h.cancelled /\ kids' = h.kids
    BY DEF Becomes
  <1>2. Graph.live = live /\ Graph.cancelled = cancelled /\ Graph.kids = kids /\ GraphOK(Graph)
    BY DEF Graph, TokensOK
  <1>3. t \in Token /\ \A q \in Role, u \in Session : Tok(q, u) \in Token /\ (Tok(q, u) = t => q = r /\ u = s)
    BY TokenFacts
  <1>4. \A p \in ps : Rank(p) < Rank(t)
    OBVIOUS
  <1> HIDE DEF t
  <1>5. /\ GraphOK(h) /\ t \in h.live /\ \A p \in ps : t \in h.kids[p]
        /\ \A x \in Token : x # t =>
               /\ x \in h.live <=> x \in Graph.live
               /\ x \in h.cancelled <=> x \in Graph.cancelled
               /\ \A p \in Token : p # t => (x \in h.kids[p] <=> x \in Graph.kids[p])
    BY <1>2, <1>3, <1>4, LinkedFacts
  <1> HIDE DEF h
  <1>6. \A x \in Token : x # t =>
               /\ x \in live' <=> x \in live
               /\ x \in cancelled' <=> x \in cancelled
               /\ \A p \in Token : p # t => (x \in kids'[p] <=> x \in kids[p])
    BY <1>1, <1>2, <1>5
  <1>7. TokensOK'
    BY <1>1, <1>5 DEF TokensOK, GraphOK, Graph
  <1>8. Apart(s)
    BY <1>3, <1>6 DEF Apart, t
  <1>9. t \in live' /\ \A p \in ps : t \in kids'[p]
    BY <1>1, <1>5
  <1> QED
    BY <1>3, <1>6, <1>7, <1>8, <1>9 DEF t

\* A step of session s that drops some of its tokens.
LEMMA DropStep ==
  ASSUME TokensOK, NEW s \in Session, NEW R \in SUBSET Role,
         Becomes(Dropped(Graph, {Tok(r, s) : r \in R}))
  PROVE  /\ TokensOK' /\ Apart(s)
         /\ \A q \in Role : q \notin R =>
               /\ Tok(q, s) \in live' <=> Tok(q, s) \in live
               /\ Tok(q, s) \in cancelled' <=> Tok(q, s) \in cancelled
               /\ \A p \in Token : (\A r \in R : p # Tok(r, s)) =>
                     (Tok(q, s) \in kids'[p] <=> Tok(q, s) \in kids[p])
  <1> DEFINE ts == {Tok(r, s) : r \in R}
  <1> DEFINE h == Dropped(Graph, ts)
  <1>1. live' = h.live /\ cancelled' = h.cancelled /\ kids' = h.kids
    BY DEF Becomes
  <1>2. Graph.live = live /\ Graph.cancelled = cancelled /\ Graph.kids = kids /\ GraphOK(Graph)
    BY DEF Graph, TokensOK
  <1>3. /\ ts \in SUBSET Token
        /\ \A q \in Role, u \in Session : Tok(q, u) \in Token /\ (Tok(q, u) \in ts => q \in R /\ u = s)
    BY TokenFacts
  <1>4. \A p : p \in ts => \E r \in R : p = Tok(r, s)
    OBVIOUS
  <1> HIDE DEF ts
  <1>5. /\ GraphOK(h)
        /\ \A x \in Token : x \notin ts =>
               /\ x \in h.live <=> x \in Graph.live
               /\ x \in h.cancelled <=> x \in Graph.cancelled
               /\ \A p \in Token : p \notin ts => (x \in h.kids[p] <=> x \in Graph.kids[p])
    BY <1>2, <1>3, DroppedFacts
  <1> HIDE DEF h
  <1>6. \A x \in Token : x \notin ts =>
               /\ x \in live' <=> x \in live
               /\ x \in cancelled' <=> x \in cancelled
               /\ \A p \in Token : p \notin ts => (x \in kids'[p] <=> x \in kids[p])
    BY <1>1, <1>2, <1>5
  <1>7. TokensOK'
    BY <1>1, <1>5 DEF TokensOK, GraphOK, Graph
  <1>8. Apart(s)
    <2> SUFFICES ASSUME NEW u \in Session, NEW r \in Role, u # s
                 PROVE  /\ Tok(r, u) \in live' => Tok(r, u) \in live
                        /\ Tok(r, u) \in cancelled => Tok(r, u) \in cancelled'
                        /\ \A p \in Token : (\A q \in Role : p # Tok(q, s)) /\ Tok(r, u) \in kids[p]
                                               => Tok(r, u) \in kids'[p]
      BY DEF Apart
    <2>1. Tok(r, u) \in Token /\ Tok(r, u) \notin ts
      BY <1>3
    <2>2. \A p \in Token : (\A q \in Role : p # Tok(q, s)) => p \notin ts
      BY <1>4
    <2> QED
      BY <2>1, <2>2, <1>6
  <1>9. ASSUME NEW q \in Role, q \notin R
        PROVE  /\ Tok(q, s) \in live' <=> Tok(q, s) \in live
               /\ Tok(q, s) \in cancelled' <=> Tok(q, s) \in cancelled
               /\ \A p \in Token : (\A r \in R : p # Tok(r, s)) =>
                     (Tok(q, s) \in kids'[p] <=> Tok(q, s) \in kids[p])
    <2>1. Tok(q, s) \in Token /\ Tok(q, s) \notin ts
      BY <1>3, <1>9
    <2>2. \A p \in Token : (\A r \in R : p # Tok(r, s)) => p \notin ts
      BY <1>4
    <2> QED
      BY <2>1, <2>2, <1>6
  <1> QED
    BY <1>7, <1>8, <1>9

\* A step that cancels one token and all below it.
LEMMA CancelStep ==
  ASSUME TokensOK, NEW t \in Token, Becomes(Cancelled(Graph, t))
  PROVE  /\ TokensOK' /\ live' = live /\ kids' = kids
         /\ cancelled \subseteq cancelled' /\ t \in cancelled'
  <1> DEFINE h == Cancelled(Graph, t)
  <1>1. live' = h.live /\ cancelled' = h.cancelled /\ kids' = h.kids
    BY DEF Becomes
  <1>2. /\ Graph.live = live /\ Graph.cancelled = cancelled /\ Graph.kids = kids /\ GraphOK(Graph)
        /\ Graph = [live |-> Graph.live, cancelled |-> Graph.cancelled, kids |-> Graph.kids]
    BY DEF Graph, TokensOK
  <1>3. /\ GraphOK(h) /\ h.live = Graph.live /\ h.kids = Graph.kids
        /\ Graph.cancelled \subseteq h.cancelled /\ t \in h.cancelled
    BY <1>2, CancelledFacts
  <1> HIDE DEF h
  <1> QED
    BY <1>1, <1>2, <1>3 DEF TokensOK, GraphOK, Graph

\* The invariant of the sessions, when only session s moves.
LEMMA OneSession ==
  ASSUME SessionsOK, NEW s \in Session, Apart(s), ChainOf(s)', LentOf(s)',
         \A u \in Session : u # s => /\ st'[u] = st[u] /\ form'[u] = form[u] /\ caller'[u] = caller[u]
                                     /\ using'[u] = using[u] /\ streamed'[u] = streamed[u]
  PROVE  SessionsOK'
  <1> SUFFICES ASSUME NEW u \in Session, u # s PROVE ChainOf(u)' /\ LentOf(u)'
    BY DEF SessionsOK
  <1>1. /\ st'[u] = st[u] /\ form'[u] = form[u] /\ caller'[u] = caller[u]
        /\ using'[u] = using[u] /\ streamed'[u] = streamed[u]
    OBVIOUS
  <1>2. ChainOf(u) /\ LentOf(u)
    BY DEF SessionsOK
  <1>3. /\ \A r \in Role : Tok(r, u) \in kids[Engine] => Tok(r, u) \in kids'[Engine]
        /\ \A r \in Role, c \in Caller : Tok(r, u) \in kids[App(c)] => Tok(r, u) \in kids'[App(c)]
        /\ \A r \in Role, q \in Role : Tok(r, u) \in kids[Tok(q, u)] => Tok(r, u) \in kids'[Tok(q, u)]
    BY TokenFacts DEF Apart
  <1>4. /\ Tok("lent", u) \in live' => Tok("lent", u) \in live
        /\ Tok("lent", u) \in cancelled => Tok("lent", u) \in cancelled'
    BY RoleRanks DEF Apart
  <1>5. ChainOf(u)'
    BY <1>1, <1>2, <1>3, RoleRanks DEF ChainOf, Busy
  <1>6. LentOf(u)'
    BY <1>1, <1>2, <1>3, <1>4, RoleRanks DEF LentOf
  <1> QED
    BY <1>5, <1>6

\* The counters, when a session stays on the same side of both.
LEMMA SameCount ==
  ASSUME ActiveSessionsExact, st \in [Session -> Status], NEW s \in Session, NEW x,
         st' = [st EXCEPT ![s] = x], opened' = opened, active' = active,
         st[s] = "absent" <=> x = "absent",
         st[s] \in {"absent", "closed", "dropped"} <=> x \in {"absent", "closed", "dropped"}
  PROVE  ActiveSessionsExact'
  <1>1. \A u \in Session : /\ st'[u] = "absent" <=> st[u] = "absent"
                           /\ st'[u] \in {"absent", "closed", "dropped"} <=> st[u] \in {"absent", "closed", "dropped"}
    OBVIOUS
  <1>2. /\ {u \in Session : st'[u] # "absent"} = {u \in Session : st[u] # "absent"}
        /\ {u \in Session : st'[u] \notin {"absent", "closed", "dropped"}}
             = {u \in Session : st[u] \notin {"absent", "closed", "dropped"}}
    BY <1>1
  <1> QED
    BY <1>2 DEF ActiveSessionsExact

-----------------------------------------------------------------------------
(* The steps.                                                              *)

\* Nothing is opened yet, and no token is cancelled.
LEMMA InitOK == Init => IInv
  <1> SUFFICES ASSUME Init PROVE IInv
    OBVIOUS
  <1> USE DEF Init
  <1>a. Engine \in Token /\ \A c \in Caller : App(c) \in Token
    BY TokenFacts
  <1>1. TypeOK
    BY <1>a DEF TypeOK, Status
  <1>2. TokensOK
    BY <1>a DEF TokensOK, GraphOK, Graph
  <1>3. SessionsOK
    <2> SUFFICES ASSUME NEW s \in Session PROVE ChainOf(s) /\ LentOf(s)
      BY DEF SessionsOK
    <2>1. Tok("lent", s) \notin live
      BY TokenFacts, RoleRanks
    <2> QED
      BY <2>1 DEF ChainOf, LentOf, Busy, InFlight
  <1>4. ActiveSessionsExact
    <2>1. /\ {s \in Session : st[s] # "absent"} = {}
          /\ {s \in Session : st[s] \notin {"absent", "closed", "dropped"}} = {}
      OBVIOUS
    <2> QED
      BY <2>1, FS_EmptySet DEF ActiveSessionsExact
  <1> QED
    BY <1>1, <1>2, <1>3, <1>4 DEF IInv

\* A step of one session that does not count it in or out.
LEMMA SessionMoves ==
  ASSUME IInv, NEW s \in Session, NEW x \in Status, st' = [st EXCEPT ![s] = x],
         st[s] = "absent" <=> x = "absent",
         st[s] \in {"absent", "closed", "dropped"} <=> x \in {"absent", "closed", "dropped"},
         UNCHANGED lifecycle, TokensOK', Apart(s),
         closed' \in [Session -> BOOLEAN], form' \in [Session -> {"borrowed", "owned", "none"}],
         caller' \in [Session -> Caller \cup {NoToken}], using' \in [Session -> Token \cup {NoToken}],
         streamed' \in [Session -> BOOLEAN],
         \A u \in Session : u # s => /\ form'[u] = form[u] /\ caller'[u] = caller[u]
                                     /\ using'[u] = using[u] /\ streamed'[u] = streamed[u],
         ChainOf(s)', LentOf(s)'
  PROVE  IInv'
  <1>a. TypeOK /\ SessionsOK /\ ActiveSessionsExact
    BY DEF IInv
  <1>b. st \in [Session -> Status] /\ \A u \in Session : u # s => st'[u] = st[u]
    BY <1>a DEF TypeOK
  <1>1. SessionsOK'
    BY <1>a, <1>b, OneSession
  <1>2. ActiveSessionsExact'
    BY <1>a, <1>b, SameCount DEF lifecycle
  <1>3. TypeOK'
    <2>1. live' \in SUBSET Token /\ cancelled' \in SUBSET Token /\ kids' \in [Token -> SUBSET Token]
      BY DEF TokensOK, GraphOK, Graph
    <2>2. st' \in [Session -> Status]
      BY <1>b
    <2> QED
      BY <1>a, <2>1, <2>2 DEF TypeOK, lifecycle
  <1> QED
    BY <1>1, <1>2, <1>3 DEF IInv

\* What is known before a step.
LEMMA Known ==
  ASSUME IInv, NEW s \in Session
  PROVE  /\ TokensOK /\ ChainOf(s) /\ LentOf(s) /\ st[s] \in Status
         /\ st \in [Session -> Status] /\ closed \in [Session -> BOOLEAN]
         /\ form \in [Session -> {"borrowed", "owned", "none"}]
         /\ caller \in [Session -> Caller \cup {NoToken}]
         /\ using \in [Session -> Token \cup {NoToken}] /\ streamed \in [Session -> BOOLEAN]
         /\ \A q \in Role : Tok(q, s) \in Token
         /\ UNCHANGED tokens => TokensOK' /\ Apart(s) /\ live' = live /\ cancelled' = cancelled /\ kids' = kids
  <1>1. /\ TokensOK /\ ChainOf(s) /\ LentOf(s) /\ st[s] \in Status
        /\ st \in [Session -> Status] /\ closed \in [Session -> BOOLEAN]
        /\ form \in [Session -> {"borrowed", "owned", "none"}]
        /\ caller \in [Session -> Caller \cup {NoToken}]
        /\ using \in [Session -> Token \cup {NoToken}] /\ streamed \in [Session -> BOOLEAN]
    BY DEF IInv, TypeOK, SessionsOK
  <1>2. UNCHANGED tokens => TokensOK' /\ Apart(s) /\ live' = live /\ cancelled' = cancelled /\ kids' = kids
    BY <1>1 DEF tokens, TokensOK, Graph, GraphOK, Apart
  <1> QED
    BY <1>1, <1>2, TokenFacts

\* Cancelling changes no session and no reference.
LEMMA CancelOnly ==
  ASSUME IInv, NEW t \in Token, Becomes(Cancelled(Graph, t)), UNCHANGED <<opened, active, sessions>>,
         disposed' \in BOOLEAN, dispose' \in {"no", "marked", "done"}
  PROVE  IInv'
  <1>a. TypeOK /\ TokensOK /\ SessionsOK /\ ActiveSessionsExact
    BY DEF IInv
  <1>1. TokensOK' /\ live' = live /\ kids' = kids /\ cancelled \subseteq cancelled'
    BY <1>a, CancelStep
  <1>2. /\ st' = st /\ closed' = closed /\ form' = form /\ caller' = caller /\ using' = using
        /\ streamed' = streamed /\ opened' = opened /\ active' = active
    BY DEF sessions
  <1>3. TypeOK'
    BY <1>a, <1>1, <1>2 DEF TypeOK, TokensOK, GraphOK, Graph
  <1>4. SessionsOK'
    BY <1>a, <1>1, <1>2 DEF SessionsOK, ChainOf, LentOf
  <1>5. ActiveSessionsExact'
    BY <1>a, <1>2 DEF ActiveSessionsExact
  <1> QED
    BY <1>1, <1>3, <1>4, <1>5 DEF IInv

\* Engine::dispose, SessionTransaction::cancel and a caller's cancel.
LEMMA CancelSteps ==
  ASSUME IInv,
         \/ DisposeMark \/ DisposeCancel
         \/ \E s \in Session : CancelTransaction(s)
         \/ \E c \in Caller : CallerCancel(c)
  PROVE  IInv'
  <1>a. TypeOK /\ TokensOK /\ SessionsOK /\ ActiveSessionsExact
    BY DEF IInv
  <1>b. disposed \in BOOLEAN /\ dispose \in {"no", "marked", "done"}
    BY <1>a DEF TypeOK
  <1>1. CASE DisposeMark
    <2>1. /\ st' = st /\ closed' = closed /\ form' = form /\ caller' = caller /\ using' = using
          /\ streamed' = streamed /\ opened' = opened /\ active' = active
          /\ live' = live /\ cancelled' = cancelled /\ kids' = kids
          /\ disposed' = TRUE /\ dispose' = "marked"
      BY <1>1 DEF DisposeMark, sessions, tokens
    <2>2. TypeOK' /\ TokensOK'
      BY <1>a, <2>1 DEF TypeOK, TokensOK, Graph, GraphOK
    <2>3. SessionsOK'
      BY <1>a, <2>1 DEF SessionsOK, ChainOf, LentOf
    <2>4. ActiveSessionsExact'
      BY <1>a, <2>1 DEF ActiveSessionsExact
    <2> QED
      BY <2>2, <2>3, <2>4 DEF IInv
  <1>2. CASE DisposeCancel
    BY <1>2, <1>b, CancelOnly, TokenFacts DEF DisposeCancel
  <1>3. CASE \E s \in Session : CancelTransaction(s)
    BY <1>3, <1>b, CancelOnly, TokenFacts, RoleRanks DEF CancelTransaction, lifecycle
  <1>4. CASE \E c \in Caller : CallerCancel(c)
    BY <1>4, <1>b, CancelOnly, TokenFacts DEF CallerCancel, lifecycle
  <1> QED
    BY <1>1, <1>2, <1>3, <1>4

\* Engine::session counts the session in, Session::close counts it out.
LEMMA CountSteps ==
  ASSUME IInv, NEW s \in Session, Open(s) \/ CloseCount(s)
  PROVE  IInv'
  <1>a. TypeOK /\ TokensOK /\ SessionsOK /\ ActiveSessionsExact
    BY DEF IInv
  <1>b. /\ live' = live /\ cancelled' = cancelled /\ kids' = kids /\ disposed' = disposed /\ dispose' = dispose
        /\ closed' = closed /\ form' = form /\ caller' = caller /\ using' = using /\ streamed' = streamed
    BY DEF Open, CloseCount, tokens
  <1>c. \A u \in Session : u # s => st'[u] = st[u]
    BY <1>a DEF Open, CloseCount, Goto, TypeOK
  <1>d. ChainOf(s) /\ LentOf(s) /\ st \in [Session -> Status]
    BY <1>a DEF SessionsOK, TypeOK
  <1>e. TokensOK' /\ Apart(s)
    BY <1>a, <1>b DEF TokensOK, Graph, GraphOK, Apart
  <1> DEFINE In == {u \in Session : st[u] # "absent"}
  <1> DEFINE Act == {u \in Session : st[u] \notin {"absent", "closed", "dropped"}}
  <1>f. /\ IsFiniteSet(In) /\ IsFiniteSet(Act)
        /\ opened = Cardinality(In) /\ active = Cardinality(Act)
    <2>1. In \subseteq Session /\ Act \subseteq Session
      OBVIOUS
    <2> QED
      BY <1>a, <2>1, FS_Subset, EngineSessionAssumption DEF ActiveSessionsExact
  <1>1. CASE Open(s)
    <2>1. st[s] = "absent" /\ st'[s] = "counted" /\ opened' = opened + 1 /\ active' = active + 1
          /\ st' \in [Session -> Status]
      BY <1>1, <1>d DEF Open, Goto, Status
    <2>2. ChainOf(s)' /\ LentOf(s)'
      BY <2>1, <1>b, <1>d DEF ChainOf, LentOf, Busy, InFlight
    <2>3. SessionsOK'
      BY <2>2, <1>a, <1>b, <1>c, <1>e, OneSession
    <2>4. /\ {u \in Session : st'[u] # "absent"} = In \cup {s} /\ s \notin In
          /\ {u \in Session : st'[u] \notin {"absent", "closed", "dropped"}} = Act \cup {s} /\ s \notin Act
      BY <2>1, <1>c
    <2>5. Cardinality(In \cup {s}) = Cardinality(In) + 1 /\ Cardinality(Act \cup {s}) = Cardinality(Act) + 1
      BY <1>f, <2>4, FS_AddElement
    <2>6. ActiveSessionsExact'
      BY <1>f, <2>1, <2>4, <2>5 DEF ActiveSessionsExact
    <2>7. TypeOK'
      BY <1>a, <1>b, <2>1 DEF TypeOK
    <2> QED
      BY <2>3, <2>6, <2>7, <1>e DEF IInv
  <1>2. CASE CloseCount(s)
    <2>1. /\ st[s] = "leaving" /\ st'[s] = "closed" /\ opened' = opened
          /\ active' = IF active = 0 THEN 0 ELSE active - 1
          /\ st' \in [Session -> Status]
      BY <1>2, <1>d DEF CloseCount, Goto, Status
    <2>2. ChainOf(s)' /\ LentOf(s)'
      BY <2>1, <1>b, <1>d DEF ChainOf, LentOf, Busy, InFlight
    <2>3. SessionsOK'
      BY <2>2, <1>a, <1>b, <1>c, <1>e, OneSession
    <2>4. /\ {u \in Session : st'[u] # "absent"} = In
          /\ {u \in Session : st'[u] \notin {"absent", "closed", "dropped"}} = Act \ {s} /\ s \in Act
      BY <2>1, <1>c
    <2>5. Cardinality(Act \ {s}) = Cardinality(Act) - 1
      BY <1>f, <2>4, FS_RemoveElement
    <2>6. active \in Nat /\ Cardinality(Act \ {s}) \in Nat
      <3>1. IsFiniteSet(Act \ {s})
        BY <1>f, FS_RemoveElement
      <3> QED
        BY <3>1, <1>a, FS_CardinalityType DEF TypeOK
    <2>7. active' = active - 1 /\ active' \in Nat
      BY <1>f, <2>1, <2>5, <2>6
    <2>8. ActiveSessionsExact'
      BY <1>f, <2>1, <2>4, <2>5, <2>7 DEF ActiveSessionsExact
    <2>9. TypeOK'
      BY <1>a, <1>b, <2>1, <2>7 DEF TypeOK
    <2> QED
      BY <2>3, <2>8, <2>9, <1>e DEF IInv
  <1> QED
    BY <1>1, <1>2

\* The life of a session outside its transactions.
LEMMA LifeSteps ==
  ASSUME IInv, NEW s \in Session,
         \/ OpenToken(s) \/ Lend(s) \/ Close(s) \/ CloseCancel(s) \/ DropSession(s)
         \/ \E f \in Form, c \in Caller : Begin(s, f, c)
  PROVE  IInv'
  <1> USE Known, RoleRanks
  <1>a. /\ {"open", "linking", "closing", "leaving", "dropped"} \subseteq Status
        /\ \A x \in {"counted", "open", "linking", "closing", "leaving", "closed", "dropped"} :
              x \notin Busy /\ x \notin InFlight
    BY DEF Status, Busy, InFlight
  <1>1. CASE OpenToken(s)
    <2>1. /\ st[s] = "counted" /\ st' = [st EXCEPT ![s] = "open"]
          /\ Becomes(Linked(Graph, Tok("session", s), {Engine}))
          /\ UNCHANGED lifecycle
          /\ closed' = closed /\ form' = form /\ caller' = caller /\ using' = using /\ streamed' = streamed
      BY <1>1 DEF OpenToken, Goto
    <2>2. {Engine} \in SUBSET Token /\ \A p \in {Engine} : Rank(p) < Rank(Tok("session", s))
      BY TokenFacts
    <2>3. /\ TokensOK' /\ Apart(s) /\ Tok("session", s) \in kids'[Engine]
          /\ Tok("lent", s) \in live' <=> Tok("lent", s) \in live
      BY <2>1, <2>2, LinkStep
    <2>4. st'[s] = "open"
      BY <2>1
    <2>5. ChainOf(s)'
      BY <2>3, <2>4, <1>a DEF ChainOf
    <2>6. LentOf(s)'
      BY <2>1, <2>3 DEF LentOf
    <2> QED
      BY <2>1, <2>3, <2>5, <2>6, <1>a, SessionMoves
  <1>2. CASE Lend(s)
    <2>1. /\ st[s] = "open" /\ Becomes(Linked(Graph, Tok("lent", s), {Tok("session", s)}))
          /\ UNCHANGED lifecycle /\ st' = st
          /\ closed' = closed /\ form' = form /\ caller' = caller /\ using' = using /\ streamed' = streamed
      BY <1>2 DEF Lend, sessions
    <2>2. /\ {Tok("session", s)} \in SUBSET Token
          /\ \A p \in {Tok("session", s)} : Rank(p) < Rank(Tok("lent", s))
      BY TokenFacts
    <2>3. /\ TokensOK' /\ Apart(s) /\ Tok("lent", s) \in kids'[Tok("session", s)]
          /\ Tok("session", s) \in kids'[Engine] <=> Tok("session", s) \in kids[Engine]
      BY <2>1, <2>2, LinkStep, TokenFacts
    <2>4. st' = [st EXCEPT ![s] = "open"]
      BY <2>1
    <2>5. ChainOf(s)'
      BY <2>1, <2>3, <1>a DEF ChainOf
    <2>6. LentOf(s)'
      BY <2>1, <2>3 DEF LentOf
    <2> QED
      BY <2>1, <2>3, <2>4, <2>5, <2>6, <1>a, SessionMoves
  <1>3. CASE Close(s)
    <2>1. /\ st[s] = "open" /\ st' = [st EXCEPT ![s] = "closing"] /\ UNCHANGED tokens
          /\ UNCHANGED lifecycle /\ closed' = [closed EXCEPT ![s] = TRUE]
          /\ form' = form /\ caller' = caller /\ using' = using /\ streamed' = streamed
      BY <1>3 DEF Close, Goto
    <2>2. st'[s] = "closing" /\ closed' \in [Session -> BOOLEAN]
      BY <2>1
    <2>3. TokensOK' /\ Apart(s) /\ live' = live /\ cancelled' = cancelled /\ kids' = kids
      BY <2>1
    <2>4. ChainOf(s)'
      BY <2>1, <2>2, <2>3, <1>a DEF ChainOf
    <2>5. LentOf(s)'
      BY <2>1, <2>2, <2>3 DEF LentOf
    <2> QED
      BY <2>1, <2>2, <2>3, <2>4, <2>5, <1>a, SessionMoves
  <1>4. CASE CloseCancel(s)
    <2>1. /\ st[s] = "closing" /\ st' = [st EXCEPT ![s] = "leaving"]
          /\ Becomes(Cancelled(Graph, Tok("session", s))) /\ UNCHANGED lifecycle
          /\ closed' = closed /\ form' = form /\ caller' = caller /\ using' = using /\ streamed' = streamed
      BY <1>4 DEF CloseCancel, Goto
    <2>2. /\ TokensOK' /\ live' = live /\ kids' = kids /\ cancelled \subseteq cancelled'
          /\ Tok("session", s) \in cancelled'
      BY <2>1, CancelStep
    <2>3. st'[s] = "leaving" /\ Apart(s)
      BY <2>1, <2>2 DEF Apart
    <2>4. ChainOf(s)'
      BY <2>1, <2>2, <2>3, <1>a DEF ChainOf
    <2>5. LentOf(s)'
      <3>1. kids'[Tok("session", s)] \subseteq cancelled'
        BY <2>2 DEF TokensOK, GraphOK, Graph
      <3> QED
        BY <3>1, <2>1, <2>2, <2>3 DEF LentOf
    <2> QED
      BY <2>1, <2>2, <2>3, <2>4, <2>5, <1>a, SessionMoves
  <1>5. CASE DropSession(s)
    <2>1. /\ st[s] = "closed" /\ st' = [st EXCEPT ![s] = "dropped"]
          /\ Becomes(Dropped(Graph, {Tok("session", s)})) /\ UNCHANGED lifecycle
          /\ closed' = closed /\ form' = form /\ caller' = caller /\ using' = using /\ streamed' = streamed
      BY <1>5 DEF DropSession, Goto
    <2>2. {Tok("session", s)} = {Tok(r, s) : r \in {"session"}} /\ {"session"} \in SUBSET Role
      OBVIOUS
    <2>3. /\ TokensOK' /\ Apart(s)
          /\ Tok("lent", s) \in live' <=> Tok("lent", s) \in live
          /\ Tok("lent", s) \in cancelled' <=> Tok("lent", s) \in cancelled
      BY <2>1, <2>2, DropStep
    <2>4. st'[s] = "dropped"
      BY <2>1
    <2>5. ChainOf(s)'
      BY <2>4, <1>a DEF ChainOf
    <2>6. LentOf(s)'
      BY <2>1, <2>3, <2>4 DEF LentOf
    <2> QED
      BY <2>1, <2>3, <2>5, <2>6, <1>a, SessionMoves
  <1>6. ASSUME NEW f \in Form, NEW c \in Caller, Begin(s, f, c) PROVE IInv'
    <2>1. /\ st[s] = "open" /\ st' = [st EXCEPT ![s] = "linking"] /\ UNCHANGED tokens
          /\ UNCHANGED lifecycle /\ form' = [form EXCEPT ![s] = f] /\ caller' = [caller EXCEPT ![s] = c]
          /\ streamed' = [streamed EXCEPT ![s] = FALSE]
          /\ closed' = closed /\ using' = using
      BY <1>6 DEF Begin, Goto
    <2>2. f \in {"borrowed", "owned"}
      BY EngineSessionAssumption
    <2>3. /\ st'[s] = "linking" /\ form' \in [Session -> {"borrowed", "owned", "none"}]
          /\ caller' \in [Session -> Caller \cup {NoToken}] /\ streamed' \in [Session -> BOOLEAN]
          /\ \A u \in Session : u # s => /\ form'[u] = form[u] /\ caller'[u] = caller[u]
                                         /\ using'[u] = using[u] /\ streamed'[u] = streamed[u]
          /\ form'[s] = f /\ caller'[s] = c /\ ~streamed'[s]
      BY <2>1, <2>2
    <2>4. TokensOK' /\ Apart(s) /\ live' = live /\ cancelled' = cancelled /\ kids' = kids
      BY <2>1
    <2>5. ChainOf(s)'
      BY <2>1, <2>2, <2>3, <2>4, <1>a DEF ChainOf
    <2>6. LentOf(s)'
      BY <2>1, <2>3, <2>4 DEF LentOf
    <2> QED
      BY <2>1, <2>3, <2>4, <2>5, <2>6, <1>a, SessionMoves
  <1> QED
    BY <1>1, <1>2, <1>3, <1>4, <1>5, <1>6

\* A lent token is not concerned by the session's transaction.
LEMMA LentKept ==
  ASSUME NEW s \in Session, LentOf(s), st[s] \notin {"absent", "counted", "dropped"},
         st'[s] \notin {"absent", "counted", "leaving", "closed", "dropped"},
         Tok("lent", s) \in live' => Tok("lent", s) \in live,
         Tok("lent", s) \in kids[Tok("session", s)] => Tok("lent", s) \in kids'[Tok("session", s)]
  PROVE  LentOf(s)'
  BY DEF LentOf

\* A transaction is begun.
LEMMA BeginSteps ==
  ASSUME IInv, NEW s \in Session, BeginLink(s) \/ Begun(s)
  PROVE  IInv'
  <1> USE Known, RoleRanks
  <1>a. /\ {"beginning", "txn"} \subseteq Status /\ {"beginning", "txn"} \subseteq Busy
        /\ "txn" \notin InFlight
    BY DEF Status, Busy, InFlight
  <1>1. CASE BeginLink(s)
    <2>1. /\ st[s] = "linking" /\ st' = [st EXCEPT ![s] = "beginning"]
          /\ Becomes(Linked(Graph, Tok("linked", s), {Tok("session", s), App(caller[s])}))
          /\ using' = [using EXCEPT ![s] = Tok("linked", s)] /\ UNCHANGED lifecycle
          /\ closed' = closed /\ form' = form /\ caller' = caller /\ streamed' = streamed
      BY <1>1 DEF BeginLink, Goto
    <2>2. form[s] \in {"borrowed", "owned"} /\ caller[s] \in Caller /\ ~streamed[s]
          /\ Tok("session", s) \in kids[Engine]
      BY <2>1 DEF ChainOf
    <2>3. /\ {Tok("session", s), App(caller[s])} \in SUBSET Token
          /\ \A p \in {Tok("session", s), App(caller[s])} : Rank(p) < Rank(Tok("linked", s))
      BY <2>2, TokenFacts
    <2>4. /\ TokensOK' /\ Apart(s)
          /\ \A p \in {Tok("session", s), App(caller[s])} : Tok("linked", s) \in kids'[p]
          /\ \A q \in Role : q # "linked" =>
                /\ Tok(q, s) \in live' <=> Tok(q, s) \in live
                /\ Tok(q, s) \in cancelled' <=> Tok(q, s) \in cancelled
                /\ \A p \in Token : p # Tok("linked", s) => (Tok(q, s) \in kids'[p] <=> Tok(q, s) \in kids[p])
      BY <2>1, <2>3, LinkStep
    <2>5. /\ Tok("session", s) \in kids'[Engine]
          /\ Tok("lent", s) \in live' => Tok("lent", s) \in live
          /\ Tok("lent", s) \in kids[Tok("session", s)] => Tok("lent", s) \in kids'[Tok("session", s)]
      BY <2>2, <2>4, TokenFacts
    <2>6. /\ st'[s] = "beginning" /\ using'[s] = Tok("linked", s)
          /\ using' \in [Session -> Token \cup {NoToken}] /\ \A u \in Session : u # s => using'[u] = using[u]
      BY <2>1
    <2>7. ChainOf(s)'
      BY <2>1, <2>2, <2>4, <2>5, <2>6 DEF ChainOf
    <2>8. LentOf(s)'
      BY <2>1, <2>5, <2>6, LentKept
    <2> QED
      BY <2>1, <2>4, <2>6, <2>7, <2>8, <1>a, SessionMoves
  <1>2. CASE Begun(s)
    <2>1. /\ st[s] = "beginning" /\ st' = [st EXCEPT ![s] = "txn"]
          /\ Becomes(IF form[s] = "owned" THEN Linked(Graph, Tok("inner", s), {Tok("linked", s)}) ELSE Graph)
          /\ using' = [using EXCEPT ![s] = NoToken] /\ UNCHANGED lifecycle
          /\ closed' = closed /\ form' = form /\ caller' = caller /\ streamed' = streamed
      BY <1>2 DEF Begun, Goto
    <2>2. /\ form[s] \in {"borrowed", "owned"} /\ caller[s] \in Caller /\ ~streamed[s]
          /\ Tok("session", s) \in kids[Engine]
          /\ Tok("linked", s) \in kids[Tok("session", s)] /\ Tok("linked", s) \in kids[App(caller[s])]
      BY <2>1, <1>a DEF ChainOf
    <2>3. /\ st'[s] = "txn" /\ using' \in [Session -> Token \cup {NoToken}]
          /\ \A u \in Session : u # s => using'[u] = using[u]
      BY <2>1
    <2>4. CASE form[s] = "owned"
      <3>1. /\ {Tok("linked", s)} \in SUBSET Token
            /\ \A p \in {Tok("linked", s)} : Rank(p) < Rank(Tok("inner", s))
        BY TokenFacts
      <3>2. /\ TokensOK' /\ Apart(s) /\ Tok("inner", s) \in kids'[Tok("linked", s)]
            /\ \A q \in Role : q # "inner" =>
                  /\ Tok(q, s) \in live' <=> Tok(q, s) \in live
                  /\ Tok(q, s) \in cancelled' <=> Tok(q, s) \in cancelled
                  /\ \A p \in Token : p # Tok("inner", s) => (Tok(q, s) \in kids'[p] <=> Tok(q, s) \in kids[p])
        BY <2>1, <2>4, <3>1, LinkStep
      <3>3. /\ Tok("session", s) \in kids'[Engine]
            /\ Tok("linked", s) \in kids'[Tok("session", s)] /\ Tok("linked", s) \in kids'[App(caller[s])]
            /\ Tok("lent", s) \in live' => Tok("lent", s) \in live
            /\ Tok("lent", s) \in kids[Tok("session", s)] => Tok("lent", s) \in kids'[Tok("session", s)]
        BY <2>2, <3>2, TokenFacts
      <3>4. ChainOf(s)'
        BY <2>1, <2>2, <2>3, <2>4, <3>2, <3>3, <1>a DEF ChainOf
      <3>5. LentOf(s)'
        BY <2>1, <2>3, <3>3, LentKept
      <3> QED
        BY <2>1, <2>3, <3>2, <3>4, <3>5, <1>a, SessionMoves
    <2>5. CASE form[s] # "owned"
      <3>1. UNCHANGED tokens
        BY <2>1, <2>5 DEF Becomes, Graph, tokens
      <3>2. TokensOK' /\ Apart(s) /\ live' = live /\ kids' = kids
        BY <3>1
      <3>3. ChainOf(s)'
        BY <2>1, <2>2, <2>3, <2>5, <3>2, <1>a DEF ChainOf
      <3>4. LentOf(s)'
        BY <2>1, <2>3, <3>2, LentKept
      <3> QED
        BY <2>1, <2>3, <3>2, <3>3, <3>4, <1>a, SessionMoves
    <2> QED
      BY <2>4, <2>5
  <1> QED
    BY <1>1, <1>2

\* A call of the transaction starts or ends, streams apart.
LEMMA CallSteps ==
  ASSUME IInv, NEW s \in Session,
         \/ \E c \in Caller : Execute(s, c) \/ Finish(s, c)
         \/ Executed(s) \/ Release(s)
  PROVE  IInv'
  <1> USE Known, RoleRanks
  <1>a. /\ {"running", "finishing", "txn", "open", "closing"} \subseteq Status
        /\ {"beginning", "running", "finishing", "txn"} \subseteq Busy
        /\ "open" \notin Busy /\ "closing" \notin Busy
        /\ "txn" \notin InFlight /\ "open" \notin InFlight /\ "closing" \notin InFlight
    BY DEF Status, Busy, InFlight
  <1>1. ASSUME NEW c \in Caller, NEW to \in {"running", "finishing"}, Call(s, c, to) PROVE IInv'
    <2>1. /\ st[s] = "txn" /\ st' = [st EXCEPT ![s] = to] /\ UNCHANGED lifecycle
          /\ closed' = closed /\ form' = form /\ caller' = caller /\ streamed' = streamed
      BY <1>1 DEF Call, Goto
    <2>2. /\ form[s] \in {"borrowed", "owned"} /\ caller[s] \in Caller
          /\ Tok("session", s) \in kids[Engine]
          /\ (form[s] = "borrowed" \/ ~streamed[s]) =>
                Tok("linked", s) \in kids[Tok("session", s)] /\ Tok("linked", s) \in kids[App(caller[s])]
          /\ form[s] = "owned" /\ ~streamed[s] => Tok("inner", s) \in kids[Tok("linked", s)]
      BY <2>1, <1>a DEF ChainOf
    <2>3. st'[s] = to
      BY <2>1
    <2>4. CASE form[s] = "owned"
      <3>0. /\ Becomes(Linked(Graph, Tok("op", s), {Tok("inner", s), App(c)}))
            /\ using' = [using EXCEPT ![s] = Tok("op", s)]
        BY <1>1, <2>4 DEF Call
      <3>1. /\ {Tok("inner", s), App(c)} \in SUBSET Token
            /\ \A p \in {Tok("inner", s), App(c)} : Rank(p) < Rank(Tok("op", s))
        BY TokenFacts
      <3>2. /\ TokensOK' /\ Apart(s) /\ \A p \in {Tok("inner", s), App(c)} : Tok("op", s) \in kids'[p]
            /\ \A q \in Role : q # "op" =>
                  /\ Tok(q, s) \in live' <=> Tok(q, s) \in live
                  /\ Tok(q, s) \in cancelled' <=> Tok(q, s) \in cancelled
                  /\ \A p \in Token : p # Tok("op", s) => (Tok(q, s) \in kids'[p] <=> Tok(q, s) \in kids[p])
        BY <3>0, <3>1, LinkStep
      <3>3. /\ Tok("session", s) \in kids'[Engine]
            /\ ~streamed[s] =>
                  /\ Tok("linked", s) \in kids'[Tok("session", s)] /\ Tok("linked", s) \in kids'[App(caller[s])]
                  /\ Tok("inner", s) \in kids'[Tok("linked", s)]
            /\ Tok("lent", s) \in live' => Tok("lent", s) \in live
            /\ Tok("lent", s) \in kids[Tok("session", s)] => Tok("lent", s) \in kids'[Tok("session", s)]
        BY <2>2, <2>4, <3>2, TokenFacts
      <3>4. /\ using' \in [Session -> Token \cup {NoToken}] /\ using'[s] = Tok("op", s)
            /\ \A u \in Session : u # s => using'[u] = using[u]
        BY <3>0
      <3>5. ChainOf(s)'
        BY <2>1, <2>2, <2>3, <2>4, <3>2, <3>3, <3>4 DEF ChainOf
      <3>6. LentOf(s)'
        BY <2>1, <2>3, <3>3, LentKept
      <3> QED
        BY <2>1, <3>2, <3>4, <3>5, <3>6, <1>a, SessionMoves
    <2>5. CASE form[s] # "owned"
      <3>0. UNCHANGED tokens /\ using' = [using EXCEPT ![s] = Tok("linked", s)]
        BY <1>1, <2>5 DEF Call
      <3>1. TokensOK' /\ Apart(s) /\ live' = live /\ kids' = kids
        BY <3>0
      <3>2. /\ using' \in [Session -> Token \cup {NoToken}] /\ using'[s] = Tok("linked", s)
            /\ \A u \in Session : u # s => using'[u] = using[u]
        BY <3>0
      <3>3. ChainOf(s)'
        BY <2>1, <2>2, <2>3, <2>5, <3>1, <3>2 DEF ChainOf
      <3>4. LentOf(s)'
        BY <2>1, <2>3, <3>1, LentKept
      <3> QED
        BY <2>1, <3>1, <3>2, <3>3, <3>4, <1>a, SessionMoves
    <2> QED
      BY <2>4, <2>5
  <1>2. CASE Executed(s)
    <2>1. /\ st[s] = "running" /\ st' = [st EXCEPT ![s] = "txn"] /\ UNCHANGED lifecycle
          /\ Becomes(Dropped(Graph, {Tok("op", s)})) /\ using' = [using EXCEPT ![s] = NoToken]
          /\ closed' = closed /\ form' = form /\ caller' = caller /\ streamed' = streamed
      BY <1>2 DEF Executed, Goto
    <2>2. /\ form[s] \in {"borrowed", "owned"} /\ caller[s] \in Caller
          /\ Tok("session", s) \in kids[Engine]
          /\ (form[s] = "borrowed" \/ ~streamed[s]) =>
                Tok("linked", s) \in kids[Tok("session", s)] /\ Tok("linked", s) \in kids[App(caller[s])]
          /\ form[s] = "owned" /\ ~streamed[s] => Tok("inner", s) \in kids[Tok("linked", s)]
      BY <2>1, <1>a DEF ChainOf
    <2>3. PICK R \in SUBSET Role : R = {"op"} /\ {Tok("op", s)} = {Tok(r, s) : r \in R}
      <3>1. {"op"} \in SUBSET Role /\ {Tok("op", s)} = {Tok(r, s) : r \in {"op"}}
        OBVIOUS
      <3> QED
        BY <3>1, Zenon
    <2>4. /\ TokensOK' /\ Apart(s)
          /\ \A q \in Role : q # "op" =>
                /\ Tok(q, s) \in live' <=> Tok(q, s) \in live
                /\ \A p \in Token : p # Tok("op", s) => (Tok(q, s) \in kids'[p] <=> Tok(q, s) \in kids[p])
      <3>1. /\ TokensOK' /\ Apart(s)
            /\ \A q \in Role : q \notin R =>
                  /\ Tok(q, s) \in live' <=> Tok(q, s) \in live
                  /\ \A p \in Token : (\A r \in R : p # Tok(r, s)) =>
                        (Tok(q, s) \in kids'[p] <=> Tok(q, s) \in kids[p])
        <4>1. Becomes(Dropped(Graph, {Tok(r, s) : r \in R}))
          BY <2>1, <2>3
        <4> QED
          BY <4>1, DropStep
      <3> QED
        BY <3>1, <2>3
    <2>5. /\ Tok("session", s) \in kids'[Engine]
          /\ (form[s] = "borrowed" \/ ~streamed[s]) =>
                Tok("linked", s) \in kids'[Tok("session", s)] /\ Tok("linked", s) \in kids'[App(caller[s])]
          /\ form[s] = "owned" /\ ~streamed[s] => Tok("inner", s) \in kids'[Tok("linked", s)]
          /\ Tok("lent", s) \in live' => Tok("lent", s) \in live
          /\ Tok("lent", s) \in kids[Tok("session", s)] => Tok("lent", s) \in kids'[Tok("session", s)]
      BY <2>2, <2>4, TokenFacts
    <2>6. /\ st'[s] = "txn" /\ using' \in [Session -> Token \cup {NoToken}]
          /\ \A u \in Session : u # s => using'[u] = using[u]
      BY <2>1
    <2>7. ChainOf(s)'
      BY <2>1, <2>2, <2>5, <2>6, <1>a DEF ChainOf
    <2>8. LentOf(s)'
      BY <2>1, <2>5, <2>6, LentKept
    <2> QED
      BY <2>1, <2>4, <2>6, <2>7, <2>8, <1>a, SessionMoves
  <1>3. CASE Release(s)
    <2> DEFINE R == {"linked", "inner", "stream", "op"}
    <2>1. /\ st[s] \in {"beginning", "finishing", "txn"} /\ UNCHANGED lifecycle
          /\ Becomes(Dropped(Graph, {Tok(r, s) : r \in R})) /\ using' = [using EXCEPT ![s] = NoToken]
          /\ form' = form /\ caller' = caller /\ streamed' = streamed
          /\ closed' \in [Session -> BOOLEAN]
      BY <1>3 DEF Release
    <2>2. PICK x \in {"open", "closing"} : st' = [st EXCEPT ![s] = x]
      BY <1>3 DEF Release
    <2>3. Tok("session", s) \in kids[Engine] /\ R \in SUBSET Role
      BY <2>1 DEF ChainOf
    <2> HIDE DEF R
    <2>4. /\ TokensOK' /\ Apart(s)
          /\ \A q \in Role : q \notin R =>
                /\ Tok(q, s) \in live' <=> Tok(q, s) \in live
                /\ \A p \in Token : (\A r \in R : p # Tok(r, s)) =>
                      (Tok(q, s) \in kids'[p] <=> Tok(q, s) \in kids[p])
      BY <2>1, <2>3, DropStep
    <2>5. /\ \A r \in R : Engine # Tok(r, s) /\ Tok("session", s) # Tok(r, s)
          /\ "session" \notin R /\ "lent" \notin R
      BY TokenFacts DEF R
    <2>6. /\ Tok("session", s) \in kids'[Engine]
          /\ Tok("lent", s) \in live' => Tok("lent", s) \in live
          /\ Tok("lent", s) \in kids[Tok("session", s)] => Tok("lent", s) \in kids'[Tok("session", s)]
      BY <2>3, <2>4, <2>5, TokenFacts
    <2>7. /\ st'[s] = x /\ using' \in [Session -> Token \cup {NoToken}]
          /\ \A u \in Session : u # s => using'[u] = using[u]
      BY <2>1, <2>2
    <2>8. ChainOf(s)'
      BY <2>6, <2>7, <1>a DEF ChainOf
    <2>9. LentOf(s)'
      BY <2>1, <2>6, <2>7, LentKept
    <2> QED
      BY <2>1, <2>2, <2>4, <2>7, <2>8, <2>9, <1>a, SessionMoves
  <1> QED
    BY <1>1, <1>2, <1>3 DEF Execute, Finish

\* The streams of a transaction.
LEMMA StreamSteps ==
  ASSUME IInv, NEW s \in Session,
         \/ \E c \in Caller : OpenStream(s, c) \/ Fetch(s, c)
         \/ StreamOpened(s) \/ Fetched(s) \/ DropStream(s)
  PROVE  IInv'
  <1> USE Known, RoleRanks
  <1>a. /\ {"opening", "stream", "fetching", "txn"} \subseteq Status
        /\ {"opening", "stream", "fetching", "txn"} \subseteq Busy
        /\ {"opening", "fetching"} \subseteq InFlight /\ "txn" \notin InFlight /\ "stream" \notin InFlight
    BY DEF Status, Busy, InFlight
  <1>1. ASSUME NEW c \in Caller, OpenStream(s, c) PROVE IInv'
    <2>1. /\ st[s] = "txn" /\ st' = [st EXCEPT ![s] = "opening"] /\ UNCHANGED lifecycle
          /\ closed' = closed /\ form' = form /\ caller' = caller
          /\ streamed' = [streamed EXCEPT ![s] = TRUE]
      BY <1>1 DEF OpenStream, Goto
    <2>2. /\ form[s] \in {"borrowed", "owned"} /\ caller[s] \in Caller
          /\ Tok("session", s) \in kids[Engine]
          /\ form[s] = "borrowed" =>
                Tok("linked", s) \in kids[Tok("session", s)] /\ Tok("linked", s) \in kids[App(caller[s])]
      BY <2>1, <1>a DEF ChainOf
    <2>3. /\ st'[s] = "opening" /\ streamed'[s] /\ streamed' \in [Session -> BOOLEAN]
          /\ \A u \in Session : u # s => streamed'[u] = streamed[u]
      BY <2>1
    <2>4. CASE form[s] = "owned"
      <3> DEFINE g == Linked(Graph, Tok("stream", s), {Tok("inner", s), App(c)})
      <3> DEFINE h == Dropped(g, {Tok("linked", s)})
      <3>0. Becomes(h) /\ using' = [using EXCEPT ![s] = Tok("stream", s)]
        BY <1>1, <2>4 DEF OpenStream
      <3>1. live' = h.live /\ cancelled' = h.cancelled /\ kids' = h.kids
        BY <3>0 DEF Becomes
      <3>2. /\ {Tok("inner", s), App(c)} \in SUBSET Token /\ {Tok("linked", s)} \in SUBSET Token
            /\ Tok("stream", s) \in Token
            /\ \A p \in {Tok("inner", s), App(c)} : Rank(p) < Rank(Tok("stream", s))
        BY TokenFacts
      <3>3. Graph.live = live /\ Graph.cancelled = cancelled /\ Graph.kids = kids /\ GraphOK(Graph)
        BY DEF Graph, TokensOK
      <3>4. /\ GraphOK(g)
            /\ \A x \in Token : x # Tok("stream", s) =>
                  /\ x \in g.live <=> x \in Graph.live
                  /\ x \in g.cancelled <=> x \in Graph.cancelled
                  /\ \A p \in Token : p # Tok("stream", s) => (x \in g.kids[p] <=> x \in Graph.kids[p])
        BY <3>2, <3>3, LinkedFacts
      <3> HIDE DEF g
      <3>5. /\ GraphOK(h)
            /\ \A x \in Token : x \notin {Tok("linked", s)} =>
                  /\ x \in h.live <=> x \in g.live
                  /\ x \in h.cancelled <=> x \in g.cancelled
                  /\ \A p \in Token : p \notin {Tok("linked", s)} => (x \in h.kids[p] <=> x \in g.kids[p])
        BY <3>2, <3>4, DroppedFacts
      <3> HIDE DEF h
      <3>6. \A x \in Token : x # Tok("stream", s) /\ x # Tok("linked", s) =>
                  /\ x \in live' <=> x \in live
                  /\ x \in cancelled' <=> x \in cancelled
                  /\ \A p \in Token : p # Tok("stream", s) /\ p # Tok("linked", s) =>
                        (x \in kids'[p] <=> x \in kids[p])
        BY <3>1, <3>3, <3>4, <3>5
      <3>7. TokensOK'
        BY <3>1, <3>5 DEF TokensOK, GraphOK, Graph
      <3>8. Apart(s)
        BY <3>6, TokenFacts DEF Apart
      <3>9. /\ Tok("session", s) \in kids'[Engine]
            /\ Tok("lent", s) \in live' => Tok("lent", s) \in live
            /\ Tok("lent", s) \in kids[Tok("session", s)] => Tok("lent", s) \in kids'[Tok("session", s)]
        BY <2>2, <3>6, TokenFacts
      <3>10. using' \in [Session -> Token \cup {NoToken}] /\ \A u \in Session : u # s => using'[u] = using[u]
        BY <3>0, <3>2
      <3>11. ChainOf(s)'
        BY <2>1, <2>2, <2>3, <2>4, <3>9 DEF ChainOf
      <3>12. LentOf(s)'
        BY <2>1, <2>3, <3>9, LentKept
      <3> QED
        BY <2>1, <2>3, <3>7, <3>8, <3>10, <3>11, <3>12, <1>a, SessionMoves
    <2>5. CASE form[s] # "owned"
      <3>0. UNCHANGED tokens /\ using' = [using EXCEPT ![s] = Tok("linked", s)]
        BY <1>1, <2>5 DEF OpenStream
      <3>1. TokensOK' /\ Apart(s) /\ live' = live /\ kids' = kids
        BY <3>0
      <3>2. /\ using' \in [Session -> Token \cup {NoToken}] /\ using'[s] = Tok("linked", s)
            /\ \A u \in Session : u # s => using'[u] = using[u]
        BY <3>0
      <3>3. ChainOf(s)'
        BY <2>1, <2>2, <2>3, <2>5, <3>1, <3>2 DEF ChainOf
      <3>4. LentOf(s)'
        BY <2>1, <2>3, <3>1, LentKept
      <3> QED
        BY <2>1, <2>3, <3>1, <3>2, <3>3, <3>4, <1>a, SessionMoves
    <2> QED
      BY <2>4, <2>5
  \* The others only move the session and the token looked at.
  <1>2. ASSUME NEW x \in {"stream", "fetching", "txn"}, st[s] \in {"opening", "stream", "fetching"},
               st' = [st EXCEPT ![s] = x], UNCHANGED lifecycle, UNCHANGED tokens,
               closed' = closed, form' = form, caller' = caller, streamed' = streamed,
               using' \in [Session -> Token \cup {NoToken}], \A u \in Session : u # s => using'[u] = using[u],
               x = "fetching" /\ form[s] = "borrowed" => using'[s] = Tok("linked", s)
        PROVE  IInv'
    <2>1. TokensOK' /\ Apart(s) /\ live' = live /\ kids' = kids
      BY <1>2
    <2>2. st'[s] = x
      BY <1>2
    <2>3. /\ form[s] \in {"borrowed", "owned"} /\ caller[s] \in Caller /\ streamed[s]
          /\ Tok("session", s) \in kids[Engine]
          /\ form[s] = "borrowed" =>
                Tok("linked", s) \in kids[Tok("session", s)] /\ Tok("linked", s) \in kids[App(caller[s])]
      BY <1>2, <1>a DEF ChainOf
    <2>4. ChainOf(s)'
      BY <1>2, <2>1, <2>2, <2>3, <1>a DEF ChainOf
    <2>5. LentOf(s)'
      BY <1>2, <2>1, <2>2, LentKept
    <2> QED
      BY <1>2, <2>1, <2>4, <2>5, <1>a, SessionMoves
  <1>3. ASSUME NEW c \in Caller, Fetch(s, c) PROVE IInv'
    <2>1. /\ using' \in [Session -> Token \cup {NoToken}] /\ \A u \in Session : u # s => using'[u] = using[u]
          /\ form[s] = "borrowed" => using'[s] = Tok("linked", s)
      BY <1>3, TokenFacts DEF Fetch
    <2> QED
      BY <1>3, <2>1, <1>2 DEF Fetch, Goto
  <1>4. CASE StreamOpened(s) \/ Fetched(s) \/ DropStream(s)
    BY <1>4, <1>2 DEF StreamOpened, Fetched, DropStream, Goto
  <1> QED
    BY <1>1, <1>3, <1>4

-----------------------------------------------------------------------------
(* The theorems.                                                           *)

\* Every step preserves the invariant.
LEMMA NextOK == IInv /\ [Next]_vars => IInv'
  <1> SUFFICES ASSUME IInv, [Next]_vars PROVE IInv'
    OBVIOUS
  <1>1. CASE UNCHANGED vars
    <2>1. /\ st' = st /\ closed' = closed /\ form' = form /\ caller' = caller /\ using' = using
          /\ streamed' = streamed /\ opened' = opened /\ active' = active
          /\ live' = live /\ cancelled' = cancelled /\ kids' = kids
          /\ disposed' = disposed /\ dispose' = dispose
      BY <1>1 DEF vars, sessions, tokens, lifecycle
    <2>2. TypeOK' /\ TokensOK'
      BY <2>1 DEF IInv, TypeOK, TokensOK, Graph, GraphOK
    <2>3. SessionsOK'
      BY <2>1 DEF IInv, SessionsOK, ChainOf, LentOf
    <2>4. ActiveSessionsExact'
      BY <2>1 DEF IInv, ActiveSessionsExact
    <2> QED
      BY <2>2, <2>3, <2>4 DEF IInv
  <1>2. CASE DisposeMark \/ DisposeCancel \/ \E c \in Caller : CallerCancel(c)
    BY <1>2, CancelSteps
  <1>3. ASSUME NEW s \in Session,
               \/ Open(s) \/ OpenToken(s) \/ Lend(s)
               \/ \E c \in Caller :
                     \/ \E f \in Form : Begin(s, f, c)
                     \/ Execute(s, c) \/ Finish(s, c) \/ OpenStream(s, c) \/ Fetch(s, c)
               \/ BeginLink(s) \/ Begun(s) \/ Executed(s) \/ Release(s)
               \/ StreamOpened(s) \/ Fetched(s) \/ DropStream(s)
               \/ CancelTransaction(s)
               \/ Close(s) \/ CloseCancel(s) \/ CloseCount(s) \/ DropSession(s)
        PROVE  IInv'
    BY <1>3, CancelSteps, CountSteps, LifeSteps, BeginSteps, CallSteps, StreamSteps
  <1> QED
    BY <1>1, <1>2, <1>3 DEF Next

\* The invariant holds in every reachable state, for any number of sessions
\* and callers.
THEOREM SessionsInv == Spec => []IInv
  BY InitOK, NextOK, PTL DEF Spec

\* Type correctness of the engine's lifecycle; in particular the count of
\* active sessions never goes below zero.
THEOREM SessionTypes == Spec => []TypeOK
  <1>1. IInv => TypeOK
    BY DEF IInv
  <1> QED
    BY <1>1, SessionsInv, PTL

\* dispose(), close() and the caller's cancellation reach the provider call
\* in flight of every transaction that is not an owned one with a stream.
THEOREM LifecycleReaches == Spec => []LifecycleReachesUnstreamed
  <1>1. IInv => LifecycleReachesUnstreamed
    <2> SUFFICES ASSUME IInv, NEW s \in Session, form[s] = "borrowed" \/ ~streamed[s], st[s] \in InFlight
                 PROVE  /\ Engine \in cancelled => using[s] \in cancelled
                        /\ Tok("session", s) \in cancelled => using[s] \in cancelled
                        /\ caller[s] \in Caller /\ App(caller[s]) \in cancelled => using[s] \in cancelled
      BY DEF LifecycleReachesUnstreamed, Reaches
    <2>1. ChainOf(s) /\ \A p \in cancelled : kids[p] \subseteq cancelled
      BY DEF IInv, SessionsOK, TokensOK, GraphOK, Graph
    <2>2. /\ Tok("session", s) \in kids[Engine]
          /\ Tok("linked", s) \in kids[Tok("session", s)] /\ Tok("linked", s) \in kids[App(caller[s])]
      BY <2>1 DEF ChainOf, Busy, InFlight
    <2>3. \/ using[s] = Tok("linked", s)
          \/ /\ using[s] = Tok("op", s) /\ Tok("inner", s) \in kids[Tok("linked", s)]
             /\ Tok("op", s) \in kids[Tok("inner", s)]
      BY <2>1 DEF ChainOf, Busy, InFlight
    <2>4. Tok("linked", s) \in cancelled => using[s] \in cancelled
      BY <2>1, <2>3
    <2> QED
      BY <2>1, <2>2, <2>4
  <1> QED
    BY <1>1, SessionsInv, PTL

\* A lent token is cancelled with its session and with the engine.
THEOREM LentFollows == Spec => []LentFollowsSession
  <1>1. IInv => LentFollowsSession
    <2> SUFFICES ASSUME IInv, NEW s \in Session, Tok("lent", s) \in live
                 PROVE  /\ Engine \in cancelled => Tok("lent", s) \in cancelled
                        /\ st[s] \in {"leaving", "closed", "dropped"} => Tok("lent", s) \in cancelled
      BY DEF LentFollowsSession
    <2>1. ChainOf(s) /\ LentOf(s) /\ \A p \in cancelled : kids[p] \subseteq cancelled
      BY DEF IInv, SessionsOK, TokensOK, GraphOK, Graph
    <2>2. st[s] \in {"leaving", "closed", "dropped"} => Tok("lent", s) \in cancelled
      BY <2>1 DEF LentOf
    <2>3. st[s] # "dropped" => /\ Tok("session", s) \in kids[Engine]
                               /\ Tok("lent", s) \in kids[Tok("session", s)]
      BY <2>1 DEF ChainOf, LentOf
    <2> QED
      BY <2>1, <2>2, <2>3
  <1> QED
    BY <1>1, SessionsInv, PTL

\* active_sessions and sessions_opened are exact.
THEOREM CountsStayExact == Spec => []ActiveSessionsExact
  <1>1. IInv => ActiveSessionsExact
    BY DEF IInv
  <1> QED
    BY <1>1, SessionsInv, PTL

-----------------------------------------------------------------------------
(* The caches: EngineCache.                                                *)

Answering == {"leave", "compare", "store"}

\* The answer a call carries is its own secret's, observed since it began.
AnswersOK ==
    \A t \in Task :
        /\ since[t] <= version[key[t]]
        /\ pc[t] \in Answering /\ answer[t].kind = "ok"
              => answer[t].gen = mine[t] /\ answer[t].seen >= since[t]

CacheInv == CacheTypeOK /\ CacheIsCurrent /\ AnswersOK /\ RefreshIsNew

\* The initial states satisfy the invariant.
LEMMA CacheInitOK == CacheInit => CacheInv
  <1> SUFFICES ASSUME CacheInit PROVE CacheInv
    OBVIOUS
  <1>1. None \in Slot /\ None \in Result /\ None.kind # "ok"
    BY DEF None, Slot, Result
  <1>2. CacheTypeOK
    <2>1. isDisposed \in BOOLEAN /\ clearing \in BOOLEAN
      BY DEF CacheInit
    <2>2. /\ gen \in 0 .. MaxGen /\ now \in 0 .. MaxTime
          /\ version \in [Key -> 0 .. MaxVersion]
          /\ attempt \in [Task -> 1 .. MaxAttempts]
          /\ mine \in [Task -> 0 .. MaxGen]
          /\ since \in [Task -> 0 .. MaxVersion]
      BY EngineCacheAssumption DEF CacheInit
    <2>3. cache \in [Key -> Slot] /\ answer \in [Task -> Result] /\ result \in [Task -> Result]
      BY <1>1 DEF CacheInit
    <2>4. key \in [Task -> Key] /\ refresh \in [Task -> BOOLEAN]
      BY EngineCacheAssumption DEF CacheInit
    <2> QED
      BY <2>1, <2>2, <2>3, <2>4 DEF CacheInit, CacheTypeOK
  <1>3. CacheIsCurrent /\ AnswersOK /\ RefreshIsNew
    BY <1>1, EngineCacheAssumption DEF CacheInit, CacheIsCurrent, AnswersOK, RefreshIsNew, Answering
  <1> QED
    BY <1>2, <1>3 DEF CacheInv

-----------------------------------------------------------------------------
\* Every step keeps the types.
LEMMA TypeStep == CacheTypeOK /\ [CacheNext]_cacheVars => CacheTypeOK'
  <1> SUFFICES ASSUME CacheTypeOK, [CacheNext]_cacheVars PROVE CacheTypeOK'
    OBVIOUS
  <1> USE EngineCacheAssumption DEF CacheTypeOK
  <1>1. None \in Slot /\ None \in Result /\ Failed \in Result
    BY DEF None, Failed, Slot, Result
  <1>2. \A e \in Slot : e \in Result
    BY DEF Slot, Result
  <1>3. ASSUME NEW t \in Task, NEW k \in Key, NEW r \in BOOLEAN, Request(t, k, r) PROVE CacheTypeOK'
    BY <1>3 DEF Request, Advance, shared
  <1>4. ASSUME NEW t \in Task, Enter(t) PROVE CacheTypeOK'
    BY <1>1, <1>4 DEF Enter, Return, Forget, shared
  <1>5. ASSUME NEW t \in Task, Snapshot(t) PROVE CacheTypeOK'
    BY <1>1, <1>2, <1>5 DEF Snapshot, Return, Forget, shared
  <1>6. ASSUME NEW t \in Task, Ask(t) PROVE CacheTypeOK'
    <2>1. [gen |-> mine[t], seen |-> version[key[t]], at |-> 0, kind |-> "ok"] \in Result
      BY DEF Result, Entry
    <2> QED
      BY <1>1, <1>6, <2>1 DEF Ask, Advance, shared
  <1>7. ASSUME NEW t \in Task, Leave(t) PROVE CacheTypeOK'
    BY <1>1, <1>7 DEF Leave, Return, Forget, shared
  <1>8. ASSUME NEW t \in Task, Compare(t) PROVE CacheTypeOK'
    BY <1>1, <1>8 DEF Compare, Again, Return, Forget, shared
  <1>9. ASSUME NEW t \in Task, Store(t) PROVE CacheTypeOK'
    <2>1. answer[t].kind = "ok" => answer[t] \in Entry
      BY DEF Result, None, Failed
    <2>2. answer[t].kind = "ok" => Stamped(key[t], answer[t]) \in Slot
      BY <2>1 DEF Slot, Entry, Stamped
    <2>3. cache' \in [Key -> Slot]
      BY <1>9, <2>2 DEF Store
    <2>4. /\ pc' \in [Task -> {"idle", "enter", "snapshot", "ask", "leave", "compare", "store",
                               "done", "rotate"}]
          /\ attempt' \in [Task -> 1 .. MaxAttempts]
          /\ result' \in [Task -> Result]
          /\ mine' \in [Task -> 0 .. MaxGen] /\ answer' \in [Task -> Result]
      BY <1>1, <1>9 DEF Store, Again, Return, Forget
    <2> QED
      BY <1>9, <2>3, <2>4 DEF Store
  <1>10. ASSUME NEW t \in Task, Done(t) PROVE CacheTypeOK'
    BY <1>1, <1>10 DEF Done, Advance, shared
  <1>11. ASSUME NEW t \in Task, RotateEnter(t) \/ RotateSecret(t) PROVE CacheTypeOK'
    BY <1>1, <1>11 DEF RotateEnter, RotateSecret, Advance, shared, call
  <1>12. ASSUME NEW ks \in SUBSET (Key \ {Capabilities}), InvalidateMetadata(ks) PROVE CacheTypeOK'
    BY <1>1, <1>12 DEF InvalidateMetadata, call
  <1>13. ASSUME Dispose \/ DisposeClear \/ Tick PROVE CacheTypeOK'
    <2>1. CASE Dispose
      BY <2>1 DEF Dispose, call
    <2>2. CASE DisposeClear
      BY <1>1, <2>2 DEF DisposeClear, call
    <2>3. CASE Tick
      BY <2>3 DEF Tick, call
    <2> QED
      BY <1>13, <2>1, <2>2, <2>3
  <1>14. ASSUME NEW k \in Key, Alter(k) PROVE CacheTypeOK'
    BY <1>14 DEF Alter, call
  <1>15. CASE UNCHANGED cacheVars
    BY <1>15 DEF cacheVars, shared, call
  <1> QED
    BY <1>3, <1>4, <1>5, <1>6, <1>7, <1>8, <1>9, <1>10, <1>11, <1>12, <1>13, <1>14, <1>15
    DEF CacheNext

\* Every step keeps the caches current and the answers honest.
LEMMA ContentStep == CacheInv /\ [CacheNext]_cacheVars => CacheIsCurrent' /\ AnswersOK' /\ RefreshIsNew'
  <1> SUFFICES ASSUME CacheInv, [CacheNext]_cacheVars
               PROVE  CacheIsCurrent' /\ AnswersOK' /\ RefreshIsNew'
    OBVIOUS
  <1> USE EngineCacheAssumption DEF CacheInv, CacheTypeOK, CacheIsCurrent, AnswersOK, RefreshIsNew,
          Answering
  <1>1. None.kind # "ok" /\ Failed.kind # "ok"
    BY DEF None, Failed
  <1>3. ASSUME NEW t \in Task, NEW k \in Key, NEW r \in BOOLEAN, Request(t, k, r)
        PROVE  CacheIsCurrent' /\ AnswersOK' /\ RefreshIsNew'
    BY <1>3 DEF Request, Advance, shared
  <1>4. ASSUME NEW t \in Task, Enter(t)
        PROVE  CacheIsCurrent' /\ AnswersOK' /\ RefreshIsNew'
    BY <1>1, <1>4 DEF Enter, Return, Forget, shared
  <1>5. ASSUME NEW t \in Task, Snapshot(t)
        PROVE  CacheIsCurrent' /\ AnswersOK' /\ RefreshIsNew'
    BY <1>1, <1>5 DEF Snapshot, Return, Forget, shared
  <1>6. ASSUME NEW t \in Task, Ask(t)
        PROVE  CacheIsCurrent' /\ AnswersOK' /\ RefreshIsNew'
    BY <1>1, <1>6 DEF Ask, Advance, shared
  <1>7. ASSUME NEW t \in Task, Leave(t)
        PROVE  CacheIsCurrent' /\ AnswersOK' /\ RefreshIsNew'
    BY <1>1, <1>7 DEF Leave, Return, Forget, shared
  <1>8. ASSUME NEW t \in Task, Compare(t)
        PROVE  CacheIsCurrent' /\ AnswersOK' /\ RefreshIsNew'
    BY <1>1, <1>8 DEF Compare, Again, Return, Forget, shared
  <1>9. ASSUME NEW t \in Task, Store(t)
        PROVE  CacheIsCurrent' /\ AnswersOK' /\ RefreshIsNew'
    <2>1. answer[t].kind = "ok" =>
             /\ answer[t].gen = mine[t]
             /\ Stamped(key[t], answer[t]).gen = answer[t].gen
      BY <1>9 DEF Store, Result, Entry, None, Failed, Stamped
    <2>2. CacheIsCurrent'
      BY <1>9, <2>1 DEF Store
    <2>3. AnswersOK' /\ RefreshIsNew'
      BY <1>1, <1>9 DEF Store, Again, Return, Forget
    <2> QED
      BY <2>2, <2>3
  <1>10. ASSUME NEW t \in Task, Done(t)
         PROVE  CacheIsCurrent' /\ AnswersOK' /\ RefreshIsNew'
    BY <1>1, <1>10 DEF Done, Advance, shared
  <1>11. ASSUME NEW t \in Task, RotateEnter(t) \/ RotateSecret(t)
         PROVE  CacheIsCurrent' /\ AnswersOK' /\ RefreshIsNew'
    BY <1>1, <1>11 DEF RotateEnter, RotateSecret, Advance, shared, call
  <1>12. ASSUME NEW ks \in SUBSET (Key \ {Capabilities}), InvalidateMetadata(ks)
         PROVE  CacheIsCurrent' /\ AnswersOK' /\ RefreshIsNew'
    BY <1>1, <1>12 DEF InvalidateMetadata, call
  <1>13. ASSUME Dispose \/ DisposeClear \/ Tick
         PROVE  CacheIsCurrent' /\ AnswersOK' /\ RefreshIsNew'
    BY <1>1, <1>13 DEF Dispose, DisposeClear, Tick, call
  <1>14. ASSUME NEW k \in Key, Alter(k)
         PROVE  CacheIsCurrent' /\ AnswersOK' /\ RefreshIsNew'
    BY <1>14 DEF Alter, call
  <1>15. CASE UNCHANGED cacheVars
    BY <1>15 DEF cacheVars, shared, call
  <1> HIDE DEF CacheInv, CacheTypeOK, CacheIsCurrent, AnswersOK, RefreshIsNew
  <1> QED
    BY <1>3, <1>4, <1>5, <1>6, <1>7, <1>8, <1>9, <1>10, <1>11, <1>12, <1>13, <1>14, <1>15
    DEF CacheNext

\* The inductive invariant holds of every reachable state of the caches.
THEOREM CacheInvariance == CacheSpec => []CacheInv
  <1>1. CacheInv /\ [CacheNext]_cacheVars => CacheInv'
    BY TypeStep, ContentStep DEF CacheInv
  <1> QED
    BY CacheInitOK, <1>1, PTL DEF CacheSpec

\* Type correctness, the bound of MAX_ATTEMPTS on every call included.
THEOREM CacheTypes == CacheSpec => []CacheTypeOK
  <1>1. CacheInv => CacheTypeOK
    BY DEF CacheInv
  <1> QED
    BY CacheInvariance, <1>1, PTL

\* No entry obtained with an older secret is ever cached: a rotation empties
\* the caches and the write block of capabilities() and reflect_table()
\* refuses answers that were asked for before it.
THEOREM CacheStaysCurrent == CacheSpec => []CacheIsCurrent
  <1>1. CacheInv => CacheIsCurrent
    BY DEF CacheInv
  <1> QED
    BY CacheInvariance, <1>1, PTL

\* The answer of a refreshing call was observed after the call began.
THEOREM RefreshObserves == CacheSpec => []RefreshIsNew
  <1>1. CacheInv => RefreshIsNew
    BY DEF CacheInv
  <1> QED
    BY CacheInvariance, <1>1, PTL

\* A call succeeds only with an answer of the secret installed at that moment,
\* whether it comes from the cache or from the provider.
THEOREM AnswersStayCurrent == CacheSpec => AnswersAreCurrent
  <1>1. CacheInv /\ [CacheNext]_cacheVars => [AnswerCurrent]_cacheVars
    <2> SUFFICES ASSUME CacheInv, CacheNext, NEW t \in Task,
                        pc[t] # "done", pc'[t] = "done", result'[t].kind = "ok"
                 PROVE  result'[t].gen = gen
      BY DEF AnswerCurrent
    <2> USE DEF CacheInv, CacheTypeOK
    <2>1. None.kind # "ok" /\ Failed.kind # "ok"
      BY DEF None, Failed
    <2>2. ASSUME NEW u \in Task, Snapshot(u) PROVE result'[t].gen = gen
      BY <2>1, <2>2 DEF Snapshot, Return, Forget, CacheIsCurrent
    <2>3. ASSUME NEW u \in Task, Store(u) PROVE result'[t].gen = gen
      BY <2>1, <2>3 DEF Store, Again, Return, Forget, AnswersOK, Answering
    <2>4. ASSUME NEW u \in Task, Enter(u) \/ Leave(u) \/ Compare(u) PROVE result'[t].gen = gen
      BY <2>1, <2>4 DEF Enter, Leave, Compare, Again, Return, Forget
    <2>5. ASSUME NEW u \in Task,
                 \/ \E k \in Key, r \in BOOLEAN : Request(u, k, r)
                 \/ Ask(u) \/ Done(u) \/ RotateEnter(u) \/ RotateSecret(u)
          PROVE  FALSE
      BY <2>5 DEF Request, Ask, Done, RotateEnter, RotateSecret, Advance
    <2>6. ASSUME \/ \E ks \in SUBSET (Key \ {Capabilities}) : InvalidateMetadata(ks)
                 \/ Dispose \/ DisposeClear \/ Tick
                 \/ \E k \in Key : Alter(k)
          PROVE  FALSE
      BY <2>6 DEF InvalidateMetadata, Dispose, DisposeClear, Tick, Alter
    <2> QED
      BY <2>2, <2>3, <2>4, <2>5, <2>6 DEF CacheNext
  <1> QED
    BY CacheInvariance, <1>1, PTL DEF CacheSpec, AnswersAreCurrent
=============================================================================
