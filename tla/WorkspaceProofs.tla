--------------------------- MODULE WorkspaceProofs --------------------------
(***************************************************************************)
(* Theorems about one open project, for a history of any length and any    *)
(* number of revisions, edits, requests and reloads.                       *)
(*                                                                         *)
(* The argument is about a workspace state, the one in the store or the    *)
(* one in IndexedDB, and the same invariant (Sound) holds of both, since a *)
(* reload makes the second the first:                                      *)
(*   - the undo history is a chain that ends at the working graph, and the *)
(*     redo history one that starts there;                                 *)
(*   - nothing that a redo would bring back counts as the user's any more; *)
(*   - if the workspace is writable its graph is the server's.             *)
(* The last one needs that an update on its way that is of the latest edit *)
(* carries the working graph (Latest).                                     *)
(***************************************************************************)
EXTENDS Workspace, SequenceTheorems, WellFoundedInduction, TLAPS

Graph == 1..fresh
Entry == [kind : {"graph", "whole"}, before : Graph, after : Graph]
Sync == {"clean", "saving", "offline", "conflict", "error"}

Typed(s) ==
  s \in [working : Graph, local : Nat, acked : Nat, rev : 1..Revision, sync : Sync,
         past : Seq(Entry), future : Seq(Entry)]
UndoChain(s) ==
  /\ Len(s.past) <= MaxHistory
  /\ s.past # <<>> => s.past[Len(s.past)].after = s.working
  /\ \A i \in 1..(Len(s.past) - 1) : s.past[i].after = s.past[i + 1].before
RedoChain(s) ==
  /\ s.future # <<>> => s.future[Len(s.future)].before = s.working
  /\ \A i \in 1..(Len(s.future) - 1) : s.future[i].before = s.future[i + 1].after
TakenBack(s) == \A i \in 1..Len(s.future) : s.future[i].after \notin mine
OfServer(s) ==
  crossed \/ (s.local = s.acked /\ s.sync = "clean" => s.working = docs[s.rev])
Sound(s) == Typed(s) /\ UndoChain(s) /\ RedoChain(s) /\ TakenBack(s) /\ OfServer(s)

ServerOK ==
  /\ fresh \in Nat \ {0}
  /\ docs \in Seq(Graph) /\ Len(docs) >= 1
  /\ mine \in SUBSET Graph
  /\ refresh \in 0..Revision
  /\ crossed \in BOOLEAN

(* Requests on their way.                                                  *)
CallOK(c) ==
  /\ c \in [sent : Nat, rev : Nat, graph : Graph, state : {"sent", "accepted", "conflict"}]
  /\ c.state = "accepted" => c.rev \in 1..Revision /\ docs[c.rev] = c.graph
AskOK ==
  \/ ask = None
  \/ /\ ask \in [kind : {"job", "copy"}, rev : Nat, local : Nat,
                 state : {"sent", "accepted", "conflict"}]
     /\ ask.state = "accepted" => ask.kind = "copy" /\ ask.rev \in 1..Revision
Latest ==
  crossed \/ \A c \in calls :
    c.sent <= client.local /\ (c.sent = client.local => c.graph = client.working)
CallsOK == \A c \in calls : CallOK(c)
StoredOK == "none" \in DOMAIN stored \/ Sound(stored)

WorkspaceInv ==
  ServerOK /\ CallsOK /\ AskOK /\ Latest /\ Sound(client) /\ StoredOK

-----------------------------------------------------------------------------
(* Sequences.                                                              *)

LEMMA LargerElements ==
  ASSUME NEW S, NEW T, S \subseteq T, NEW s \in Seq(S) PROVE s \in Seq(T)
  OBVIOUS

LEMMA DropLast ==
  ASSUME NEW S, NEW s \in Seq(S), s # <<>>
  PROVE  /\ Front_(s) \in Seq(S) /\ Len(Front_(s)) = Len(s) - 1
         /\ \A i \in 1..(Len(s) - 1) : Front_(s)[i] = s[i]
         /\ Len(s) \in Nat \ {0} /\ Head_(s) \in S /\ Head_(s) = s[Len(s)]
<1> DEFINE n == Len(s)
           u == SubSeq(s, 1, n - 1)
<1>1. n \in Nat \ {0} /\ (\A i \in 1..(n - 1) : s[i] \in S) /\ s[n] \in S
  OBVIOUS
<1>2. Front_(s) = u /\ Head_(s) = s[n]
  BY DEF Front_, Head_
<1>3. n = Len(s)
  OBVIOUS
<1> HIDE DEF n
<1>4. 1 \in Int /\ n - 1 \in Int
  BY <1>1
<1>5. /\ u \in Seq(S) /\ Len(u) = IF 1 <= n - 1 THEN n - 1 - 1 + 1 ELSE 0
      /\ \A i \in 1..(n - 1 - 1 + 1) : u[i] = s[1 + i - 1]
  BY <1>1, <1>4, SubSeqProperties
<1> HIDE DEF u
<1> QED
  BY <1>1, <1>2, <1>3, <1>5

LEMMA LeastOf ==
  ASSUME NEW T, T \subseteq Nat, T # {}
  PROVE  (CHOOSE n \in T : \A k \in T : n <= k) \in T
         /\ \A k \in T : (CHOOSE n \in T : \A k_1 \in T : n <= k_1) <= k
<1>1. IsWellFoundedOn(OpToRel(<, Nat), Nat)
  BY NatLessThanWellFounded
<1>2. PICK x \in T : \A y \in T : ~(<<y, x>> \in OpToRel(<, Nat))
  BY <1>1, WFMin
<1>3. \A y \in T : ~(y < x)
  BY <1>2 DEF OpToRel
<1>4. \A k \in T : x <= k
  BY <1>3
<1> QED
  BY <1>4

(* An entry that is pushed is the last, unless it is too large itself: d   *)
(* is how many were given up for it, and without the last of those the     *)
(* rest would not fit.                                                     *)
Follows(q, s, e, d) ==
  /\ d \in 0..(Len(s) + 1) /\ Len(q) = Len(s) + 1 - d /\ Len(q) <= MaxHistory
  /\ Len(q) # 0 => q[Len(q)] = e
  /\ \A i \in 1..(Len(q) - 1) : q[i] = s[i + d]
  /\ q = Since(Append(s, e), d + 1)
  /\ d # 0 => ~Fits(Since(Append(s, e), d))

LEMMA Pushed ==
  ASSUME NEW S, NEW s \in Seq(S), NEW e \in S,
         NEW q, q = Trimmed(Append(s, e))
  PROVE  q \in Seq(S) /\ \E d \in 0..(Len(s) + 1) : Follows(q, s, e, d)
<1> DEFINE a == Append(s, e)
           enough == {n \in 0..Len(a) : n = Len(a) \/ Fits(Since(a, n + 1))}
           d == CHOOSE n \in enough : \A k \in enough : n <= k
<1>1. /\ a \in Seq(S) /\ Len(a) = Len(s) + 1 /\ Len(s) \in Nat
      /\ \A i \in 1..Len(s) : a[i] = s[i]
      /\ a[Len(s) + 1] = e
  BY AppendProperties
<1>2. q = Since(a, 1 + d)
  BY DEF Trimmed
<1>3. enough \subseteq Nat /\ enough # {}
  <2>1. Len(a) \in enough
    BY <1>1
  <2> QED
    BY <2>1
<1>4. d \in enough /\ \A k \in enough : d <= k
  <2> HIDE DEF enough
  <2> QED
    BY <1>3, LeastOf
<1>5. d \in 0..Len(a) /\ (d = Len(a) \/ Fits(Since(a, d + 1)))
  BY <1>4
<1>6. ASSUME d # 0 PROVE ~Fits(Since(a, d))
  <2>1. d - 1 \in 0..Len(a) /\ ~(d <= d - 1) /\ d - 1 + 1 = d
    <3> HIDE DEF d, a
    <3> QED
      BY <1>1, <1>5, <1>6
  <2>2. d - 1 \notin enough
    <3> HIDE DEF d, enough
    <3> QED
      BY <1>4, <2>1
  <2> QED
    BY <2>1, <2>2
<1> HIDE DEF a, enough, d
<1>7. \A i \in (d + 1)..Len(a) : a[i] \in S
  BY <1>1, <1>5
<1>8. /\ q \in Seq(S) /\ Len(q) = Len(a) - d
      /\ \A i \in 1..(Len(a) - d) : q[i] = a[d + i]
  <2>1. q = SubSeq(a, d + 1, Len(a)) /\ d \in Nat /\ Len(a) \in Nat /\ d <= Len(a)
    BY <1>1, <1>2, <1>5 DEF Since
  <2>2. /\ q \in Seq(S) /\ Len(q) = IF d + 1 <= Len(a) THEN Len(a) - (d + 1) + 1 ELSE 0
        /\ \A i \in 1..(Len(a) - (d + 1) + 1) : q[i] = a[d + 1 + i - 1]
    BY <1>7, <2>1, SubSeqProperties
  <2> QED
    BY <2>1, <2>2
<1>9. Len(q) <= MaxHistory
  <2>1. CASE d = Len(a)
    BY <2>1, <1>8, <1>1, HistoryAssumption
  <2>2. CASE Fits(Since(a, d + 1))
    BY <2>2, <1>1, <1>2, <1>5 DEF Fits
  <2> QED
    BY <2>1, <2>2, <1>5
<1>10. Len(q) # 0 => q[Len(q)] = e
  BY <1>1, <1>5, <1>8
<1>11. \A i \in 1..(Len(q) - 1) : q[i] = s[i + d]
  BY <1>1, <1>5, <1>8
<1>12. q = Since(a, d + 1) /\ d \in 0..(Len(s) + 1)
  BY <1>1, <1>2, <1>5
<1>13. Follows(q, s, e, d)
  BY <1>1, <1>6, <1>8, <1>9, <1>10, <1>11, <1>12 DEF Follows, a
<1> QED
  BY <1>8, <1>12, <1>13

-----------------------------------------------------------------------------
(* What stays true of a state while others go on: revisions are only       *)
(* added, and a graph the user makes is new.                               *)
Onward ==
  /\ \/ fresh' = fresh /\ mine' \subseteq mine
     \/ fresh' = fresh + 1 /\ mine' \subseteq mine \cup {fresh + 1}
  /\ Len(docs') \in Nat /\ Len(docs) <= Len(docs')
  /\ \A r \in 1..Len(docs) : docs'[r] = docs[r]
  /\ crossed => crossed'

LEMMA StaysSound ==
  ASSUME ServerOK, Onward, NEW s, Sound(s) PROVE Sound(s)'
<1>1. Graph \subseteq Graph' /\ (1..Revision) \subseteq (1..Revision)' /\ fresh \in Nat
  BY DEF ServerOK, Onward, Graph, Revision
<1>2. Entry \subseteq Entry'
  BY <1>1 DEF Entry
<1>3. Typed(s)'
  <2>1. s.past \in Seq(Entry)' /\ s.future \in Seq(Entry)'
    BY <1>2, LargerElements DEF Sound, Typed
  <2> QED
    BY <1>1, <2>1 DEF Sound, Typed
<1>4. (UndoChain(s) /\ RedoChain(s))'
  BY DEF Sound, UndoChain, RedoChain
<1>5. TakenBack(s)'
  <2> SUFFICES ASSUME NEW i \in 1..Len(s.future) PROVE s.future[i].after \notin mine'
    BY DEF TakenBack
  <2>1. s.future[i] \in Entry
    BY DEF Sound, Typed
  <2>2. s.future[i].after \in 1..fresh
    BY <2>1 DEF Entry, Graph
  <2>3. s.future[i].after # fresh + 1
    BY <2>2, <1>1
  <2> QED
    BY <2>3 DEF Sound, TakenBack, Onward
<1>6. OfServer(s)'
  <2>1. s.rev \in 1..Len(docs)
    BY DEF Sound, Typed, Revision
  <2> QED
    BY <2>1 DEF Sound, OfServer, Onward
<1> QED
  BY <1>3, <1>4, <1>5, <1>6 DEF Sound

LEMMA StoredStays ==
  ASSUME ServerOK, Onward, StoredOK, stored' = stored PROVE StoredOK'
<1>1. PICK s : s = stored
  OBVIOUS
<1>2. CASE "none" \in DOMAIN s
  BY <1>1, <1>2 DEF StoredOK
<1>3. CASE Sound(s)
  <2>1. Sound(s)'
    BY <1>3, StaysSound
  <2> QED
    BY <1>1, <2>1 DEF StoredOK, Sound, Typed, UndoChain, RedoChain, TakenBack, OfServer
<1> QED
  BY <1>1, <1>2, <1>3 DEF StoredOK, Sound, Typed, UndoChain, RedoChain, TakenBack, OfServer

LEMMA ClientStays ==
  ASSUME ServerOK, Onward, Sound(client), client' = client PROVE Sound(client)'
<1>1. PICK s : s = client
  OBVIOUS
<1>2. Sound(s)
  BY <1>1 DEF Sound, Typed, UndoChain, RedoChain, TakenBack, OfServer
<1>3. Sound(s)'
  BY <1>2, StaysSound
<1> QED
  BY <1>1, <1>3 DEF Sound, Typed, UndoChain, RedoChain, TakenBack, OfServer

LEMMA CallStays ==
  ASSUME ServerOK, Onward, NEW c, CallOK(c) PROVE CallOK(c)'
<1>1. Graph \subseteq Graph' /\ (1..Revision) \subseteq (1..Revision)'
  BY DEF ServerOK, Onward, Graph, Revision
<1>2. c.state = "accepted" => docs'[c.rev] = docs[c.rev]
  BY DEF CallOK, Onward, Revision
<1> QED
  BY <1>1, <1>2 DEF CallOK

LEMMA AskStays ==
  ASSUME ServerOK, Onward, AskOK, ask' = ask PROVE AskOK'
<1>1. (1..Revision) \subseteq (1..Revision)'
  BY DEF ServerOK, Onward, Revision
<1> QED
  BY <1>1 DEF AskOK

(* A revision is added.                                                    *)
LEMMA Published ==
  ASSUME ServerOK, fresh' = fresh \/ fresh' = fresh + 1, NEW g, g \in Graph',
         docs' = Append(docs, g)
  PROVE  /\ docs' \in Seq(Graph)' /\ Len(docs) \in Nat /\ Len(docs') = Len(docs) + 1
         /\ \A r \in 1..Len(docs) : docs'[r] = docs[r]
         /\ docs'[Len(docs) + 1] = g
<1>1. Graph \subseteq Graph'
  BY DEF ServerOK, Graph
<1>2. PICK G : G = Graph'
  OBVIOUS
<1>3. docs \in Seq(G) /\ g \in G /\ Len(docs) \in Nat
  BY <1>1, <1>2, LargerElements DEF ServerOK
<1>4. /\ Append(docs, g) \in Seq(G) /\ Len(Append(docs, g)) = Len(docs) + 1
      /\ \A r \in 1..Len(docs) : Append(docs, g)[r] = docs[r]
      /\ Append(docs, g)[Len(docs) + 1] = g
  BY <1>3, AppendProperties
<1> QED
  BY <1>2, <1>3, <1>4

LEMMA NothingPublished ==
  ASSUME ServerOK, fresh' = fresh, docs' = docs, mine' \subseteq mine, crossed => crossed'
  PROVE  Onward
  BY DEF ServerOK, Onward

-----------------------------------------------------------------------------
(* Changes of the history.                                                 *)

LEMMA PushChain ==
  ASSUME NEW S, NEW s, NEW t, s.past \in Seq(S), NEW e \in S, UndoChain(s),
         e.before = s.working, t.past = Trimmed(Append(s.past, e)), t.working = e.after
  PROVE  t.past \in Seq(S) /\ UndoChain(t)
<1> DEFINE p == s.past
           q == t.past
<1>0. q \in Seq(S) /\ \E d \in 0..(Len(p) + 1) : Follows(q, p, e, d)
  <2>1. p \in Seq(S) /\ q = Trimmed(Append(p, e))
    OBVIOUS
  <2> HIDE DEF p, q
  <2> QED
    BY <2>1, Pushed
<1>2. q \in Seq(S) /\ Len(q) <= MaxHistory /\ Len(q) \in Nat /\ (q # <<>> => Len(q) # 0)
      /\ (q # <<>> => q[Len(q)] = e)
  BY <1>0 DEF Follows
<1>3. PICK d \in 0..(Len(p) + 1) :
        /\ Len(q) = Len(p) + 1 - d
        /\ Len(q) # 0 => q[Len(q)] = e
        /\ \A i \in 1..(Len(q) - 1) : q[i] = p[i + d]
  BY <1>0 DEF Follows
<1>4. /\ Len(p) \in Nat /\ (p # <<>> => p[Len(p)].after = e.before)
      /\ \A i \in 1..(Len(p) - 1) : p[i].after = p[i + 1].before
      /\ (p = <<>> <=> Len(p) = 0)
  BY DEF UndoChain
<1> HIDE DEF p, q
<1>6. ASSUME NEW i \in 1..(Len(q) - 1) PROVE q[i].after = q[i + 1].before
  <2>1. q[i] = p[i + d] /\ i + d \in 1..Len(p)
    BY <1>2, <1>3, <1>4
  <2>2. CASE i = Len(q) - 1
    <3>1. i + d = Len(p) /\ q[i + 1] = e /\ Len(p) # 0
      BY <2>1, <2>2, <1>2, <1>3, <1>4
    <3> QED
      BY <3>1, <2>1, <1>4
  <2>3. CASE i # Len(q) - 1
    <3>0. Len(q) \in Nat /\ Len(p) \in Nat /\ d \in Nat /\ Len(q) = Len(p) + 1 - d
      BY <1>2, <1>3, <1>4
    <3>1. i + 1 \in 1..(Len(q) - 1) /\ i + d \in 1..(Len(p) - 1)
      BY <2>3, <3>0
    <3>2. q[i + 1] = p[i + 1 + d] /\ i + 1 + d = i + d + 1
      BY <3>1, <1>3
    <3> QED
      BY <3>1, <3>2, <2>1, <1>4
  <2> QED
    BY <2>2, <2>3
<1>7. q # <<>> => q[Len(q)].after = t.working
  BY <1>2
<1>8. UndoChain(t)
  <2>1. Len(q) <= MaxHistory
    BY <1>2
  <2> QED
    BY <2>1, <1>6, <1>7 DEF UndoChain, q
<1> QED
  BY <1>2, <1>8 DEF q

(* An entry is moved from the end of one history to the end of the other.  *)
Undoing(S, s, t) ==
  /\ t.past \in Seq(S) /\ t.future \in Seq(S) /\ UndoChain(t) /\ RedoChain(t)
  /\ Len(t.future) = Len(s.future) + 1
  /\ \A i \in 1..Len(s.future) : t.future[i] = s.future[i]
  /\ t.future[Len(s.future) + 1] = Head_(s.past)
  /\ Head_(s.past) \in S /\ Head_(s.past).after = s.working
Redoing(S, s, t) ==
  /\ t.past \in Seq(S) /\ t.future \in Seq(S) /\ UndoChain(t) /\ RedoChain(t)
  /\ Len(t.future) = Len(s.future) - 1 /\ Len(s.future) \in Nat
  /\ \A i \in 1..Len(t.future) : t.future[i] = s.future[i]
  /\ Head_(s.future) \in S /\ Head_(s.future).before = s.working

LEMMA UndoMoves ==
  ASSUME NEW S, NEW s, NEW t, s.past \in Seq(S), s.future \in Seq(S), s.past # <<>>,
         UndoChain(s), RedoChain(s), t.past = Front_(s.past),
         t.future = Append(s.future, Head_(s.past)), t.working = Head_(s.past).before
  PROVE  Undoing(S, s, t)
<1> DEFINE p == s.past
           f == s.future
           e == Head_(p)
           q == t.past
           g == t.future
<1>1. /\ q \in Seq(S) /\ Len(q) = Len(p) - 1
      /\ \A i \in 1..(Len(p) - 1) : q[i] = p[i]
      /\ Len(p) \in Nat \ {0} /\ e \in S /\ e = p[Len(p)]
  BY DropLast
<1>2. /\ g \in Seq(S) /\ Len(g) = Len(f) + 1 /\ Len(f) \in Nat
      /\ \A i \in 1..Len(f) : g[i] = f[i]
      /\ g[Len(f) + 1] = e /\ g # <<>>
  <2>1. f \in Seq(S) /\ g = Append(f, e)
    OBVIOUS
  <2> HIDE DEF f, g, e
  <2> QED
    BY <1>1, <2>1, AppendProperties
<1>3. /\ Len(p) <= MaxHistory /\ e.after = s.working
      /\ \A i \in 1..(Len(p) - 1) : p[i].after = p[i + 1].before
  BY <1>1 DEF UndoChain
<1>4. /\ f # <<>> => f[Len(f)].before = s.working
      /\ \A i \in 1..(Len(f) - 1) : f[i].before = f[i + 1].after
      /\ f # <<>> <=> Len(f) # 0
  BY DEF RedoChain
<1>6. t.working = e.before
  OBVIOUS
<1> HIDE DEF p, f, e, q, g
<1>5. q # <<>> <=> Len(q) # 0
  BY <1>1
<1>7. Len(q) <= MaxHistory
  BY <1>1, <1>3, HistoryAssumption
<1>8. ASSUME q # <<>> PROVE q[Len(q)].after = t.working
  <2>1. Len(p) - 1 \in 1..(Len(p) - 1) /\ Len(p) - 1 + 1 = Len(p)
    BY <1>1, <1>5, <1>8
  <2>2. q[Len(q)] = p[Len(p) - 1] /\ p[Len(p) - 1].after = e.before
    BY <2>1, <1>1, <1>3
  <2> QED
    BY <2>2, <1>6
<1>9. ASSUME NEW i \in 1..(Len(q) - 1) PROVE q[i].after = q[i + 1].before
  <2>1. i \in 1..(Len(p) - 1) /\ i + 1 \in 1..(Len(p) - 1)
    BY <1>1
  <2> QED
    BY <2>1, <1>1, <1>3
<1>10. g[Len(g)].before = t.working
  BY <1>2, <1>6
<1>11. ASSUME NEW i \in 1..(Len(g) - 1) PROVE g[i].before = g[i + 1].after
  <2>1. CASE i = Len(f)
    <3>1. g[i] = f[Len(f)] /\ g[i + 1] = e /\ Len(f) # 0
      BY <2>1, <1>2
    <3> QED
      BY <3>1, <1>3, <1>4
  <2>2. CASE i # Len(f)
    <3>1. i \in 1..(Len(f) - 1) /\ i \in 1..Len(f) /\ i + 1 \in 1..Len(f)
      BY <2>2, <1>2
    <3> QED
      BY <3>1, <1>2, <1>4
  <2> QED
    BY <2>1, <2>2
<1>12. UndoChain(t)
  BY <1>7, <1>8, <1>9 DEF UndoChain, q
<1>13. RedoChain(t)
  BY <1>10, <1>11 DEF RedoChain, g
<1> QED
  BY <1>1, <1>2, <1>3, <1>12, <1>13 DEF p, f, e, q, g, Undoing

LEMMA RedoMoves ==
  ASSUME NEW S, NEW s, NEW t, s.past \in Seq(S), s.future \in Seq(S), s.future # <<>>,
         UndoChain(s), RedoChain(s), t.future = Front_(s.future),
         t.past = Trimmed(Append(s.past, Head_(s.future))), t.working = Head_(s.future).after
  PROVE  Redoing(S, s, t)
<1> DEFINE f == s.future
           e == Head_(f)
           g == t.future
<1>1. /\ g \in Seq(S) /\ Len(g) = Len(f) - 1
      /\ \A i \in 1..(Len(f) - 1) : g[i] = f[i]
      /\ Len(f) \in Nat \ {0} /\ e \in S /\ e = f[Len(f)]
  BY DropLast
<1>2. /\ e.before = s.working
      /\ \A i \in 1..(Len(f) - 1) : f[i].before = f[i + 1].after
  BY <1>1 DEF RedoChain
<1>3. t.past \in Seq(S) /\ UndoChain(t)
  BY <1>1, <1>2, PushChain
<1>0. t.working = e.after
  OBVIOUS
<1> HIDE DEF f, e, g
<1>4. (g # <<>> <=> Len(g) # 0) /\ t.working = e.after
  BY <1>0, <1>1
<1>5. ASSUME g # <<>> PROVE g[Len(g)].before = t.working
  <2>1. Len(f) - 1 \in 1..(Len(f) - 1) /\ Len(f) - 1 + 1 = Len(f)
    BY <1>1, <1>4, <1>5
  <2> QED
    BY <2>1, <1>1, <1>2, <1>4
<1>6. ASSUME NEW i \in 1..(Len(g) - 1) PROVE g[i].before = g[i + 1].after
  <2>1. i \in 1..(Len(f) - 1) /\ i + 1 \in 1..(Len(f) - 1)
    BY <1>1
  <2> QED
    BY <2>1, <1>1, <1>2
<1>7. RedoChain(t)
  BY <1>5, <1>6 DEF RedoChain, g
<1> QED
  BY <1>1, <1>2, <1>3, <1>7 DEF f, e, g, Redoing

-----------------------------------------------------------------------------
(* The workspace after each change of its own.                             *)

States(G, R, E) ==
  [working : G, local : Nat, acked : Nat, rev : R, sync : Sync, past : Seq(E), future : Seq(E)]

LEMMA StateFields ==
  ASSUME NEW G, NEW R, NEW E, NEW s,
         s = [working |-> s.working, local |-> s.local, acked |-> s.acked, rev |-> s.rev,
              sync |-> s.sync, past |-> s.past, future |-> s.future],
         s.working \in G, s.local \in Nat, s.acked \in Nat, s.rev \in R, s.sync \in Sync,
         s.past \in Seq(E), s.future \in Seq(E)
  PROVE  s \in States(G, R, E)
<1> DEFINE a == s.working
           b == s.local
           c == s.acked
           d == s.rev
           e == s.sync
           f == s.past
           g == s.future
<1>1. /\ a \in G /\ b \in Nat /\ c \in Nat /\ d \in R /\ e \in Sync /\ f \in Seq(E)
      /\ g \in Seq(E)
  OBVIOUS
<1>2. s = [working |-> a, local |-> b, acked |-> c, rev |-> d, sync |-> e, past |-> f,
           future |-> g]
  OBVIOUS
<1> HIDE DEF a, b, c, d, e, f, g
<1> QED
  BY ONLY <1>1, <1>2 DEF States

LEMMA SyncIsDirty ==
  ASSUME NEW y \in Sync PROVE DirtySync(y) \in Sync \ {"clean"}
  BY DEF DirtySync, Kept, Sync

(* The workspace s before a step, in terms of what there is after it; and  *)
(* t after the step.                                                       *)
Fields(s) ==
  s = [working |-> s.working, local |-> s.local, acked |-> s.acked, rev |-> s.rev,
       sync |-> s.sync, past |-> s.past, future |-> s.future]

LEMMA Before ==
  ASSUME ServerOK, Onward, Sound(client), NEW s, s = client
  PROVE  /\ Fields(s) /\ UndoChain(s) /\ RedoChain(s) /\ TakenBack(s) /\ TakenBack(s)'
         /\ OfServer(s) /\ OfServer(s)'
         /\ s.working \in Graph' /\ s.local \in Nat /\ s.acked \in Nat
         /\ s.rev \in (1..Revision)' /\ s.sync \in Sync
         /\ s.past \in Seq(Entry') /\ s.future \in Seq(Entry')
<1>1. Sound(s)
  BY DEF Sound, Typed, UndoChain, RedoChain, TakenBack, OfServer
<1>2. Sound(s)'
  BY <1>1, StaysSound
<1> QED
  BY <1>1, <1>2 DEF Sound, Typed, Fields

LEMMA After ==
  ASSUME NEW t, t = client', Fields(t), t.working \in Graph', t.local \in Nat, t.acked \in Nat,
         t.rev \in (1..Revision)', t.sync \in Sync,
         t.past \in Seq(Entry'), t.future \in Seq(Entry'),
         UndoChain(t), RedoChain(t), TakenBack(t)', OfServer(t)'
  PROVE  Sound(client)'
<1>1. PICK G, R, E : G = Graph' /\ R = (1..Revision)' /\ E = Entry'
  OBVIOUS
<1>2. t \in States(G, R, E)
  BY <1>1, StateFields DEF Fields
<1>3. Typed(t)'
  BY <1>1, <1>2 DEF Typed, States
<1>4. Sound(t)'
  BY <1>3 DEF Sound, UndoChain, RedoChain
<1> QED
  BY <1>4 DEF Sound, Typed, UndoChain, RedoChain, TakenBack, OfServer

(* An edit, a refresh: an entry is pushed and nothing can be redone.       *)
LEMMA PushIsSound ==
  ASSUME ServerOK, Onward, Sound(client), NEW e, e \in Entry', e.before = client.working,
         NEW t, t = client', Fields(t), t.working = e.after, t.local \in Nat, t.acked \in Nat,
         t.rev \in (1..Revision)', t.sync \in Sync,
         t.past = Trimmed(Append(client.past, e)), t.future = <<>>, OfServer(t)'
  PROVE  Sound(client)'
<1>1. PICK s, E : s = client /\ E = Entry'
  OBVIOUS
<1>2. s.past \in Seq(E) /\ UndoChain(s) /\ e \in E
  BY <1>1, Before
<1>3. e.before = s.working /\ t.past = Trimmed(Append(s.past, e))
  BY <1>1
<1>4. t.past \in Seq(E) /\ UndoChain(t)
  BY <1>2, <1>3, PushChain
<1>5. RedoChain(t) /\ TakenBack(t)' /\ t.future \in Seq(Entry')
  BY DEF RedoChain, TakenBack
<1>6. e.after \in Graph'
  BY DEF Entry
<1> QED
  BY <1>1, <1>4, <1>5, <1>6, After

LEMMA EditIsSound ==
  ASSUME UpdateCadgraph, ServerOK, Onward, Sound(client), fresh' = fresh + 1
  PROVE  Sound(client)'
<1>1. PICK s, n, t : s = client /\ n = fresh' /\ t = client'
  OBVIOUS
<1> DEFINE e == [kind |-> "graph", before |-> s.working, after |-> n]
<1>2. /\ t = [s EXCEPT !.working = n, !.local = @ + 1, !.sync = DirtySync(@),
                      !.past = Trimmed(Append(@, e)), !.future = <<>>]
      /\ s.local = s.acked
  BY <1>1 DEF UpdateCadgraph, Edited, TransactProjectEdit, Writable
<1>3. /\ Fields(s) /\ s.local \in Nat /\ s.acked \in Nat /\ s.rev \in (1..Revision)'
      /\ s.sync \in Sync /\ s.working \in Graph'
  BY <1>1, Before
<1>4. e \in Entry' /\ e.before = s.working /\ e.after = n
  BY <1>1, <1>3 DEF Entry, Graph, ServerOK
<1> HIDE DEF e
<1>5. /\ t.working = n /\ t.local = s.local + 1 /\ t.acked = s.acked /\ t.rev = s.rev
      /\ t.sync = DirtySync(s.sync) /\ t.past = Trimmed(Append(s.past, e)) /\ t.future = <<>>
      /\ Fields(t)
  BY <1>2, <1>3 DEF Fields
<1>6. t.sync \in Sync \ {"clean"} /\ t.local \in Nat
  BY <1>3, <1>5, SyncIsDirty
<1>7. OfServer(t)'
  BY <1>6 DEF OfServer
<1> QED
  BY <1>1, <1>3, <1>4, <1>5, <1>6, <1>7, PushIsSound

(* A refresh: what was read is still what the server has at that revision. *)
LEMMA RefreshIsSound ==
  ASSUME RefreshProject, ServerOK, Onward, Sound(client)
  PROVE  Sound(client)'
<1>1. PICK s, n, t : s = client /\ n = docs[refresh] /\ t = client'
  OBVIOUS
<1> DEFINE e == [kind |-> "whole", before |-> s.working, after |-> n]
<1>2. /\ t = [s EXCEPT !.working = n, !.local = @ + 1, !.acked = s.local + 1, !.rev = refresh,
                      !.sync = "clean", !.past = Trimmed(Append(@, e)), !.future = <<>>]
      /\ docs' = docs /\ refresh # 0
  BY <1>1 DEF RefreshProject, Edited, CommitServerOperation
<1>3. /\ Fields(s) /\ s.local \in Nat /\ s.working \in Graph'
  BY <1>1, Before
<1>4. refresh \in 1..Len(docs) /\ n \in Graph'
  BY <1>1, <1>2 DEF ServerOK, Revision, Graph, Onward
<1>5. e \in Entry' /\ e.before = s.working /\ e.after = n
  BY <1>3, <1>4 DEF Entry
<1> HIDE DEF e
<1>6. /\ t.working = n /\ t.local = s.local + 1 /\ t.acked = s.local + 1 /\ t.rev = refresh
      /\ t.sync = "clean" /\ t.past = Trimmed(Append(s.past, e)) /\ t.future = <<>>
      /\ Fields(t)
  BY <1>2, <1>3 DEF Fields
<1>7. t.sync \in Sync /\ t.local \in Nat /\ t.rev \in (1..Revision)'
  BY <1>2, <1>3, <1>4, <1>6 DEF Sync, Revision
<1>8. OfServer(t)'
  BY <1>1, <1>2, <1>6 DEF OfServer
<1> QED
  BY <1>1, <1>5, <1>6, <1>7, <1>8, PushIsSound

LEMMA UndoIsSound ==
  ASSUME Undo, ServerOK, Onward, Sound(client)
  PROVE  Sound(client)'
<1>1. PICK s, t, E : s = client /\ t = client' /\ E = Entry'
  OBVIOUS
<1>2. /\ t = [s EXCEPT !.working = Head_(s.past).before, !.local = @ + 1, !.sync = DirtySync(@),
                      !.past = Front_(@), !.future = Append(@, Head_(s.past))]
      /\ s.past # <<>> /\ mine' = mine \ {s.working}
  BY <1>1 DEF Undo, Edited, Undone
<1>3. /\ Fields(s) /\ s.local \in Nat /\ s.acked \in Nat /\ s.rev \in (1..Revision)'
      /\ s.sync \in Sync /\ s.past \in Seq(E) /\ s.future \in Seq(E)
      /\ UndoChain(s) /\ RedoChain(s) /\ TakenBack(s)
  BY <1>1, Before
<1>4. /\ t.working = Head_(s.past).before /\ t.local = s.local + 1 /\ t.acked = s.acked
      /\ t.rev = s.rev /\ t.sync = DirtySync(s.sync) /\ t.past = Front_(s.past)
      /\ t.future = Append(s.future, Head_(s.past))
      /\ Fields(t)
  BY <1>2, <1>3 DEF Fields
<1>5. /\ t.past \in Seq(E) /\ t.future \in Seq(E) /\ UndoChain(t) /\ RedoChain(t)
      /\ Len(t.future) = Len(s.future) + 1
      /\ \A i \in 1..Len(s.future) : t.future[i] = s.future[i]
      /\ t.future[Len(s.future) + 1] = Head_(s.past)
      /\ Head_(s.past) \in E /\ Head_(s.past).after = s.working
  <2>1. Undoing(E, s, t)
    BY <1>2, <1>3, <1>4, UndoMoves
  <2> QED
    BY <2>1 DEF Undoing
<1>6. t.sync \in Sync \ {"clean"} /\ t.local \in Nat
  BY <1>3, <1>4, SyncIsDirty
<1>7. OfServer(t)'
  BY <1>6 DEF OfServer
<1>8. t.working \in Graph'
  BY <1>1, <1>4, <1>5 DEF Entry
<1>9. TakenBack(t)'
  <2> SUFFICES ASSUME NEW i \in 1..Len(t.future) PROVE t.future[i].after \notin mine'
    BY DEF TakenBack
  <2>1. Len(s.future) \in Nat
    BY <1>3
  <2>2. CASE i \in 1..Len(s.future)
    BY <2>2, <1>2, <1>3, <1>5 DEF TakenBack
  <2>3. CASE i = Len(s.future) + 1
    BY <2>3, <1>2, <1>5
  <2> QED
    BY <2>1, <2>2, <2>3, <1>5
<1> QED
  BY <1>1, <1>3, <1>4, <1>5, <1>6, <1>7, <1>8, <1>9, After

LEMMA RedoIsSound ==
  ASSUME Redo, ServerOK, Onward, Sound(client)
  PROVE  Sound(client)'
<1>1. PICK s, t, E : s = client /\ t = client' /\ E = Entry'
  OBVIOUS
<1>2. /\ t = [s EXCEPT !.working = Head_(s.future).after, !.local = @ + 1, !.sync = DirtySync(@),
                      !.future = Front_(@), !.past = Trimmed(Append(@, Head_(s.future)))]
      /\ s.future # <<>> /\ mine' = mine
  BY <1>1 DEF Redo, Edited, Redone
<1>3. /\ Fields(s) /\ s.local \in Nat /\ s.acked \in Nat /\ s.rev \in (1..Revision)'
      /\ s.sync \in Sync /\ s.past \in Seq(E) /\ s.future \in Seq(E)
      /\ UndoChain(s) /\ RedoChain(s) /\ TakenBack(s)
  BY <1>1, Before
<1>4. /\ t.working = Head_(s.future).after /\ t.local = s.local + 1 /\ t.acked = s.acked
      /\ t.rev = s.rev /\ t.sync = DirtySync(s.sync) /\ t.future = Front_(s.future)
      /\ t.past = Trimmed(Append(s.past, Head_(s.future)))
      /\ Fields(t)
  BY <1>2, <1>3 DEF Fields
<1>5. /\ t.past \in Seq(E) /\ t.future \in Seq(E) /\ UndoChain(t) /\ RedoChain(t)
      /\ Len(t.future) = Len(s.future) - 1 /\ Len(s.future) \in Nat
      /\ \A i \in 1..Len(t.future) : t.future[i] = s.future[i]
      /\ Head_(s.future) \in E
  <2>1. Redoing(E, s, t)
    BY <1>2, <1>3, <1>4, RedoMoves
  <2> QED
    BY <2>1 DEF Redoing
<1>6. t.sync \in Sync \ {"clean"} /\ t.local \in Nat
  BY <1>3, <1>4, SyncIsDirty
<1>7. OfServer(t)'
  BY <1>6 DEF OfServer
<1>8. t.working \in Graph'
  BY <1>1, <1>4, <1>5 DEF Entry
<1>9. TakenBack(t)'
  BY <1>2, <1>3, <1>5 DEF TakenBack
<1> QED
  BY <1>1, <1>3, <1>4, <1>5, <1>6, <1>7, <1>8, <1>9, After

(* The server's copy replaces the document and its history.                *)
LEMMA CopyIsSound ==
  ASSUME ReadAccepted, ServerOK, AskOK, Onward, Sound(client)
  PROVE  Sound(client)'
<1>1. PICK s, n, r, t : s = client /\ r = ask.rev /\ n = docs[r] /\ t = client'
  OBVIOUS
<1>2. /\ t = [s EXCEPT !.working = n, !.rev = r, !.acked = s.local, !.sync = "clean",
                      !.past = <<>>, !.future = <<>>]
      /\ docs' = docs /\ fresh' = fresh
  BY <1>1 DEF ReadAccepted, ReplaceWithServerCopy
<1>3. Fields(s) /\ s.local \in Nat
  BY <1>1, Before
<1>4. r \in 1..Len(docs) /\ n \in Graph'
  BY <1>1, <1>2 DEF ReadAccepted, AskOK, ServerOK, None, Revision, Graph
<1>5. /\ t.working = n /\ t.local = s.local /\ t.acked = s.local /\ t.rev = r
      /\ t.sync = "clean" /\ t.past = <<>> /\ t.future = <<>>
      /\ Fields(t)
  BY <1>2, <1>3 DEF Fields
<1>6. UndoChain(t) /\ RedoChain(t) /\ TakenBack(t)'
  BY <1>5, HistoryAssumption DEF UndoChain, RedoChain, TakenBack
<1>7. OfServer(t)' /\ t.rev \in (1..Revision)' /\ t.sync \in Sync
  BY <1>1, <1>2, <1>4, <1>5 DEF OfServer, Revision, Sync
<1>8. t.past \in Seq(Entry') /\ t.future \in Seq(Entry')
  BY <1>5
<1> QED
  BY <1>1, <1>3, <1>4, <1>5, <1>6, <1>7, <1>8, After

(* Only the fields that say how far the server has followed change.        *)
LEMMA AnswerIsSound ==
  ASSUME ServerOK, Onward, Sound(client), NEW a, a \in Nat, NEW r, r \in (1..Revision)',
         NEW y, y \in Sync, client' = [client EXCEPT !.acked = a, !.rev = r, !.sync = y],
         crossed' \/ (client.local = a /\ y = "clean" => client.working = docs'[r])
  PROVE  Sound(client)'
<1>1. PICK s, t : s = client /\ t = client'
  OBVIOUS
<1>2. /\ Fields(s) /\ UndoChain(s) /\ RedoChain(s) /\ TakenBack(s)'
      /\ s.working \in Graph' /\ s.local \in Nat
      /\ s.past \in Seq(Entry') /\ s.future \in Seq(Entry')
  BY <1>1, Before
<1>3. /\ t.working = s.working /\ t.local = s.local /\ t.acked = a /\ t.rev = r
      /\ t.sync = y /\ t.past = s.past /\ t.future = s.future
      /\ Fields(t)
  BY <1>1, <1>2 DEF Fields
<1>4. UndoChain(t) /\ RedoChain(t) /\ TakenBack(t)'
  BY <1>2, <1>3 DEF UndoChain, RedoChain, TakenBack
<1>5. OfServer(t)'
  BY <1>1, <1>3 DEF OfServer
<1> QED
  BY <1>1, <1>2, <1>3, <1>4, <1>5, After

-----------------------------------------------------------------------------
(* The steps.                                                              *)

LEMMA InitWorkspace == Init => WorkspaceInv
<1> SUFFICES ASSUME Init PROVE WorkspaceInv
  OBVIOUS
<1>1. /\ docs = <<1>> /\ fresh = 1 /\ mine = {} /\ refresh = 0 /\ crossed = FALSE
      /\ calls = {} /\ ask = None /\ stored = [none |-> TRUE]
      /\ client = [working |-> 1, local |-> 0, acked |-> 0, rev |-> 1, sync |-> "clean",
                   past |-> <<>>, future |-> <<>>]
  BY DEF Init, Opened
<1>2. docs \in Seq(1..1) /\ Len(docs) = 1 /\ docs[1] = 1
  BY <1>1
<1>0. Graph = 1..1 /\ Revision = 1
  BY <1>1, <1>2 DEF Graph, Revision
<1>3. ServerOK
  <2>1. docs \in Seq(Graph) /\ Len(docs) >= 1
    BY <1>0, <1>2
  <2>2. fresh \in Nat \ {0} /\ refresh \in 0..Revision
    BY <1>0, <1>1
  <2>3. mine \in SUBSET Graph
    BY <1>1
  <2>4. crossed \in BOOLEAN
    BY <1>1
  <2> QED
    BY <2>1, <2>2, <2>3, <2>4 DEF ServerOK
<1>4. Typed(client)
  <2>1. PICK s, E : s = client /\ E = Entry
    OBVIOUS
  <2>2. s = [working |-> 1, local |-> 0, acked |-> 0, rev |-> 1, sync |-> "clean",
             past |-> <<>>, future |-> <<>>]
    BY <2>1, <1>1
  <2>3. /\ s = [working |-> s.working, local |-> s.local, acked |-> s.acked, rev |-> s.rev,
                sync |-> s.sync, past |-> s.past, future |-> s.future]
        /\ s.working \in 1..1 /\ s.local \in Nat /\ s.acked \in Nat /\ s.rev \in 1..1
        /\ s.sync \in Sync /\ s.past \in Seq(E) /\ s.future \in Seq(E)
    BY <2>2 DEF Sync
  <2>4. s \in States(1..1, 1..1, E)
    BY <2>3, StateFields
  <2> QED
    BY <2>1, <2>4, <1>0 DEF Typed, States
<1>5. UndoChain(client) /\ RedoChain(client) /\ TakenBack(client) /\ OfServer(client)
  BY <1>1, <1>2, HistoryAssumption DEF UndoChain, RedoChain, TakenBack, OfServer
<1> QED
  BY <1>1, <1>3, <1>4, <1>5 DEF WorkspaceInv, Sound, CallsOK, AskOK, Latest, StoredOK

(* What a step leaves alone stays as it should be.                         *)
LEMMA Untouched ==
  ASSUME WorkspaceInv, Onward
  PROVE  /\ stored' = stored => StoredOK'
         /\ calls' \subseteq calls => CallsOK'
         /\ ask' = ask \/ ask' = None => AskOK'
         /\ client' = client => Sound(client)'
         /\ client' = client /\ calls' \subseteq calls => Latest'
<1>1. stored' = stored => StoredOK'
  BY StoredStays DEF WorkspaceInv
<1>2. ASSUME calls' \subseteq calls PROVE CallsOK'
  <2> SUFFICES ASSUME NEW c \in calls' PROVE CallOK(c)'
    BY DEF CallsOK
  <2> QED
    BY <1>2, CallStays DEF WorkspaceInv, CallsOK
<1>3. ask' = ask \/ ask' = None => AskOK'
  BY AskStays DEF WorkspaceInv, AskOK
<1>4. client' = client => Sound(client)'
  BY ClientStays DEF WorkspaceInv
<1>5. client' = client /\ calls' \subseteq calls => Latest'
  BY DEF WorkspaceInv, Latest, Onward
<1> QED
  BY <1>1, <1>2, <1>3, <1>4, <1>5

(* A revision more, and at most one graph more.                            *)
LEMMA PublishedOnward ==
  ASSUME ServerOK, fresh' = fresh \/ fresh' = fresh + 1, NEW g, g \in Graph',
         docs' = Append(docs, g), mine' = mine, UNCHANGED <<refresh, crossed>>
  PROVE  Onward /\ ServerOK'
<1>1. /\ docs' \in Seq(Graph)' /\ Len(docs) \in Nat /\ Len(docs') = Len(docs) + 1
      /\ \A r \in 1..Len(docs) : docs'[r] = docs[r]
  BY Published
<1>2. fresh' \in Nat \ {0} /\ mine' \in SUBSET Graph' /\ Len(docs') >= 1
  BY <1>1 DEF ServerOK, Graph
<1> QED
  BY <1>1, <1>2 DEF ServerOK, Onward, Revision

LEMMA StepForeign == WorkspaceInv /\ ForeignChange => WorkspaceInv'
<1> SUFFICES ASSUME WorkspaceInv, ForeignChange PROVE WorkspaceInv'
  OBVIOUS
<1>1. PICK g : docs' = Append(docs, g) /\ g \in Graph'
  <2>1. fresh \in Nat \ {0} /\ docs[Revision] \in Graph
    BY DEF WorkspaceInv, ServerOK, Revision
  <2> QED
    BY <2>1 DEF ForeignChange, Graph
<1>2. Onward /\ ServerOK'
  BY <1>1, PublishedOnward DEF ForeignChange, WorkspaceInv
<1> QED
  BY <1>2, Untouched DEF ForeignChange, WorkspaceInv

LEMMA StepServeCall == WorkspaceInv /\ ServeCall => WorkspaceInv'
<1> SUFFICES ASSUME WorkspaceInv, ServeCall PROVE WorkspaceInv'
  OBVIOUS
<1>1. PICK c \in calls :
        /\ c.state = "sent"
        /\ IF c.rev = Revision
           THEN /\ Revision < MaxRevision
                /\ docs' = Append(docs, c.graph)
                /\ calls' = (calls \ {c}) \cup {[c EXCEPT !.state = "accepted", !.rev = Revision + 1]}
           ELSE /\ calls' = (calls \ {c}) \cup {[c EXCEPT !.state = "conflict"]}
                /\ UNCHANGED docs
  BY DEF ServeCall
<1>2. /\ c \in [sent : Nat, rev : Nat, graph : Graph, state : {"sent", "accepted", "conflict"}]
      /\ Revision \in Nat
  BY DEF WorkspaceInv, CallsOK, CallOK, ServerOK, Revision
<1>3. PICK d : /\ calls' = (calls \ {c}) \cup {d}
               /\ d.sent = c.sent /\ d.graph = c.graph
               /\ d \in [sent : Nat, rev : Nat, graph : Graph,
                         state : {"sent", "accepted", "conflict"}]
               /\ d.state = "accepted" => d.rev = Revision + 1 /\ docs' = Append(docs, c.graph)
  <2>0. c = [sent |-> c.sent, rev |-> c.rev, graph |-> c.graph, state |-> c.state]
    BY <1>2
  <2>1. CASE c.rev = Revision
    <3>0. PICK d : d = [c EXCEPT !.state = "accepted", !.rev = Revision + 1]
      OBVIOUS
    <3>1. d = [sent |-> c.sent, rev |-> Revision + 1, graph |-> c.graph, state |-> "accepted"]
      BY <2>0, <3>0
    <3>2. calls' = (calls \ {c}) \cup {d} /\ docs' = Append(docs, c.graph)
      BY <1>1, <2>1, <3>0
    <3>3. d \in [sent : Nat, rev : Nat, graph : Graph, state : {"sent", "accepted", "conflict"}]
      BY <1>2, <3>1
    <3>4. d.sent = c.sent /\ d.graph = c.graph /\ d.state = "accepted" /\ d.rev = Revision + 1
      BY <3>1
    <3> QED
      BY <3>2, <3>3, <3>4
  <2>2. CASE c.rev # Revision
    <3>0. PICK d : d = [c EXCEPT !.state = "conflict"]
      OBVIOUS
    <3>1. d = [sent |-> c.sent, rev |-> c.rev, graph |-> c.graph, state |-> "conflict"]
      BY <2>0, <3>0
    <3>2. calls' = (calls \ {c}) \cup {d}
      BY <1>1, <2>2, <3>0
    <3>3. d \in [sent : Nat, rev : Nat, graph : Graph, state : {"sent", "accepted", "conflict"}]
      BY <1>2, <3>1
    <3>4. d.sent = c.sent /\ d.graph = c.graph /\ d.state = "conflict"
      BY <3>1
    <3> QED
      BY <3>2, <3>3, <3>4
  <2> QED
    BY <2>1, <2>2
<1>4. Onward /\ ServerOK' /\ (d.state = "accepted" => d.rev \in (1..Revision)' /\ docs'[d.rev] = c.graph)
  <2>1. CASE docs' = Append(docs, c.graph)
    <3>1. PICK g : g = c.graph /\ g \in Graph' /\ docs' = Append(docs, g)
      BY <1>2, <2>1 DEF ServeCall, Graph
    <3>2. Onward /\ ServerOK'
      BY <3>1, PublishedOnward DEF ServeCall, WorkspaceInv
    <3>3. Len(docs) \in Nat /\ Len(docs') = Len(docs) + 1 /\ docs'[Len(docs) + 1] = g
      BY <3>1, Published DEF ServeCall, WorkspaceInv
    <3> QED
      BY <1>3, <3>1, <3>2, <3>3 DEF Revision
  <2>2. CASE docs' = docs
    <3>1. Onward /\ ServerOK'
      BY <2>2, NothingPublished DEF ServeCall, WorkspaceInv, ServerOK, Graph, Revision
    <3>2. d.state # "accepted"
      <4>1. Len(docs) \in Nat /\ docs # Append(docs, c.graph)
        <5>1. PICK g : g = c.graph /\ g \in Graph
          BY <1>2
        <5>2. docs \in Seq(Graph) /\ Len(docs) \in Nat
          BY DEF WorkspaceInv, ServerOK
        <5>3. Len(Append(docs, g)) = Len(docs) + 1
          BY <5>1, <5>2, AppendProperties
        <5> QED
          BY <5>1, <5>2, <5>3
      <4> QED
        BY <4>1, <2>2, <1>3
    <3> QED
      BY <3>1, <3>2
  <2> QED
    BY <1>1, <2>1, <2>2
<1>5. d.sent = c.sent /\ d.graph = c.graph /\ CallOK(d)'
  <2>1. Graph' = Graph
    BY DEF ServeCall, Graph
  <2> QED
    BY <2>1, <1>3, <1>4 DEF CallOK
<1>6. CallsOK'
  <2> SUFFICES ASSUME NEW b \in calls' PROVE CallOK(b)'
    BY DEF CallsOK
  <2>1. CASE b = d
    BY <2>1, <1>5 DEF CallOK
  <2>2. CASE b \in calls
    BY <2>2, <1>4, CallStays DEF WorkspaceInv, CallsOK
  <2> QED
    BY <2>1, <2>2, <1>3
<1>7. Latest'
  BY <1>3, <1>5 DEF Latest, WorkspaceInv, ServeCall
<1> QED
  BY <1>4, <1>6, <1>7, Untouched DEF ServeCall, WorkspaceInv

LEMMA StepServeAsk == WorkspaceInv /\ ServeAsk => WorkspaceInv'
<1> SUFFICES ASSUME WorkspaceInv, ServeAsk PROVE WorkspaceInv'
  OBVIOUS
<1>1. /\ ask \in [kind : {"job", "copy"}, rev : Nat, local : Nat,
                   state : {"sent", "accepted", "conflict"}]
      /\ Revision \in Nat
  BY DEF WorkspaceInv, ServeAsk, AskOK, None, ServerOK, Revision
<1>2. CASE docs' = docs /\ ask' \in {[ask EXCEPT !.state = "conflict"], None}
  <2>1. Onward /\ ServerOK'
    BY <1>2, NothingPublished DEF ServeAsk, WorkspaceInv, ServerOK, Graph, Revision
  <2>2. AskOK'
    BY <1>1, <1>2 DEF AskOK
  <2> QED
    BY <2>1, <2>2, Untouched DEF ServeAsk, WorkspaceInv
<1>3. CASE /\ ask.kind = "copy" /\ ask' = [ask EXCEPT !.state = "accepted", !.rev = Revision + 1]
           /\ \E v \in 1..Revision : docs' = Append(docs, docs[v])
  <2>1. PICK g : docs' = Append(docs, g) /\ g \in Graph'
    BY <1>3 DEF ServeAsk, WorkspaceInv, ServerOK, Revision, Graph
  <2>2. Onward /\ ServerOK'
    BY <2>1, PublishedOnward DEF ServeAsk, WorkspaceInv
  <2>3. Revision' = Revision + 1
    BY <2>1, Published DEF ServeAsk, WorkspaceInv, Revision
  <2>4. AskOK'
    <3>1. ask = [kind |-> ask.kind, rev |-> ask.rev, local |-> ask.local, state |-> ask.state]
      BY <1>1
    <3>2. ask' = [kind |-> "copy", rev |-> Revision + 1, local |-> ask.local,
                  state |-> "accepted"]
      BY <1>3, <3>1
    <3> QED
      BY <1>1, <2>3, <3>2 DEF AskOK
  <2> QED
    BY <2>2, <2>4, Untouched DEF ServeAsk, WorkspaceInv
<1> QED
  BY <1>2, <1>3 DEF ServeAsk

LEMMA StepUpdate == WorkspaceInv /\ UpdateCadgraph => WorkspaceInv'
<1> SUFFICES ASSUME WorkspaceInv, UpdateCadgraph PROVE WorkspaceInv'
  OBVIOUS
<1>1. /\ fresh' = fresh + 1 /\ mine' = mine \cup {fresh'} /\ calls' = calls \cup {Call(client')}
      /\ UNCHANGED <<docs, ask, refresh, stored, crossed>>
  BY DEF UpdateCadgraph, Undisturbed
<1>2. Graph \subseteq Graph' /\ fresh \in Nat \ {0} /\ fresh' \in Graph'
  BY <1>1 DEF WorkspaceInv, ServerOK, Graph
<1>3. docs' \in Seq(Graph)'
  BY <1>1, <1>2, LargerElements DEF WorkspaceInv, ServerOK
<1>4. ServerOK' /\ Onward
  BY <1>1, <1>2, <1>3 DEF WorkspaceInv, ServerOK, Onward, Revision
<1>5. Sound(client)'
  BY <1>1, <1>4, EditIsSound DEF WorkspaceInv
<1>6. PICK c : c = Call(client')
  OBVIOUS
<1>7. /\ client'.local = client.local + 1 /\ client.local \in Nat
      /\ c = [sent |-> client'.local, rev |-> client'.rev, graph |-> client'.working,
               state |-> "sent"]
  <2>1. client = [working |-> client.working, local |-> client.local, acked |-> client.acked,
                  rev |-> client.rev, sync |-> client.sync, past |-> client.past,
                  future |-> client.future] /\ client.local \in Nat
    BY DEF WorkspaceInv, Sound, Typed
  <2> QED
    BY <1>6, <2>1 DEF UpdateCadgraph, Edited, TransactProjectEdit, Call
<1>8. CallOK(c)'
  BY <1>5, <1>7 DEF CallOK, Sound, Typed, Revision
<1>9. CallsOK'
  <2> SUFFICES ASSUME NEW b \in calls' PROVE CallOK(b)'
    BY DEF CallsOK
  <2>1. CASE b = c
    BY <2>1, <1>8 DEF CallOK
  <2>2. CASE b \in calls
    BY <2>2, <1>4, CallStays DEF WorkspaceInv, CallsOK
  <2> QED
    BY <2>1, <2>2, <1>1, <1>6
<1>10. Latest'
  <2> SUFFICES ASSUME ~crossed, NEW b \in calls'
               PROVE  b.sent <= client'.local /\ (b.sent = client'.local => b.graph = client'.working)
    BY <1>1 DEF Latest
  <2>1. CASE b = c
    BY <2>1, <1>7
  <2>2. CASE b \in calls
    <3>1. b.sent <= client.local /\ b.sent \in Nat
      BY <2>2 DEF WorkspaceInv, Latest, CallsOK, CallOK
    <3> QED
      BY <3>1, <1>7
  <2> QED
    BY <2>1, <2>2, <1>1, <1>6
<1> QED
  BY <1>1, <1>4, <1>5, <1>9, <1>10, Untouched DEF WorkspaceInv

(* An undo and a redo: the update that may be sent is of the latest edit.  *)
LEMMA HistoryCalls ==
  ASSUME WorkspaceInv, Onward, fresh' = fresh, docs' = docs, UNCHANGED crossed, Sound(client)',
         client'.local = client.local + 1, calls' = calls \/ calls' = calls \cup {Call(client')}
  PROVE  CallsOK' /\ Latest'
<1>1. PICK c : c = Call(client')
  OBVIOUS
<1>2. c = [sent |-> client'.local, rev |-> client'.rev, graph |-> client'.working, state |-> "sent"]
  BY <1>1 DEF Call
<1>3. client'.local \in Nat /\ client.local \in Nat
  BY DEF WorkspaceInv, Sound, Typed
<1>4. CallOK(c)'
  BY <1>2 DEF CallOK, Sound, Typed, Revision
<1>5. CallsOK'
  <2> SUFFICES ASSUME NEW b \in calls' PROVE CallOK(b)'
    BY DEF CallsOK
  <2>1. CASE b = c
    BY <2>1, <1>4 DEF CallOK
  <2>2. CASE b \in calls
    BY <2>2, CallStays DEF WorkspaceInv, CallsOK
  <2> QED
    BY <2>1, <2>2, <1>1
<1>6. Latest'
  <2> SUFFICES ASSUME ~crossed, NEW b \in calls'
               PROVE  b.sent <= client'.local /\ (b.sent = client'.local => b.graph = client'.working)
    BY DEF Latest
  <2>1. CASE b = c
    BY <2>1, <1>2, <1>3
  <2>2. CASE b \in calls
    <3>1. b.sent <= client.local /\ b.sent \in Nat
      BY <2>2 DEF WorkspaceInv, Latest, CallsOK, CallOK
    <3> QED
      BY <3>1, <1>3
  <2> QED
    BY <2>1, <2>2, <1>1
<1> QED
  BY <1>5, <1>6

LEMMA StepHistory == WorkspaceInv /\ (Undo \/ Redo) => WorkspaceInv'
<1> SUFFICES ASSUME WorkspaceInv, Undo \/ Redo PROVE WorkspaceInv'
  OBVIOUS
<1>1. /\ fresh' = fresh /\ mine' \subseteq mine
      /\ UNCHANGED <<docs, ask, refresh, stored, crossed>>
      /\ calls' = calls \/ calls' = calls \cup {Call(client')}
  BY DEF Undo, Redo, Undisturbed, SyncHistory
<1>2. Onward /\ ServerOK'
  BY <1>1, NothingPublished DEF WorkspaceInv, ServerOK, Graph, Revision
<1>3. Sound(client)'
  BY <1>2, UndoIsSound, RedoIsSound DEF WorkspaceInv
<1>4. client'.local = client.local + 1
  <2>1. client = [working |-> client.working, local |-> client.local, acked |-> client.acked,
                  rev |-> client.rev, sync |-> client.sync, past |-> client.past,
                  future |-> client.future]
    BY DEF WorkspaceInv, Sound, Typed
  <2> QED
    BY <2>1 DEF Undo, Redo, Edited, Undone, Redone
<1>5. CallsOK' /\ Latest'
  BY <1>1, <1>2, <1>3, <1>4, HistoryCalls
<1> QED
  BY <1>1, <1>2, <1>3, <1>5, Untouched DEF WorkspaceInv

LEMMA StepReadCall == WorkspaceInv /\ ReadCall => WorkspaceInv'
<1> SUFFICES ASSUME WorkspaceInv, ReadCall PROVE WorkspaceInv'
  OBVIOUS
<1>1. Onward /\ ServerOK' /\ calls' \subseteq calls
  BY NothingPublished DEF ReadCall, WorkspaceInv, ServerOK, Graph, Revision
<1>2. PICK c \in calls :
        \/ c.state = "accepted" /\ client' = Acknowledged(c.sent, c.rev)
        \/ client' = [client EXCEPT !.sync = "conflict"]
        \/ client' = [client EXCEPT !.sync = "error"]
  BY DEF ReadCall
<1>3. PICK s, t : s = client /\ t = client'
  OBVIOUS
<1>4. /\ Fields(s) /\ s.local \in Nat /\ s.acked \in Nat /\ s.rev \in (1..Revision)'
      /\ s.sync \in Sync
  BY <1>1, <1>3, Before DEF WorkspaceInv
<1>5. \/ t = s
      \/ \E a \in Nat, r \in (1..Revision)', y \in Sync :
           /\ t = [s EXCEPT !.acked = a, !.rev = r, !.sync = y]
           /\ crossed \/ (s.local = a /\ y = "clean" => s.working = docs[r])
  <2>1. CASE c.state = "accepted" /\ t = Acknowledged(c.sent, c.rev)
    <3>1. c.sent \in Nat /\ c.rev \in 1..Revision /\ docs[c.rev] = c.graph
      BY <2>1 DEF WorkspaceInv, CallsOK, CallOK
    <3>2. c.rev \in (1..Revision)'
      BY <3>1 DEF ReadCall, Revision
    <3>3. crossed \/ (c.sent = s.local => c.graph = s.working)
      BY <1>3 DEF WorkspaceInv, Latest
    <3>4. PICK y : y = IF c.sent = s.local THEN "clean"
                       ELSE IF s.sync = "offline" THEN "offline" ELSE "saving"
      OBVIOUS
    <3>5. y \in Sync /\ (y = "clean" <=> c.sent = s.local)
      BY <3>4 DEF Sync
    <3>6. t = s \/ t = [s EXCEPT !.acked = c.sent, !.rev = c.rev, !.sync = y]
      BY <2>1, <1>3, <1>4, <3>4 DEF Acknowledged, Fields
    <3> QED
      BY <3>1, <3>2, <3>3, <3>5, <3>6
  <2>2. ASSUME NEW y \in {"conflict", "error"}, t = [s EXCEPT !.sync = y]
        PROVE  \E a \in Nat, r \in (1..Revision)', z \in Sync :
                 /\ t = [s EXCEPT !.acked = a, !.rev = r, !.sync = z]
                 /\ crossed \/ (s.local = a /\ z = "clean" => s.working = docs[r])
    <3>1. t = [s EXCEPT !.acked = s.acked, !.rev = s.rev, !.sync = y]
      BY <1>4, <2>2 DEF Fields
    <3>2. y \in Sync /\ y # "clean"
      BY DEF Sync
    <3> QED
      BY <3>1, <3>2, <1>4
  <2>3. CASE t = [s EXCEPT !.sync = "conflict"]
    BY <2>2, <2>3
  <2>4. CASE t = [s EXCEPT !.sync = "error"]
    BY <2>2, <2>4
  <2> QED
    BY <1>2, <1>3, <2>1, <2>3, <2>4
<1>6. Sound(client)'
  <2>1. CASE t = s
    BY <2>1, <1>1, <1>3, Untouched
  <2>2. CASE t # s
    <3>1. PICK a \in Nat, r \in (1..Revision)', y \in Sync :
            /\ t = [s EXCEPT !.acked = a, !.rev = r, !.sync = y]
            /\ crossed \/ (s.local = a /\ y = "clean" => s.working = docs[r])
      BY <1>5, <2>2
    <3>2. docs' = docs /\ crossed' = crossed
      BY DEF ReadCall
    <3>3. client' = [client EXCEPT !.acked = a, !.rev = r, !.sync = y]
      BY <3>1, <1>3
    <3>4. crossed' \/ (client.local = a /\ y = "clean" => client.working = docs'[r])
      BY <3>1, <3>2, <1>3
    <3>5. ServerOK /\ Sound(client)
      BY DEF WorkspaceInv
    <3> QED
      BY <3>1, <3>3, <3>4, <3>5, <1>1, AnswerIsSound
  <2> QED
    BY <2>1, <2>2
<1>7. t.local = s.local /\ t.working = s.working
  BY <1>4, <1>5 DEF Fields
<1>8. Latest'
  BY <1>1, <1>3, <1>7 DEF WorkspaceInv, Latest, ReadCall
<1> QED
  BY <1>1, <1>6, <1>8, Untouched DEF WorkspaceInv, ReadCall

LEMMA StepRefresh == WorkspaceInv /\ RefreshProject => WorkspaceInv'
<1> SUFFICES ASSUME WorkspaceInv, RefreshProject PROVE WorkspaceInv'
  OBVIOUS
<1>1. Onward
  BY NothingPublished DEF RefreshProject, WorkspaceInv
<1>2. ServerOK'
  BY DEF RefreshProject, WorkspaceInv, ServerOK, Graph, Revision
<1>3. Sound(client)'
  BY <1>1, RefreshIsSound DEF WorkspaceInv
<1>4. client'.local = client.local + 1 /\ client.local \in Nat
  <2>1. client = [working |-> client.working, local |-> client.local, acked |-> client.acked,
                  rev |-> client.rev, sync |-> client.sync, past |-> client.past,
                  future |-> client.future] /\ client.local \in Nat
    BY DEF WorkspaceInv, Sound, Typed
  <2> QED
    BY <2>1 DEF RefreshProject, Edited, CommitServerOperation
<1>5. Latest'
  <2> SUFFICES ASSUME ~crossed, NEW b \in calls
               PROVE  b.sent <= client'.local /\ (b.sent = client'.local => b.graph = client'.working)
    BY DEF Latest, RefreshProject
  <2>1. b.sent <= client.local /\ b.sent \in Nat
    BY DEF WorkspaceInv, Latest, CallsOK, CallOK
  <2> QED
    BY <2>1, <1>4
<1> QED
  BY <1>1, <1>2, <1>3, <1>5, Untouched DEF WorkspaceInv, RefreshProject

LEMMA StepReadAccepted == WorkspaceInv /\ ReadAccepted => WorkspaceInv'
<1> SUFFICES ASSUME WorkspaceInv, ReadAccepted PROVE WorkspaceInv'
  OBVIOUS
<1>1. Onward
  BY NothingPublished DEF ReadAccepted, WorkspaceInv
<1>2. ServerOK'
  BY DEF ReadAccepted, WorkspaceInv, ServerOK, Graph, Revision
<1>3. Sound(client)'
  BY <1>1, CopyIsSound DEF WorkspaceInv
<1>4. Latest'
  BY DEF ReadAccepted, Latest
<1> QED
  BY <1>1, <1>2, <1>3, <1>4, Untouched DEF WorkspaceInv, ReadAccepted

LEMMA StepReadRefused == WorkspaceInv /\ ReadRefused => WorkspaceInv'
<1> SUFFICES ASSUME WorkspaceInv, ReadRefused PROVE WorkspaceInv'
  OBVIOUS
<1>1. Onward /\ ServerOK'
  BY NothingPublished DEF ReadRefused, WorkspaceInv, ServerOK, Graph, Revision
<1>2. PICK s, t : s = client /\ t = client'
  OBVIOUS
<1>3. /\ Fields(s) /\ s.acked \in Nat /\ s.rev \in (1..Revision)'
  BY <1>1, <1>2, Before DEF WorkspaceInv
<1>4. CASE t = s
  BY <1>1, <1>2, <1>4, Untouched DEF WorkspaceInv, ReadRefused
<1>5. CASE t # s
  <2>1. PICK y \in {"conflict", "error"} : t = [s EXCEPT !.sync = y]
    BY <1>2, <1>5 DEF ReadRefused
  <2>2. t = [s EXCEPT !.acked = s.acked, !.rev = s.rev, !.sync = y]
    BY <2>1, <1>3 DEF Fields
  <2>3. client' = [client EXCEPT !.acked = s.acked, !.rev = s.rev, !.sync = y]
    BY <2>2, <1>2
  <2>4. y \in Sync /\ y # "clean"
    BY DEF Sync
  <2>5. ServerOK /\ Sound(client)
    BY DEF WorkspaceInv
  <2>6. Sound(client)'
    BY <1>1, <1>3, <2>3, <2>4, <2>5, AnswerIsSound
  <2>7. t.local = s.local /\ t.working = s.working
    BY <1>3, <2>1 DEF Fields
  <2>8. Latest'
    BY <1>2, <2>7 DEF WorkspaceInv, Latest, ReadRefused
  <2> QED
    BY <1>1, <2>6, <2>8, Untouched DEF WorkspaceInv, ReadRefused
<1> QED
  BY <1>4, <1>5

LEMMA StepReload == WorkspaceInv /\ Reload => WorkspaceInv'
<1> SUFFICES ASSUME WorkspaceInv, Reload PROVE WorkspaceInv'
  OBVIOUS
<1>1. Onward
  BY NothingPublished DEF Reload, WorkspaceInv
<1>2. ServerOK'
  BY DEF Reload, WorkspaceInv, ServerOK, Graph, Revision
<1>3. PICK s, t : s = stored /\ t = client'
  OBVIOUS
<1>4. Sound(s)
  BY <1>3 DEF Reload, WorkspaceInv, StoredOK, Sound, Typed, UndoChain, RedoChain, TakenBack, OfServer
<1>5. Sound(s)' /\ Fields(s)
  BY <1>1, <1>4, StaysSound DEF WorkspaceInv, Sound, Typed, Fields
<1>6. PICK y : y = IF s.sync \in {"conflict", "error"} THEN "offline" ELSE s.sync
  OBVIOUS
<1>7. t = [s EXCEPT !.sync = y]
  BY <1>3, <1>6 DEF Reload
<1>8. y \in Sync /\ (y = "clean" => s.sync = "clean")
  BY <1>4, <1>6 DEF Sync, Sound, Typed
<1>9. /\ t.working = s.working /\ t.local = s.local /\ t.acked = s.acked /\ t.rev = s.rev
      /\ t.sync = y /\ t.past = s.past /\ t.future = s.future /\ Fields(t)
  BY <1>5, <1>7 DEF Fields
<1>10. /\ s.working \in Graph' /\ s.local \in Nat /\ s.acked \in Nat /\ s.rev \in (1..Revision)'
       /\ s.past \in Seq(Entry') /\ s.future \in Seq(Entry')
  BY <1>5 DEF Sound, Typed
<1>11. UndoChain(t) /\ RedoChain(t) /\ TakenBack(t)' /\ OfServer(t)'
  BY <1>5, <1>8, <1>9 DEF Sound, UndoChain, RedoChain, TakenBack, OfServer
<1>12. Sound(client)'
  BY <1>3, <1>8, <1>9, <1>10, <1>11, After
<1>13. Latest'
  BY DEF Reload, Latest
<1> QED
  BY <1>1, <1>2, <1>12, <1>13, Untouched DEF WorkspaceInv, Reload

LEMMA StepWorkspace == WorkspaceInv /\ [Next]_vars => WorkspaceInv'
<1> SUFFICES ASSUME WorkspaceInv, [Next]_vars PROVE WorkspaceInv'
  OBVIOUS
<1>1. ASSUME fresh' = fresh, docs' = docs, mine' = mine, crossed' = crossed, client' = client,
             calls' = calls, stored' = stored, refresh' \in 0..Revision, AskOK'
      PROVE  WorkspaceInv'
  <2>1. Onward
    BY <1>1, NothingPublished DEF WorkspaceInv
  <2>2. ServerOK'
    BY <1>1 DEF WorkspaceInv, ServerOK, Graph, Revision
  <2> QED
    BY <1>1, <2>1, <2>2, Untouched DEF WorkspaceInv
<1>2. Revision \in Nat /\ refresh \in 0..Revision
  BY DEF WorkspaceInv, ServerOK, Revision
<1>3. ask' = ask => AskOK' \/ ~UNCHANGED docs
  BY DEF WorkspaceInv, AskOK, Revision
<1>4. CASE ReadProject
  BY <1>1, <1>2, <1>3, <1>4 DEF ReadProject
<1>5. CASE LoseRefresh
  BY <1>1, <1>2, <1>3, <1>5 DEF LoseRefresh
<1>6. CASE Ask
  <2>1. client.rev \in Nat /\ client.local \in Nat
    BY <1>2 DEF WorkspaceInv, Sound, Typed
  <2>2. PICK kind \in {"job", "copy"} :
          ask' = [kind |-> kind, rev |-> client.rev, local |-> client.local, state |-> "sent"]
    BY <1>6 DEF Ask
  <2>3. AskOK'
    BY <2>1, <2>2 DEF AskOK
  <2> QED
    BY <1>1, <1>2, <1>6, <2>3 DEF Ask
<1>7. CASE Autosave
  <2>1. Onward
    BY <1>7, NothingPublished DEF WorkspaceInv, Autosave
  <2>2. ServerOK'
    BY <1>7 DEF WorkspaceInv, ServerOK, Graph, Revision, Autosave
  <2>3. Sound(client)'
    BY <1>7, <2>1, Untouched DEF Autosave
  <2>4. StoredOK'
    BY <1>7, <2>3 DEF Autosave, StoredOK, Sound, Typed, UndoChain, RedoChain, TakenBack, OfServer
  <2> QED
    BY <1>7, <2>1, <2>2, <2>4, Untouched DEF WorkspaceInv, Autosave
<1>8. CASE UNCHANGED vars
  BY <1>1, <1>2, <1>3, <1>8 DEF vars
<1> QED
  BY <1>4, <1>5, <1>6, <1>7, <1>8, StepForeign, StepServeCall, StepServeAsk, StepUpdate,
     StepHistory, StepReadCall, StepRefresh, StepReadAccepted, StepReadRefused, StepReload DEF Next

LEMMA WorkspaceInvariant == Spec => []WorkspaceInv
  BY InitWorkspace, StepWorkspace, PTL DEF Spec

(* Whatever answers cross, and whatever is reloaded, a workspace that may  *)
(* ask for geometry works on the graph of the revision it will name.       *)
THEOREM WritableGraphIsServersHolds == Spec => []WritableGraphIsServers
<1>1. WorkspaceInv => WritableGraphIsServers
  BY DEF WorkspaceInv, Sound, OfServer, WritableGraphIsServers, Writable
<1> QED
  BY <1>1, WorkspaceInvariant, PTL

-----------------------------------------------------------------------------
(* What the user has made.                                                 *)

Past(s, g) == \E i \in 1..Len(s.past) : g \in {s.past[i].before, s.past[i].after}
Future(s, g) == \E i \in 1..Len(s.future) : g \in {s.future[i].before, s.future[i].after}

LEMMA HeldIs ==
  ASSUME NEW S, NEW s, s.past \in Seq(S), s.future \in Seq(S), NEW g
  PROVE  g \in Held(s) <=> g = s.working \/ Past(s, g) \/ Future(s, g)
<1>1. DOMAIN s.past = 1..Len(s.past) /\ DOMAIN s.future = 1..Len(s.future)
  OBVIOUS
<1> DEFINE P == UNION {{s.past[i].before, s.past[i].after} : i \in DOMAIN s.past}
           F == UNION {{s.future[i].before, s.future[i].after} : i \in DOMAIN s.future}
<1>2. g \in P <=> Past(s, g)
  BY <1>1 DEF Past
<1>3. g \in F <=> Future(s, g)
  BY <1>1 DEF Future
<1>4. HistoryGraphs(s) = P \cup F
  BY DEF HistoryGraphs, P, F
<1>5. Held(s) = {s.working} \cup HistoryGraphs(s)
  BY DEF Held
<1> HIDE DEF P, F
<1> QED
  BY <1>2, <1>3, <1>4, <1>5

(* What can be redone holds nothing of the user's but the working graph.   *)
LEMMA FutureIsWorking ==
  ASSUME NEW s, Sound(s), NEW g \in mine, Future(s, g) PROVE g = s.working
<1>1. PICK i \in 1..Len(s.future) : g \in {s.future[i].before, s.future[i].after}
  BY DEF Future
<1>2. g = s.future[i].before /\ Len(s.future) \in Nat
  BY <1>1 DEF Sound, TakenBack, Typed
<1>3. CASE i = Len(s.future)
  <2>1. s.future # <<>>
    BY <1>1, <1>3 DEF Sound, Typed
  <2> QED
    BY <2>1, <1>2, <1>3 DEF Sound, RedoChain
<1>4. CASE i # Len(s.future)
  <2>1. i \in 1..(Len(s.future) - 1) /\ i + 1 \in 1..Len(s.future)
    BY <1>2, <1>4
  <2>2. g = s.future[i + 1].after
    BY <2>1, <1>2 DEF Sound, RedoChain
  <2> QED
    BY <2>1, <2>2 DEF Sound, TakenBack
<1> QED
  BY <1>3, <1>4

(* An entry is pushed: the working graph is in it, and what is no longer   *)
(* in the history was in an entry that it had no room for.                 *)
Lost(p, e, q, g) ==
  \E n \in 1..(Len(p) + 1) :
    /\ q = Since(Append(p, e), n + 1) /\ ~Fits(Since(Append(p, e), n))
    /\ \E i \in 1..n : g \in {Append(p, e)[i].before, Append(p, e)[i].after}

LEMMA PushKeeps ==
  ASSUME NEW S, NEW s, NEW t, s.past \in Seq(S), NEW e \in S,
         e.before = s.working, t.past = Trimmed(Append(s.past, e)),
         NEW g, g = s.working \/ Past(s, g)
  PROVE  Past(t, g) \/ Lost(s.past, e, t.past, g)
<1> DEFINE p == s.past
           q == t.past
           a == Append(p, e)
<1>1. q \in Seq(S) /\ \E d \in 0..(Len(p) + 1) : Follows(q, p, e, d)
  <2>1. p \in Seq(S) /\ q = Trimmed(Append(p, e))
    OBVIOUS
  <2> HIDE DEF p, q
  <2> QED
    BY <2>1, Pushed
<1>2. /\ Len(p) \in Nat /\ a[Len(p) + 1] = e
      /\ \A i \in 1..Len(p) : a[i] = p[i]
  <2>1. p \in Seq(S)
    OBVIOUS
  <2> HIDE DEF p
  <2> QED
    BY <2>1, AppendProperties
<1>3. PICK d \in 0..(Len(p) + 1) : Follows(q, p, e, d)
  BY <1>1
<1> HIDE DEF p, q, a
<1>4. ASSUME NEW i \in 1..(Len(p) + 1), g \in {a[i].before, a[i].after}
      PROVE  Past(t, g) \/ Lost(p, e, q, g)
  <2>1. CASE i <= d
    <3>1. d \in 1..(Len(p) + 1) /\ i \in 1..d /\ d # 0
      BY <2>1, <1>2
    <3>2. q = Since(a, d + 1) /\ ~Fits(Since(a, d))
      BY <3>1, <1>3 DEF Follows, a
    <3> QED
      BY <3>1, <3>2, <1>4 DEF Lost, a
  <2>2. CASE i = Len(p) + 1 /\ i > d
    <3>1. Len(q) \in 1..Len(q) /\ q[Len(q)] = e
      BY <2>2, <1>2, <1>3 DEF Follows
    <3> QED
      BY <3>1, <2>2, <1>2, <1>4 DEF Past, q
  <2>3. CASE i # Len(p) + 1 /\ i > d
    <3>1. i - d \in 1..(Len(q) - 1) /\ i - d + d = i /\ i \in 1..Len(p)
      BY <2>3, <1>2, <1>3 DEF Follows
    <3>2. q[i - d] = p[i] /\ i - d \in 1..Len(q) /\ a[i] = p[i]
      BY <3>1, <1>2, <1>3 DEF Follows
    <3> QED
      BY <3>2, <1>4 DEF Past, q
  <2> QED
    BY <2>1, <2>2, <2>3, <1>2
<1>5. CASE g = s.working
  <2>1. Len(p) + 1 \in 1..(Len(p) + 1) /\ g \in {a[Len(p) + 1].before, a[Len(p) + 1].after}
    BY <1>2, <1>5
  <2> QED
    BY <2>1, <1>4 DEF p, q
<1>6. CASE Past(s, g)
  <2>1. PICK i \in 1..Len(p) : g \in {p[i].before, p[i].after}
    BY <1>6 DEF Past, p
  <2>2. i \in 1..(Len(p) + 1) /\ g \in {a[i].before, a[i].after}
    BY <2>1, <1>2
  <2> QED
    BY <2>2, <1>4 DEF p, q
<1> QED
  BY <1>5, <1>6

LEMMA HeldOrForgotten ==
  ASSUME WorkspaceInv, [Next]_vars, NEW g, g \in mine, g \in mine', g \in Held(client)
  PROVE  g \in Held(client') \/ Replaced \/ Forgotten(g)
<1>1. PICK s, t, S : s = client /\ t = client' /\ S = Entry
  OBVIOUS
<1>2. Sound(s) /\ Fields(s) /\ s.past \in Seq(S) /\ s.future \in Seq(S)
  BY <1>1 DEF WorkspaceInv, Sound, Typed, UndoChain, RedoChain, TakenBack, OfServer, Fields
<1>3. g = s.working \/ Past(s, g) \/ Future(s, g)
  BY <1>1, <1>2, HeldIs
<1>4. Future(s, g) => g = s.working
  BY <1>2, FutureIsWorking
<1>5. ASSUME Fields(t), t.past = s.past, t.future = s.future, t.working = s.working
      PROVE  g \in Held(client')
  BY <1>1, <1>5 DEF Held, HistoryGraphs
(* A push, with a graph or a document that may be new.                     *)
<1>7. ASSUME NEW e, e \in Pushes, t.past = Trimmed(Append(s.past, e))
      PROVE  g \in Held(client') \/ Forgotten(g)
  <2>1. PICK E : E = S \cup {e}
    OBVIOUS
  <2>2. s.past \in Seq(E) /\ e \in E /\ e.before = s.working
    BY <1>1, <1>2, <1>7, <2>1, LargerElements DEF Pushes
  <2>3. Past(t, g) \/ Lost(s.past, e, t.past, g)
    BY <1>3, <1>4, <1>7, <2>2, PushKeeps
  <2>4. t.past \in Seq(E)
    BY <1>7, <2>2, Pushed
  <2>5. ASSUME Past(t, g) PROVE g \in Held(client')
    <3>1. DOMAIN t.past = 1..Len(t.past)
      BY <2>4
    <3> QED
      BY <3>1, <2>5, <1>1 DEF Past, Held, HistoryGraphs
  <2>6. ASSUME Lost(s.past, e, t.past, g) PROVE Forgotten(g)
    <3>1. Len(Append(s.past, e)) = Len(s.past) + 1
      BY <2>2
    <3> QED
      BY <3>1, <2>6, <1>1, <1>7 DEF Lost, Forgotten, GivesUp
  <2> QED
    BY <2>3, <2>5, <2>6
<1>8. CASE UpdateCadgraph
  <2>1. PICK e : e = [kind |-> "graph", before |-> s.working, after |-> fresh']
    OBVIOUS
  <2>2. t.past = Trimmed(Append(s.past, e)) /\ t.working = fresh'
    BY <1>1, <1>2, <1>8, <2>1 DEF UpdateCadgraph, Edited, TransactProjectEdit, Fields
  <2>3. e \in Pushes
    BY <1>1, <2>1, <2>2 DEF Pushes
  <2> QED
    BY <2>2, <2>3, <1>7
<1>9. CASE RefreshProject
  <2>1. PICK e : e = [kind |-> "whole", before |-> s.working, after |-> docs[refresh]]
    OBVIOUS
  <2>2. t.past = Trimmed(Append(s.past, e)) /\ t.working = docs[refresh]
    BY <1>1, <1>2, <1>9, <2>1 DEF RefreshProject, Edited, CommitServerOperation, Fields
  <2>3. e \in Pushes
    BY <1>1, <2>1, <2>2 DEF Pushes
  <2> QED
    BY <2>2, <2>3, <1>7
<1>10. CASE Redo
  <2>1. /\ t.past = Trimmed(Append(s.past, Head_(s.future))) /\ s.future # <<>>
        /\ t.working = Head_(s.future).after
    BY <1>1, <1>2, <1>10 DEF Redo, Edited, Redone, Fields
  <2>2. Head_(s.future).before = s.working
    BY <1>2, <2>1 DEF Sound, RedoChain, Head_
  <2>3. Head_(s.future) \in Entry
    BY <1>1, <1>2, <2>1, DropLast
  <2>4. Head_(s.future) \in Pushes
    BY <1>1, <2>1, <2>2, <2>3 DEF Entry, Pushes
  <2> QED
    BY <2>1, <2>4, <1>7
<1>11. CASE Undo
  <2>1. /\ t.working = Head_(s.past).before /\ t.past = Front_(s.past) /\ s.past # <<>>
        /\ t.future = Append(s.future, Head_(s.past)) /\ g # s.working
    BY <1>1, <1>2, <1>11 DEF Undo, Edited, Undone, Fields
  <2>2. PICK i \in 1..Len(s.past) : g \in {s.past[i].before, s.past[i].after}
    BY <2>1, <1>3, <1>4 DEF Past
  <2>3. /\ Front_(s.past) \in Seq(S) /\ Len(Front_(s.past)) = Len(s.past) - 1
        /\ \A k \in 1..(Len(s.past) - 1) : Front_(s.past)[k] = s.past[k]
        /\ Len(s.past) \in Nat \ {0} /\ Head_(s.past) \in S /\ Head_(s.past) = s.past[Len(s.past)]
    BY <1>2, <2>1, DropLast
  <2>4. t.past \in Seq(S) /\ t.future \in Seq(S)
    BY <1>2, <2>1, <2>3, AppendProperties
  <2>5. CASE i = Len(s.past)
    <3>1. g = Head_(s.past).before
      BY <2>1, <2>2, <2>3, <2>5, <1>2 DEF Sound, UndoChain
    <3> QED
      BY <3>1, <2>1, <1>1 DEF Held
  <2>6. CASE i # Len(s.past)
    <3>1. Past(t, g)
      BY <2>1, <2>2, <2>3, <2>6 DEF Past
    <3>2. g \in Held(t)
      BY <3>1, <2>4, HeldIs
    <3> QED
      BY <3>2, <1>1
  <2> QED
    BY <2>5, <2>6
<1>12. CASE ReadAccepted
  BY <1>12 DEF ReadAccepted, Replaced, WorkspaceInv, AskOK, None
<1>13. CASE Reload
  <2>1. g \in Held(stored) /\ "none" \notin DOMAIN stored
    BY <1>13 DEF Reload
  <2>2. PICK r : r = stored
    OBVIOUS
  <2>3. r = [working |-> r.working, local |-> r.local, acked |-> r.acked, rev |-> r.rev,
             sync |-> r.sync, past |-> r.past, future |-> r.future]
    BY <2>1, <2>2 DEF WorkspaceInv, StoredOK, Sound, Typed
  <2>4. t.working = r.working /\ t.past = r.past /\ t.future = r.future
    BY <1>1, <1>13, <2>2, <2>3 DEF Reload
  <2> QED
    BY <2>1, <2>2, <2>4, <1>1 DEF Held, HistoryGraphs
<1>14. CASE ReadCall \/ ReadRefused
  <2>1. t.working = s.working /\ t.past = s.past /\ t.future = s.future
    BY <1>1, <1>2, <1>14 DEF ReadCall, ReadRefused, Acknowledged, Fields
  <2> QED
    BY <2>1, <1>1 DEF Held, HistoryGraphs
<1>15. CASE client' = client
  BY <1>15
<1> QED
  BY <1>8, <1>9, <1>10, <1>11, <1>12, <1>13, <1>14, <1>15
     DEF Next, vars, ForeignChange, ServeCall, ServeAsk, ReadProject, LoseRefresh, Ask, Autosave

LEMMA DocumentsStay ==
  ASSUME WorkspaceInv, WorkspaceInv', [Next]_vars, NEW r \in DOMAIN docs
  PROVE  r \in DOMAIN docs' /\ docs'[r] = docs[r]
<1>1. DOMAIN docs = 1..Len(docs) /\ DOMAIN docs' = 1..Len(docs') /\ Len(docs) \in Nat
  BY DEF WorkspaceInv, ServerOK
<1>2. CASE docs' = docs
  BY <1>2
<1>3. ASSUME NEW g, docs' = Append(docs, g) PROVE r \in DOMAIN docs' /\ docs'[r] = docs[r]
  <2>1. PICK G : G = Graph \cup {g}
    OBVIOUS
  <2>2. docs \in Seq(G) /\ g \in G
    BY <2>1, LargerElements DEF WorkspaceInv, ServerOK
  <2>3. /\ Len(Append(docs, g)) = Len(docs) + 1
        /\ \A i \in 1..Len(docs) : Append(docs, g)[i] = docs[i]
    BY <2>2, AppendProperties
  <2> QED
    BY <2>3, <1>1, <1>3
<1>4. docs' = docs \/ \E g : docs' = Append(docs, g)
  BY DEF Next, vars, ForeignChange, ServeCall, ServeAsk, UpdateCadgraph, Undo, Redo, Undisturbed,
     ReadCall, ReadProject, RefreshProject, LoseRefresh, Ask, ReadAccepted, ReadRefused, Autosave,
     Reload
<1> QED
  BY <1>2, <1>3, <1>4

LEMMA StepSurvives ==
  ASSUME WorkspaceInv, WorkspaceInv', [Next]_vars
  PROVE  \A graph \in mine \cap mine' :
           Survives(graph) => Survives(graph)' \/ Replaced \/ Forgotten(graph)
<1> SUFFICES ASSUME NEW g \in mine \cap mine', Survives(g)
             PROVE  Survives(g)' \/ Replaced \/ Forgotten(g)
  OBVIOUS
<1>1. CASE g \in {docs[r] : r \in DOMAIN docs}
  <2>1. PICK r \in DOMAIN docs : g = docs[r]
    BY <1>1
  <2>2. r \in DOMAIN docs' /\ docs'[r] = docs[r]
    BY DocumentsStay
  <2> QED
    BY <2>1, <2>2 DEF Survives
<1>2. CASE g \in Held(client)
  <2>1. g \in Held(client') \/ Replaced \/ Forgotten(g)
    BY <1>2, HeldOrForgotten
  <2>2. g \in Held(client') => Survives(g)'
    BY DEF Survives, Held, HistoryGraphs
  <2> QED
    BY <2>1, <2>2
<1> QED
  BY <1>1, <1>2 DEF Survives

(* With any limit of the history and any crossing of answers, conflicts    *)
(* and reloads: a graph the user has made is never lost but to a rename, a *)
(* restore, or the history being full.                                     *)
THEOREM EditsSurviveHolds == Spec => EditsSurvive
<1>1. WorkspaceInv /\ WorkspaceInv' /\ [Next]_vars =>
        [\A graph \in mine \cap mine' :
           Survives(graph) => Survives(graph)' \/ Replaced \/ Forgotten(graph)]_vars
  BY StepSurvives
<1> QED
  BY <1>1, WorkspaceInvariant, PTL DEF Spec, EditsSurvive
=============================================================================
