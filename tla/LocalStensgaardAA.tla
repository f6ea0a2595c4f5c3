-------------------------- MODULE LocalStensgaardAA -------------------------
(***************************************************************************)
(* The local alias analysis: terms in classes of a union-find, and from a  *)
(* class the class of what its terms point to.  The analysis is a value,   *)
(* and every operator below returns the analysis after the call it models. *)
(*                                                                         *)
(* Tokens are numbered in the order in which they are made.  The trees of  *)
(* parents are left out: module UnionFind shows that only the root of a    *)
(* token can be seen.  What free pointers of a type might share            *)
(* (LocalStensgaardAA.h, 108-115) never happens in the code, because no    *)
(* state is ever given to the PointerCollector that is asked there.        *)
(***************************************************************************)
EXTENDS Terms, PredicateStates

NoToken == 0

Nothing ==
    [root |-> <<>>, rank |-> <<>>, pointsTo |-> <<>>,
     view |-> [t \in {} |-> NoToken], noalias |-> {}, freeSpace |-> NoToken]

-----------------------------------------------------------------------------
(* relatedPtrs                                                             *)

EmplaceToken(aa) ==
    [aa EXCEPT !.root = Append(@, Len(@) + 1),
               !.rank = Append(@, 0),
               !.pointsTo = Append(@, NoToken)]

Newest(aa) == Len(aa.root)

FindToken(aa, t) == IF t = NoToken THEN NoToken ELSE aa.root[t]

Winner(aa, l, r) == IF aa.rank[l] < aa.rank[r] THEN r ELSE l

\* l and r are tokens, not roots.
UniteTokens(aa, l, r) ==
    LET a == FindToken(aa, l)
        b == FindToken(aa, r)
        w == Winner(aa, a, b)
    IN  IF a = b THEN aa
        ELSE [aa EXCEPT !.root = [t \in DOMAIN @ |-> IF @[t] \in {a, b} THEN w ELSE @[t]],
                        !.rank[w] = IF aa.rank[a] = aa.rank[b] THEN @ + 1 ELSE @]

-----------------------------------------------------------------------------
(* join(token& l, token& r): the arguments are places that hold tokens     *)

PointeeOf(t) == [place |-> "pointsTo", token |-> t]
FreeSpace == [place |-> "freeSpace"]
Local(t) == [place |-> "local", token |-> t]

Read(aa, l) ==
    CASE l.place = "pointsTo"  -> aa.pointsTo[l.token]
      [] l.place = "freeSpace" -> aa.freeSpace
      [] l.place = "local"     -> l.token

Write(aa, l, t) ==
    CASE l.place = "pointsTo"  -> [aa EXCEPT !.pointsTo[l.token] = t]
      [] l.place = "freeSpace" -> [aa EXCEPT !.freeSpace = t]
      [] l.place = "local"     -> aa

WriteBoth(aa, l, r, t) == Write(Write(aa, r, t), l, t)

SetPointees(aa, l, r, root, t) ==
    [aa EXCEPT !.pointsTo[root] = t, !.pointsTo[r] = t, !.pointsTo[l] = t]

\* One of the two places is empty: it gets the root of the other.
JoinOne(aa, l, r, t) ==
    LET root == FindToken(aa, t)
        pointee == FindToken(aa, aa.pointsTo[t])
    IN  WriteBoth(SetPointees(aa, t, t, root, pointee), l, r, root)

RECURSIVE Join(_, _, _)

\* What the two tokens pointed to becomes one as well.
JoinBelow(aa, pl, pr) == IF pl # pr THEN Join(aa, Local(pl), Local(pr)) ELSE aa

\* Two classes become one, and then what they point to.  (When only the
\* second of them points to something, the code forgets what.)
JoinUnited(aa, l, r, tl, tr, pl, pr) ==
    WriteBoth(JoinBelow(SetPointees(aa, tl, tr, FindToken(aa, tl), pl), pl, pr),
              l, r, FindToken(aa, tl))

JoinTokens(aa, l, r, tl, tr) ==
    JoinUnited(UniteTokens(aa, tl, tr), l, r, tl, tr,
               FindToken(aa, aa.pointsTo[tl]), FindToken(aa, aa.pointsTo[tr]))

JoinBoth(aa, l, r) == JoinTokens(aa, l, r, Read(aa, l), Read(aa, r))

Join(aa, l, r) ==
    CASE Read(aa, l) # NoToken /\ Read(aa, r) # NoToken -> JoinBoth(aa, l, r)
      [] Read(aa, l) # NoToken /\ Read(aa, r) = NoToken -> JoinOne(aa, l, r, Read(aa, l))
      [] Read(aa, l) = NoToken /\ Read(aa, r) # NoToken -> JoinOne(aa, l, r, Read(aa, r))
      [] OTHER -> WriteBoth(EmplaceToken(aa), l, r, Newest(aa) + 1)

-----------------------------------------------------------------------------
(* get                                                                     *)

IsGlobal(t) == IsNamed(t) /\ t.name \in Globals

\* What get does with a token that it has just made.
Made(aa, t) ==
    IF IsGlobal(t)
      THEN Join([aa EXCEPT !.noalias = @ \cup {t}], FreeSpace, PointeeOf(Newest(aa)))
      ELSE aa

\* The part of get that changes the analysis.  Constants are looked up as
\* objects, so that every one that is met is new.
Get(aa, t) ==
    IF t \in DOMAIN aa.view /\ ~IsConstant(t) THEN aa
    ELSE Made([EmplaceToken(aa) EXCEPT !.view = (t :> Newest(aa) + 1) @@ @], t)

Token(aa, t) == FindToken(aa, aa.view[t])

-----------------------------------------------------------------------------
(* The visitor: a term or a predicate asks for two or three tokens, each   *)
(* as it is at that time, and joins the places that it holds related.      *)

\* What a load yields is what its address points to, and a store puts it
\* there.  A gep and a cast point where their base points, and so do the two
\* sides of an equality.
Left(kind, l, r) == IF kind \in {"load", "gep", "cast"} THEN PointeeOf(r) ELSE PointeeOf(l)

Right(kind, l, r) ==
    CASE kind \in {"gep", "cast"} -> PointeeOf(l)
      [] kind = "load"            -> Local(l)
      [] kind = "eq"              -> PointeeOf(r)
      [] kind = "store"           -> Local(r)

RelateTokens(aa, kind, l, r) == Join(aa, Left(kind, l, r), Right(kind, l, r))

RelateToken(aa, kind, l, r) == RelateTokens(aa, kind, l, Token(aa, r))

RelateKnown(aa, kind, l, r) == RelateToken(Get(aa, r), kind, Token(aa, l), r)

Relate(aa, kind, l, r) == RelateKnown(Get(aa, l), kind, l, r)

\* A ternary or a binary term points where both of its arms point.
ArmTokens(aa, t, l, r) ==
    Join(Join(aa, PointeeOf(t), PointeeOf(l)), PointeeOf(t), PointeeOf(r))

ArmLast(aa, t, l, r) == ArmTokens(aa, t, l, Token(aa, r))

ArmKnown(aa, t, l, r) == ArmLast(Get(aa, r), t, Token(aa, l), r)

RelateArms(aa, t, l, r) == ArmKnown(Get(aa, l), Token(aa, t), l, r)

RECURSIVE VisitTerm(_, _)

\* The terms in a term come first.
VisitTerm(aa, t) ==
    IF Parts(t) = <<>> THEN aa
    ELSE LET visited == FoldLeft(VisitTerm, aa, Parts(t))
         IN  CASE t.op \in {"load", "gep", "cast"} -> Relate(visited, t.op, t, t.parts[1])
               [] t.op = "ternary" -> RelateArms(Get(visited, t), t, t.parts[2], t.parts[3])
               [] t.op = "binary"  -> RelateArms(Get(visited, t), t, t.parts[1], t.parts[2])
               [] OTHER            -> visited

VisitAlloca(aa, t) ==
    LET known == Get([aa EXCEPT !.noalias = @ \cup {t}], t)
        made == EmplaceToken(known)
    IN  Write(made, PointeeOf(Token(known, t)), Newest(made))

\* Mutant: a copy of a pointer is not looked at.
VisitStoresOnly(aa, p) ==
    LET visited == FoldLeft(VisitTerm, aa, p.ops)
    IN  CASE p.kind = "store"              -> Relate(visited, p.kind, p.ops[1], p.ops[2])
          [] p.kind \in {"alloca", "malloc"} -> VisitAlloca(visited, p.ops[1])
          [] OTHER                           -> visited

VisitPredicate(aa, p) ==
    LET visited == FoldLeft(VisitTerm, aa, p.ops)
    IN  CASE p.kind \in {"eq", "store"}      -> Relate(visited, p.kind, p.ops[1], p.ops[2])
          [] p.kind \in {"alloca", "malloc"} -> VisitAlloca(visited, p.ops[1])
          [] OTHER                           -> visited

RECURSIVE VisitState(_, _)

VisitState(aa, s) ==
    CASE IsBasic(s)  -> FoldLeft(VisitPredicate, aa, s.data)
      [] IsChain(s)  -> VisitState(VisitState(aa, s.base), s.curr)
      [] IsChoice(s) -> FoldLeft(VisitState, aa, s.choices)

-----------------------------------------------------------------------------

MayAlias(aa, l, r) ==
    LET known == Get(Get(aa, l), r)
        pointee(t) == FindToken(known, known.pointsTo[Token(known, t)])
    IN  \/ l = r
        \/ /\ {l, r} \cap aa.noalias # {l, r}
           /\ pointee(l) # NoToken
           /\ pointee(l) = pointee(r)

\* MemorySpacer::getMemspace, whose indices stand for the tokens.
Memspace(aa, t) == FindToken(aa, aa.pointsTo[Token(aa, t)])
=============================================================================
