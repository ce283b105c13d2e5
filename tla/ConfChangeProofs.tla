------------------------- MODULE ConfChangeProofs ---------------------------
(***************************************************************************)
(* The theorems about ConfChange: for any number of peers and of changes   *)
(* in one entry, the progress map follows the configuration, check_-       *)
(* invariants never refuses, and quorums before and after a change share a *)
(* peer.                                                                   *)
(***************************************************************************)
EXTENDS ConfChange, SequenceTheorems, FiniteSetTheorems, NaturalsInduction,
        WellFoundedInduction, TLAPS

-----------------------------------------------------------------------------
\* Quorums

\* A vote is won by more than half of the voters (MajorityConfig::vote_result with
\* majority); nobody has to win the vote of an empty half.
LEMMA WonByMajority ==
    ASSUME NEW V, IsFiniteSet(V), NEW yes, NEW missing
    PROVE  /\ Cardinality(V) \in Nat /\ Cardinality(V \cap yes) \in Nat
           /\ VoteResult(V, yes, missing) = "won"
                <=> V = {} \/ 2 * Cardinality(V \cap yes) > Cardinality(V)
<1>1. IsFiniteSet(V \cap yes) /\ IsFiniteSet(V \cap missing)
  BY FS_Intersection
<1>2. /\ Cardinality(V) \in Nat
      /\ Cardinality(V \cap yes) \in Nat
      /\ Cardinality(V \cap missing) \in Nat
  BY <1>1, FS_CardinalityType
<1>3. Cardinality(V \cap yes) >= Majority(Cardinality(V))
        <=> 2 * Cardinality(V \cap yes) > Cardinality(V)
  BY <1>2 DEF Majority
<1> QED
  BY <1>2, <1>3 DEF VoteResult

\* A joint vote is won when both halves are (JointConfig::vote_result).
LEMMA JointWon ==
    ASSUME NEW I, NEW O, NEW yes, NEW missing
    PROVE  JointVoteResult(I, O, yes, missing) = "won"
             <=> /\ VoteResult(I, yes, missing) = "won"
                 /\ VoteResult(O, yes, missing) = "won"
BY DEF JointVoteResult, BothHalves

\* Two sets that each hold more than half of the voters share one.
LEMMA MajoritiesMeet ==
    ASSUME NEW V, IsFiniteSet(V), NEW Q, NEW R,
           2 * Cardinality(V \cap Q) > Cardinality(V),
           2 * Cardinality(V \cap R) > Cardinality(V)
    PROVE  \E v \in V : v \in Q /\ v \in R
<1>1. IsFiniteSet(V \cap Q) /\ IsFiniteSet(V \cap R)
  BY FS_Intersection
<1>2. /\ Cardinality(V) \in Nat
      /\ Cardinality(V \cap Q) \in Nat
      /\ Cardinality(V \cap R) \in Nat
  BY <1>1, FS_CardinalityType
<1>3. Cardinality(V \cap Q) + Cardinality(V \cap R) > Cardinality(V)
  BY <1>2
<1>4. (V \cap Q) \cap (V \cap R) # {}
  BY <1>3, FS_MajoritiesIntersect
<1> QED
  BY <1>4

\* A set of numbers that is not empty has a least one.
LEMMA LeastExists ==
    ASSUME NEW S \in SUBSET Nat, S # {}
    PROVE  \E i \in S : \A j \in S : i <= j
<1>1. PICK i \in S : \A j \in S : ~ (<<j, i>> \in OpToRel(<, Nat))
  BY NatLessThanWellFounded, WFMin
<1>2. \A j \in S : i \in Nat /\ j \in Nat
  OBVIOUS
<1>3. \A j \in S : ~(j < i)
  BY <1>1, <1>2, Zenon DEF OpToRel
<1> QED
  BY <1>2, <1>3

-----------------------------------------------------------------------------
\* Configurations

Configs == [incoming : SUBSET Ids, outgoing : SUBSET Ids, learners : SUBSET Ids,
            learners_next : SUBSET Ids, auto_leave : BOOLEAN]
Errors == {"none", "joint", "not_joint", "invalid", "zero_voters", "removed_all_voters",
           "more_than_one_voter"}
Results == [cfg : Configs, prs : SUBSET Ids, error : Errors]

\* The peers of a configuration are those of its progress map; learners are in
\* neither half, and who is to be a learner is only in the outgoing one.
Fits(cfg, prs) ==
    /\ prs = cfg.incoming \cup cfg.outgoing \cup cfg.learners \cup cfg.learners_next
    /\ cfg.learners \cap (cfg.incoming \cup cfg.outgoing) = {}
    /\ cfg.learners_next \subseteq cfg.outgoing
    /\ cfg.learners_next \cap cfg.incoming = {}

IInv ==
    panics = {} =>
        /\ conf \in Configs /\ progress \in SUBSET Ids
        /\ Fits(conf, progress)
        /\ conf.incoming # {}
        /\ ~IsJoint(conf) => ~conf.auto_leave

-----------------------------------------------------------------------------
\* Changes one after the other

\* A step of OneByOne, and one of ApplyAll.
StepTo(simple, d, cc) == IF simple THEN SimpleNext(d, cc) ELSE ApplySingle(d, cc)

\* Is f what is left of c after each of the first n changes?
AreSteps(simple, f, c, ccs, n) ==
    f = [i \in 0..n |-> IF i = 0 THEN c ELSE StepTo(simple, f[i - 1], ccs[i])]

\* The steps of ApplyAll and of OneByOne exist.
LEMMA StepsExist ==
    ASSUME NEW simple, NEW c, NEW ccs, NEW n \in Nat
    PROVE  \E f : AreSteps(simple, f, c, ccs, n)
<1> DEFINE Has(k) == \E f : AreSteps(simple, f, c, ccs, k)
           Bad == {k \in Nat : ~Has(k)}
<1>1. SUFFICES ASSUME Bad # {} PROVE FALSE
  OBVIOUS
<1>2. PICK k \in Bad : \A j \in Bad : k <= j
  <2>1. Bad \in SUBSET Nat
    OBVIOUS
  <2> HIDE DEF Bad
  <2> QED
    BY <1>1, <2>1, LeastExists
<1>3. CASE k = 0
  <2>1. AreSteps(simple, [i \in 0..0 |-> c], c, ccs, 0)
    BY DEF AreSteps
  <2>2. Has(0)
    BY <2>1
  <2> QED
    BY <1>2, <1>3, <2>2
<1>4. CASE k # 0
  <2>1. k \in Nat /\ k - 1 \in Nat /\ k - 1 \notin Bad
    <3>1. k \in Nat
      OBVIOUS
    <3> HIDE DEF Bad
    <3> QED
      BY <1>2, <1>4, <3>1
  <2>2. Has(k - 1)
    BY <2>1
  <2>3. PICK f : f = [i \in 0..(k - 1) |-> IF i = 0 THEN c ELSE StepTo(simple, f[i - 1], ccs[i])]
    BY <2>2 DEF AreSteps
  <2> DEFINE g == [i \in 0..k |-> IF i = k THEN StepTo(simple, f[k - 1], ccs[k]) ELSE f[i]]
  <2>4. ASSUME NEW i \in 0..k
        PROVE  g[i] = IF i = 0 THEN c ELSE StepTo(simple, g[i - 1], ccs[i])
    <3>1. CASE i = k
      <4>1. g[i] = StepTo(simple, f[k - 1], ccs[k]) /\ g[i - 1] = f[k - 1]
        BY <2>1, <3>1
      <4> QED
        BY <1>4, <3>1, <4>1
    <3>2. CASE i # k
      <4>1. i \in 0..(k - 1) /\ g[i] = f[i]
        BY <2>1, <3>2
      <4>2. i # 0 => g[i - 1] = f[i - 1]
        BY <2>1, <4>1
      <4>3. f[i] = IF i = 0 THEN c ELSE StepTo(simple, f[i - 1], ccs[i])
        BY <2>3, <4>1
      <4> QED
        BY <4>1, <4>2, <4>3
    <3> QED
      BY <3>1, <3>2
  <2>5. g = [i \in 0..k |-> g[i]]
    OBVIOUS
  <2> HIDE DEF g
  <2>6. AreSteps(simple, g, c, ccs, k)
    BY <2>4, <2>5 DEF AreSteps
  <2>7. Has(k)
    BY <2>6
  <2> QED
    BY <1>2, <2>7
<1> QED
  BY <1>3, <1>4

\* The steps as ApplyAll and OneByOne define them.
AreApplied(f, c, ccs, n) ==
    f = [i \in 0..n |-> IF i = 0 THEN c ELSE ApplySingle(f[i - 1], ccs[i])]
AreRestored(f, c, ccs, n) ==
    f = [i \in 0..n |-> IF i = 0 THEN c ELSE SimpleNext(f[i - 1], ccs[i])]

\* ApplyAll is what its steps lead to.
LEMMA AppliedInSteps ==
    ASSUME NEW c, NEW ccs, Len(ccs) \in Nat
    PROVE  \E f : /\ f[0] = c
                  /\ \A i \in 1..Len(ccs) : f[i] = ApplySingle(f[i - 1], ccs[i])
                  /\ ApplyAll(c, ccs) = f[Len(ccs)]
<1> DEFINE n == Len(ccs)
           f == CHOOSE g : AreApplied(g, c, ccs, n)
<1>1. PICK g : AreSteps(FALSE, g, c, ccs, n)
  BY StepsExist
<1>2. AreApplied(g, c, ccs, n)
  BY <1>1 DEF AreSteps, AreApplied, StepTo
<1>3. AreApplied(f, c, ccs, n)
  BY <1>2
<1>4. ApplyAll(c, ccs) = f[n]
  BY DEF ApplyAll, AreApplied
<1> HIDE DEF f
<1>5. f[0] = c /\ \A i \in 1..n : f[i] = ApplySingle(f[i - 1], ccs[i])
  BY <1>3 DEF AreApplied
<1> QED
  BY <1>4, <1>5

\* So is OneByOne.
LEMMA RestoredInSteps ==
    ASSUME NEW c, NEW ccs, Len(ccs) \in Nat
    PROVE  \E f : /\ f[0] = c
                  /\ \A i \in 1..Len(ccs) : f[i] = SimpleNext(f[i - 1], ccs[i])
                  /\ OneByOne(c, ccs) = f[Len(ccs)]
<1> DEFINE n == Len(ccs)
           f == CHOOSE g : AreRestored(g, c, ccs, n)
<1>1. PICK g : AreSteps(TRUE, g, c, ccs, n)
  BY StepsExist
<1>2. AreRestored(g, c, ccs, n)
  BY <1>1 DEF AreSteps, AreRestored, StepTo
<1>3. AreRestored(f, c, ccs, n)
  BY <1>2
<1>4. OneByOne(c, ccs) = f[n]
  BY DEF OneByOne, AreRestored
<1> HIDE DEF f
<1>5. f[0] = c /\ \A i \in 1..n : f[i] = SimpleNext(f[i - 1], ccs[i])
  BY <1>3 DEF AreRestored
<1> QED
  BY <1>4, <1>5

-----------------------------------------------------------------------------
\* What the operations keep

\* A configuration and a progress map that fit.
Sound(c) == c \in Results /\ Fits(c.cfg, c.prs)

\* Does d come from c by changes of the incoming half and of learners?
Follows(c, d) ==
    /\ Sound(d)
    /\ d.cfg.outgoing = c.cfg.outgoing
    /\ d.cfg.auto_leave = c.cfg.auto_leave
    /\ d.error = c.error

\* make_voter takes a learner out of its sets, and gives a new peer a progress.
LEMMA MakeVoterKeeps ==
    ASSUME NEW c, Sound(c), NEW id \in Ids
    PROVE  Follows(c, MakeVoter(c, id))
<1>1. c \in Results /\ c.cfg \in Configs /\ Fits(c.cfg, c.prs)
  BY DEF Sound, Results
<1>2. PICK old, prs, e : old = c.cfg /\ prs = c.prs /\ e = c.error
  OBVIOUS
<1>3. /\ old \in Configs /\ prs \in SUBSET Ids /\ e \in Errors /\ Fits(old, prs)
  BY <1>1, <1>2 DEF Results
<1>4. CASE id \notin prs
  <2>1. PICK new : new = [old EXCEPT !.incoming = @ \cup {id}]
    OBVIOUS
  <2>2. new \in Configs /\ Fits(new, prs \cup {id})
        /\ new.outgoing = old.outgoing /\ new.auto_leave = old.auto_leave
    BY <1>3, <1>4, <2>1 DEF Configs, Fits
  <2>3. MakeVoter(c, id) = [cfg |-> new, prs |-> prs \cup {id}, error |-> e]
    BY <1>2, <1>4, <2>1 DEF MakeVoter, Changed
  <2> QED
    BY <1>2, <1>3, <2>2, <2>3 DEF Follows, Sound, Results
<1>5. CASE id \in prs
  <2>1. PICK new : new = [old EXCEPT !.incoming = @ \cup {id}, !.learners = @ \ {id},
                                     !.learners_next = @ \ {id}]
    OBVIOUS
  <2>2. new \in Configs /\ Fits(new, prs)
        /\ new.outgoing = old.outgoing /\ new.auto_leave = old.auto_leave
    BY <1>3, <1>5, <2>1 DEF Configs, Fits
  <2>3. MakeVoter(c, id) = [cfg |-> new, prs |-> prs, error |-> e]
    BY <1>2, <1>3, <1>5, <2>1 DEF MakeVoter, Changed, Configs
  <2> QED
    BY <1>2, <1>3, <2>2, <2>3 DEF Follows, Sound, Results
<1> QED
  BY <1>4, <1>5

\* make_learner puts a voter of the outgoing half among those that become learners
\* later, so learners stay outside both halves.
LEMMA MakeLearnerKeeps ==
    ASSUME NEW c, Sound(c), NEW id \in Ids
    PROVE  Follows(c, MakeLearner(c, id))
<1>1. c \in Results /\ c.cfg \in Configs /\ Fits(c.cfg, c.prs)
  BY DEF Sound, Results
<1>2. PICK old, prs, e : old = c.cfg /\ prs = c.prs /\ e = c.error
  OBVIOUS
<1>3. /\ old \in Configs /\ prs \in SUBSET Ids /\ e \in Errors /\ Fits(old, prs)
  BY <1>1, <1>2 DEF Results
<1>4. CASE id \notin prs
  <2>1. PICK new : new = [old EXCEPT !.learners = @ \cup {id}]
    OBVIOUS
  <2>2. new \in Configs /\ Fits(new, prs \cup {id})
        /\ new.outgoing = old.outgoing /\ new.auto_leave = old.auto_leave
    BY <1>3, <1>4, <2>1 DEF Configs, Fits
  <2>3. MakeLearner(c, id) = [cfg |-> new, prs |-> prs \cup {id}, error |-> e]
    BY <1>2, <1>4, <2>1 DEF MakeLearner, Changed
  <2> QED
    BY <1>2, <1>3, <2>2, <2>3 DEF Follows, Sound, Results
<1>5. CASE id \in prs /\ id \in old.learners
  BY <1>1, <1>2, <1>5 DEF MakeLearner, Follows, Sound
<1>6. CASE id \in prs /\ id \notin old.learners /\ id \in old.outgoing
  <2>1. PICK new : new = [old EXCEPT !.incoming = @ \ {id},
                                     !.learners_next = (@ \ {id}) \cup {id}]
    OBVIOUS
  <2>2. new \in Configs /\ Fits(new, prs)
        /\ new.outgoing = old.outgoing /\ new.auto_leave = old.auto_leave
    BY <1>3, <1>6, <2>1 DEF Configs, Fits
  <2>3. MakeLearner(c, id) = [cfg |-> new, prs |-> prs, error |-> e]
    BY <1>2, <1>3, <1>6, <2>1 DEF MakeLearner, Changed, Configs
  <2> QED
    BY <1>2, <1>3, <2>2, <2>3 DEF Follows, Sound, Results
<1>7. CASE id \in prs /\ id \notin old.learners /\ id \notin old.outgoing
  <2>1. PICK new : new = [old EXCEPT !.incoming = @ \ {id}, !.learners_next = @ \ {id},
                                     !.learners = @ \cup {id}]
    OBVIOUS
  <2>2. new \in Configs /\ Fits(new, prs)
        /\ new.outgoing = old.outgoing /\ new.auto_leave = old.auto_leave
    BY <1>3, <1>7, <2>1, ZenonT(30) DEF Configs, Fits
  <2>3. MakeLearner(c, id) = [cfg |-> new, prs |-> prs, error |-> e]
    BY <1>2, <1>3, <1>7, <2>1 DEF MakeLearner, Changed, Configs
  <2> QED
    BY <1>2, <1>3, <2>2, <2>3 DEF Follows, Sound, Results
<1> QED
  BY <1>2, <1>4, <1>5, <1>6, <1>7

\* remove leaves the progress of a voter of the outgoing half.
LEMMA RemovePeerKeeps ==
    ASSUME NEW c, Sound(c), NEW id \in Ids
    PROVE  Follows(c, RemovePeer(c, id))
<1>1. c \in Results /\ c.cfg \in Configs /\ Fits(c.cfg, c.prs)
  BY DEF Sound, Results
<1>2. PICK old, prs, e : old = c.cfg /\ prs = c.prs /\ e = c.error
  OBVIOUS
<1>3. /\ old \in Configs /\ prs \in SUBSET Ids /\ e \in Errors /\ Fits(old, prs)
  BY <1>1, <1>2 DEF Results
<1>4. CASE id \notin prs
  BY <1>1, <1>2, <1>4 DEF RemovePeer, Follows, Sound
<1>5. CASE id \in prs
  <2>1. PICK new : new = [old EXCEPT !.incoming = @ \ {id}, !.learners = @ \ {id},
                                     !.learners_next = @ \ {id}]
    OBVIOUS
  <2>2. PICK left : left = IF id \in old.outgoing THEN prs ELSE prs \ {id}
    OBVIOUS
  <2>3. left \in SUBSET Ids /\ new \in Configs /\ Fits(new, left)
        /\ new.outgoing = old.outgoing /\ new.auto_leave = old.auto_leave
    BY <1>3, <1>5, <2>1, <2>2, ZenonT(30) DEF Configs, Fits
  <2>4. RemovePeer(c, id) = [cfg |-> new, prs |-> left, error |-> e]
    BY <1>2, <1>5, <2>1, <2>2 DEF RemovePeer, Changed
  <2> QED
    BY <1>2, <1>3, <2>3, <2>4 DEF Follows, Sound, Results
<1> QED
  BY <1>4, <1>5

\* So does whatever change there is.
LEMMA SingleKeeps ==
    ASSUME NEW c, Sound(c), NEW cc \in Singles
    PROVE  Follows(c, ApplySingle(c, cc))
<1>1. CASE cc.id = 0
  BY <1>1 DEF ApplySingle, Follows
<1>2. CASE cc.id # 0
  <2>1. cc.id \in Ids /\ cc.type \in Types \cup {"UpdateNode"}
    BY <1>2 DEF Singles
  <2>2. CASE cc.type = "AddNode"
    BY <1>2, <2>1, <2>2, MakeVoterKeeps DEF ApplySingle
  <2>3. CASE cc.type = "RemoveNode"
    BY <1>2, <2>1, <2>3, MakeLearnerKeeps DEF ApplySingle
  <2>4. CASE cc.type = "AddLearnerNode"
    BY <1>2, <2>1, <2>4, RemovePeerKeeps DEF ApplySingle
  <2>5. CASE cc.type = "UpdateNode"
    BY <1>2, <2>5 DEF ApplySingle, Follows
  <2> QED
    BY <2>1, <2>2, <2>3, <2>4, <2>5 DEF Types
<1> QED
  BY <1>1, <1>2

\* And any number of changes.
LEMMA ChangesKeep ==
    ASSUME NEW c, Sound(c), NEW ccs \in Seq(Singles)
    PROVE  Follows(c, ApplyAll(c, ccs))
<1>1. Len(ccs) \in Nat
  OBVIOUS
<1>2. PICK f : /\ f[0] = c
               /\ \A i \in 1..Len(ccs) : f[i] = ApplySingle(f[i - 1], ccs[i])
               /\ ApplyAll(c, ccs) = f[Len(ccs)]
  BY <1>1, AppliedInSteps
<1> DEFINE Bad == {i \in 0..Len(ccs) : ~Follows(c, f[i])}
<1>3. SUFFICES ASSUME Bad # {} PROVE FALSE
  BY <1>1, <1>2
<1>4. PICK i \in Bad : \A j \in Bad : i <= j
  <2>1. Bad \in SUBSET Nat
    BY <1>1
  <2> HIDE DEF Bad
  <2> QED
    BY <1>3, <2>1, LeastExists
<1>5. CASE i = 0
  BY <1>2, <1>4, <1>5 DEF Follows
<1>6. CASE i # 0
  <2>1. i \in 1..Len(ccs) /\ i - 1 \in 0..Len(ccs) /\ i - 1 < i
    BY <1>1, <1>6
  <2>2. Follows(c, f[i - 1])
    BY <1>4, <2>1
  <2>3. ccs[i] \in Singles
    BY <2>1
  <2>4. Follows(f[i - 1], f[i])
    BY <1>2, <2>1, <2>2, <2>3, SingleKeeps DEF Follows
  <2>5. Follows(c, f[i])
    BY <2>2, <2>4 DEF Follows
  <2> QED
    BY <1>4, <2>5
<1> QED
  BY <1>5, <1>6

-----------------------------------------------------------------------------
\* Changer

\* What check_invariants asks for, with what follows from it.
Whole(c) == /\ Sound(c) /\ c.cfg.incoming # {}
            /\ ~IsJoint(c.cfg) => ~c.cfg.auto_leave

\* The fields of a result.
LEMMA ChangedFields ==
    ASSUME NEW cfg \in Configs, NEW prs \in SUBSET Ids, NEW r, r = Changed(cfg, prs, "none")
    PROVE  r \in Results /\ r.cfg = cfg /\ r.prs = prs /\ r.error = "none"
<1>1. "none" \in Errors
  BY DEF Errors
<1> QED
  BY <1>1 DEF Changed, Results

\* check_invariants passes what fits.
LEMMA SoundIsValid ==
    ASSUME NEW c, Sound(c), ~IsJoint(c.cfg) => ~c.cfg.auto_leave
    PROVE  Valid(c.cfg, c.prs)
BY DEF Sound, Results, Configs, Fits, Valid, IsJoint

\* The result of an operation is refused for one of the documented reasons, or it
\* fits and has voters.
Passes(r) == IF r.error = "none" THEN Whole(r) ELSE r.error # "invalid"

\* A sequence of changes leaves voters or is refused.
LEMMA ApplyPasses ==
    ASSUME NEW c, Sound(c), c.error = "none", NEW ccs \in Seq(Singles),
           NEW r, r = Apply(c, ccs)
    PROVE  \/ r.error = "removed_all_voters"
           \/ Follows(c, r) /\ r.cfg.incoming # {}
<1>1. PICK d : d = ApplyAll(c, ccs)
  OBVIOUS
<1>2. Follows(c, d)
  BY <1>1, ChangesKeep
<1> QED
  BY <1>1, <1>2 DEF Apply, Refuse, Changed

\* Changer::simple keeps the configuration whole; it has one half before and after,
\* and not more than one voter is changed.
LEMMA SimplePasses ==
    ASSUME NEW c, Sound(c), c.error = "none", ~IsJoint(c.cfg), ~c.cfg.auto_leave,
           NEW ccs \in Seq(Singles), NEW r, r = Simple(c.cfg, c.prs, ccs)
    PROVE  /\ Passes(r)
           /\ r.error = "none" => /\ ~IsJoint(r.cfg)
                              /\ OneVoterAtMost(c.cfg.incoming, r.cfg.incoming)
<1>1. c = Changed(c.cfg, c.prs, "none")
  BY DEF Sound, Results, Changed
<1>2. Valid(c.cfg, c.prs)
  BY DEF Sound, Results, Configs, Fits, Valid, IsJoint
<1>3. PICK d : d = Apply(c, ccs)
  OBVIOUS
<1>4. \/ d.error = "removed_all_voters"
      \/ Follows(c, d) /\ d.cfg.incoming # {}
  BY <1>3, ApplyPasses
<1>5. r = IF d.error = "none" /\ ~OneVoterAtMost(c.cfg.incoming, d.cfg.incoming)
          THEN Refuse("more_than_one_voter") ELSE Checked(d)
  BY <1>1, <1>2, <1>3 DEF Simple
<1>6. CASE d.error # "none"
  BY <1>4, <1>5, <1>6 DEF Checked, Passes, Follows
<1>7. CASE d.error = "none" /\ ~OneVoterAtMost(c.cfg.incoming, d.cfg.incoming)
  <2>1. r = Refuse("more_than_one_voter")
    BY <1>5, <1>7
  <2>2. r.error = "more_than_one_voter"
    BY <2>1 DEF Refuse, Changed
  <2> QED
    BY <2>2 DEF Passes
<1>8. CASE d.error = "none" /\ OneVoterAtMost(c.cfg.incoming, d.cfg.incoming)
  <2>1. Follows(c, d) /\ d.cfg.incoming # {} /\ ~IsJoint(d.cfg) /\ ~d.cfg.auto_leave
    BY <1>4, <1>8 DEF Follows, IsJoint
  <2>2. Whole(d)
    BY <2>1 DEF Whole, Follows
  <2>3. r = d
    BY <1>5, <1>8, <2>2, SoundIsValid DEF Checked, Whole
  <2> QED
    BY <1>8, <2>1, <2>2, <2>3 DEF Passes
<1> QED
  BY <1>6, <1>7, <1>8

\* Changer::enter_joint keeps it whole, and the voters there were are the outgoing half.
LEMMA EnterJointPasses ==
    ASSUME NEW c, Sound(c), ~IsJoint(c.cfg) => ~c.cfg.auto_leave, NEW auto \in BOOLEAN,
           NEW ccs \in Seq(Singles), NEW r, r = EnterJoint(c.cfg, c.prs, auto, ccs)
    PROVE  /\ Passes(r)
           /\ r.error = "none" => ~IsJoint(c.cfg) /\ r.cfg.outgoing = c.cfg.incoming
<1>1. CASE IsJoint(c.cfg)
  BY <1>1 DEF EnterJoint, Refuse, Changed, Passes
<1>2. Valid(c.cfg, c.prs)
  BY SoundIsValid
<1>3. CASE ~IsJoint(c.cfg) /\ c.cfg.incoming = {}
  BY <1>2, <1>3 DEF EnterJoint, Refuse, Changed, Passes
<1>4. CASE ~IsJoint(c.cfg) /\ c.cfg.incoming # {}
  <2>1. Valid(c.cfg, c.prs) /\ c.cfg.incoming # {}
    BY <1>2, <1>4
  <2>2. PICK cfg : cfg = [c.cfg EXCEPT !.outgoing = @ \cup c.cfg.incoming]
    OBVIOUS
  <2>3. PICK s : s = Changed(cfg, c.prs, "none")
    OBVIOUS
  <2>4. /\ Sound(s) /\ s.error = "none"
        /\ s.cfg.outgoing = c.cfg.incoming /\ s.cfg.incoming = c.cfg.incoming
    <3>1. c.cfg \in Configs /\ c.prs \in SUBSET Ids /\ Fits(c.cfg, c.prs) /\ c.cfg.outgoing = {}
      BY <1>4 DEF Sound, Results, IsJoint
    <3>2. /\ cfg \in Configs /\ Fits(cfg, c.prs)
          /\ cfg.outgoing = c.cfg.incoming /\ cfg.incoming = c.cfg.incoming
      BY <2>2, <3>1 DEF Configs, Fits
    <3> QED
      BY <2>3, <3>1, <3>2, ChangedFields DEF Sound
  <2>5. PICK d : d = Apply(s, ccs)
    OBVIOUS
  <2>6. \/ d.error = "removed_all_voters"
        \/ Follows(s, d) /\ d.cfg.incoming # {}
    BY <2>4, <2>5, ApplyPasses
  <2>7. PICK e : e = [d EXCEPT !.cfg.auto_leave = auto]
    OBVIOUS
  <2>8. r = Checked(e)
    BY <1>4, <2>1, <2>2, <2>3, <2>5, <2>7 DEF EnterJoint
  <2>9. CASE d.error = "removed_all_voters"
    <3>1. d = Refuse("removed_all_voters") \/ "error" \in DOMAIN d
      <4>1. PICK x : x = ApplyAll(s, ccs)
        OBVIOUS
      <4>2. x \in Results
        BY <2>4, <4>1, ChangesKeep DEF Follows, Sound
      <4> QED
        BY <2>5, <4>1, <4>2 DEF Apply, Results
    <3>2. e.error = "removed_all_voters"
      BY <2>7, <2>9, <3>1 DEF Refuse, Changed
    <3> QED
      BY <2>8, <3>2 DEF Checked, Passes
  <2>10. CASE Follows(s, d) /\ d.cfg.incoming # {}
    <3>1. d \in Results /\ d.cfg \in Configs /\ Fits(d.cfg, d.prs) /\ d.error = "none"
          /\ d.cfg.outgoing = c.cfg.incoming
      BY <2>4, <2>10 DEF Follows, Sound, Results
    <3>2. PICK new : new = [d.cfg EXCEPT !.auto_leave = auto]
      OBVIOUS
    <3>3. /\ new \in Configs /\ Fits(new, d.prs) /\ new.incoming = d.cfg.incoming
          /\ new.outgoing = c.cfg.incoming
      BY <3>1, <3>2, Zenon DEF Configs, Fits
    <3>4. e = [d EXCEPT !.cfg = new]
      BY <2>7, <3>2
    <3>5. e \in Results /\ e.cfg = new /\ e.prs = d.prs /\ e.error = "none"
      BY <3>1, <3>3, <3>4 DEF Results
    <3>6. Whole(e)
      BY <2>1, <2>10, <3>3, <3>5 DEF Whole, Sound, IsJoint
    <3>7. r = e
      BY <2>8, <3>6, SoundIsValid DEF Checked, Whole
    <3> QED
      BY <1>4, <3>3, <3>5, <3>6, <3>7 DEF Passes
  <2> QED
    BY <2>6, <2>9, <2>10
<1> QED
  BY <1>1, <1>3, <1>4

\* Changer::leave_joint keeps it whole, with the incoming half alone.
LEMMA LeaveJointPasses ==
    ASSUME NEW c, Whole(c), NEW r, r = LeaveJoint(c.cfg, c.prs)
    PROVE  /\ Passes(r)
           /\ r.error = "none" => r.cfg.incoming = c.cfg.incoming
<1>1. CASE ~IsJoint(c.cfg)
  BY <1>1 DEF LeaveJoint, Refuse, Changed, Passes
<1>2. CASE IsJoint(c.cfg)
  <2>1. PICK old, prs : old = c.cfg /\ prs = c.prs
    OBVIOUS
  <2>2. old \in Configs /\ prs \in SUBSET Ids /\ Fits(old, prs) /\ old.incoming # {}
    BY <2>1 DEF Whole, Sound, Results
  <2>3. PICK learners : learners = old.learners \cup old.learners_next
    OBVIOUS
  <2>4. PICK new : new = [old EXCEPT !.learners = learners, !.learners_next = {},
                                     !.outgoing = {}, !.auto_leave = FALSE]
    OBVIOUS
  <2>5. PICK left : left = prs \ (old.outgoing \ (old.incoming \cup learners))
    OBVIOUS
  <2>6. PICK no : no = FALSE
    OBVIOUS
  <2>7. /\ new = [incoming |-> old.incoming, outgoing |-> {}, learners |-> learners,
                  learners_next |-> {}, auto_leave |-> no]
    BY <2>2, <2>4, <2>6 DEF Configs
  <2>8. no \in BOOLEAN
    BY <2>6
  <2>9. /\ new \in Configs /\ left \in SUBSET Ids
        /\ new.incoming = old.incoming /\ new.outgoing = {} /\ new.auto_leave = no
    BY <2>2, <2>3, <2>5, <2>7, <2>8 DEF Configs
  <2>10. Fits(new, left)
    BY <2>2, <2>3, <2>5, <2>7 DEF Configs, Fits
  <2>11. PICK e : e = Changed(new, left, "none")
    OBVIOUS
  <2>12. Whole(e) /\ e.error = "none" /\ e.cfg.incoming = c.cfg.incoming
    <3>1. e \in Results /\ e.cfg = new /\ e.prs = left /\ e.error = "none"
      BY <2>9, <2>11, ChangedFields
    <3> QED
      BY <2>1, <2>2, <2>6, <2>9, <2>10, <3>1 DEF Whole, Sound
  <2>13. r = Checked(e)
    BY <1>2, <2>1, <2>3, <2>4, <2>5, <2>11, SoundIsValid DEF LeaveJoint, Whole
  <2>14. r = e
    BY <2>12, <2>13, SoundIsValid DEF Checked, Whole
  <2> QED
    BY <2>12, <2>14 DEF Passes
<1> QED
  BY <1>1, <1>2

\* The state as the operations get it.
State == Changed(conf, progress, "none")

\* While the node lives its configuration is whole.
LEMMA StateIsWhole ==
    ASSUME IInv, panics = {}
    PROVE  Whole(State) /\ State.cfg = conf /\ State.prs = progress /\ State.error = "none"
<1>1. State \in Results /\ State.cfg = conf /\ State.prs = progress /\ State.error = "none"
  BY ChangedFields DEF IInv, State
<1> QED
  BY <1>1 DEF IInv, Whole, Sound

\* How the configuration moves: not more than one voter of the incoming half is
\* another, or the incoming half becomes the outgoing one.
Moves(old, new) == OneVoterAtMost(old.incoming, new.incoming) \/ new.outgoing = old.incoming

\* When the incoming half stays, no voter is another.
LEMMA SameVoters ==
    ASSUME NEW old, NEW new, new.incoming = old.incoming
    PROVE  Moves(old, new)
<1>1. (old.incoming \ new.incoming) \cup (new.incoming \ old.incoming) = {}
  OBVIOUS
<1>2. Cardinality({}) = 0
  BY FS_EmptySet
<1> QED
  BY <1>1, <1>2 DEF Moves, OneVoterAtMost

\* Whatever a configuration change asks for passes, or is refused for a documented
\* reason.
LEMMA ChangePasses ==
    ASSUME IInv, panics = {}, NEW transition \in Transitions, NEW ccs \in ChangeSeqs,
           NEW r, r = Change(conf, progress, transition, ccs)
    PROVE  Passes(r) /\ (r.error = "none" => Moves(conf, r.cfg))
<1>1. Whole(State) /\ State.cfg = conf /\ State.prs = progress /\ State.error = "none"
  BY StateIsWhole
<1>2. ccs \in Seq(Singles)
  BY ConfChangeAssumption DEF ChangeSeqs
<1>3. CASE transition = "Auto" /\ ccs = <<>>
  <2>1. r = LeaveJoint(conf, progress)
    BY <1>3 DEF Change
  <2>2. Passes(r) /\ (r.error = "none" => r.cfg.incoming = conf.incoming)
    BY <1>1, <2>1, LeaveJointPasses
  <2> QED
    BY <2>2, SameVoters
<1>4. CASE ~(transition = "Auto" /\ ccs = <<>>) /\ (transition # "Auto" \/ Len(ccs) > 1)
  <2>1. PICK auto \in BOOLEAN : auto = (transition # "JointExplicit")
    OBVIOUS
  <2>2. r = EnterJoint(conf, progress, auto, ccs)
    BY <1>4, <2>1 DEF Change
  <2> QED
    BY <1>1, <1>2, <2>2, EnterJointPasses DEF Whole, Moves
<1>5. CASE ~(transition = "Auto" /\ ccs = <<>>) /\ ~(transition # "Auto" \/ Len(ccs) > 1)
  <2>1. r = Simple(conf, progress, ccs)
    BY <1>5 DEF Change
  <2>2. CASE IsJoint(conf)
    BY <2>1, <2>2 DEF Simple, Refuse, Changed, Passes
  <2>3. CASE ~IsJoint(conf)
    <3>1. Sound(State) /\ ~conf.auto_leave
      BY <1>1, <2>3 DEF Whole
    <3> QED
      BY <1>1, <1>2, <2>1, <2>3, <3>1, SimplePasses DEF Moves
  <2> QED
    BY <2>2, <2>3
<1> QED
  BY <1>3, <1>4, <1>5

-----------------------------------------------------------------------------
\* Restore

\* A sound configuration with one half.
Plain(c) == Sound(c) /\ ~IsJoint(c.cfg) /\ ~c.cfg.auto_leave

\* A tracker with nothing in it is one.
LEMMA NothingIsPlain ==
    ASSUME NEW c, c = Changed(Empty, {}, "none")
    PROVE  Plain(c) /\ c.error = "none"
<1>1. PICK no : no = FALSE
  OBVIOUS
<1>2. PICK cfg : cfg = Empty
  OBVIOUS
<1>3. cfg = [incoming |-> {}, outgoing |-> {}, learners |-> {}, learners_next |-> {},
             auto_leave |-> no] /\ no \in BOOLEAN
  BY <1>1, <1>2 DEF Empty
<1>4. cfg \in Configs /\ Fits(cfg, {}) /\ cfg.outgoing = {} /\ cfg.auto_leave = no
  BY <1>3 DEF Configs, Fits
<1>5. c \in Results /\ c.cfg = cfg /\ c.prs = {} /\ c.error = "none"
  BY <1>2, <1>4, ChangedFields
<1> QED
  BY <1>1, <1>4, <1>5 DEF Plain, Sound, IsJoint

\* A simple change after another leaves a configuration with one half, or a refusal.
LEMMA SimpleNextKeeps ==
    ASSUME NEW c, c.error = "none" => Plain(c), NEW cc \in Singles,
           NEW r, r = SimpleNext(c, cc)
    PROVE  r.error = "none" => Plain(r)
<1>1. CASE c.error = "none"
  <2>1. <<cc>> \in Seq(Singles)
    OBVIOUS
  <2>2. r = Simple(c.cfg, c.prs, <<cc>>)
    BY <1>1 DEF SimpleNext
  <2>3. Passes(r) /\ (r.error = "none" => ~IsJoint(r.cfg))
    BY <1>1, <2>1, <2>2, SimplePasses DEF Plain
  <2> QED
    BY <2>3 DEF Passes, Whole, Plain
<1>2. CASE c.error # "none"
  BY <1>2 DEF SimpleNext
<1> QED
  BY <1>1, <1>2

\* So do any number of them.
LEMMA OneByOneKeeps ==
    ASSUME NEW c, Plain(c), NEW ccs \in Seq(Singles), NEW r, r = OneByOne(c, ccs)
    PROVE  r.error = "none" => Plain(r)
<1>1. Len(ccs) \in Nat
  OBVIOUS
<1>2. PICK f : /\ f[0] = c
               /\ \A i \in 1..Len(ccs) : f[i] = SimpleNext(f[i - 1], ccs[i])
               /\ OneByOne(c, ccs) = f[Len(ccs)]
  BY <1>1, RestoredInSteps
<1> DEFINE Bad == {i \in 0..Len(ccs) : ~(f[i].error = "none" => Plain(f[i]))}
<1>3. SUFFICES ASSUME Bad # {} PROVE FALSE
  BY <1>1, <1>2
<1>4. PICK i \in Bad : \A j \in Bad : i <= j
  <2>1. Bad \in SUBSET Nat
    BY <1>1
  <2> HIDE DEF Bad
  <2> QED
    BY <1>3, <2>1, LeastExists
<1>5. CASE i = 0
  BY <1>2, <1>4, <1>5
<1>6. CASE i # 0
  <2>1. i \in 1..Len(ccs) /\ i - 1 \in 0..Len(ccs) /\ i - 1 < i
    BY <1>1, <1>6
  <2>2. f[i - 1].error = "none" => Plain(f[i - 1])
    BY <1>4, <2>1
  <2>3. ccs[i] \in Singles
    BY <2>1
  <2>4. f[i].error = "none" => Plain(f[i])
    BY <1>2, <2>1, <2>2, <2>3, SimpleNextKeeps
  <2> QED
    BY <1>4, <2>4
<1> QED
  BY <1>5, <1>6

\* SetToSeq has every member of a finite set.
LEMMA EachIsSeq ==
    ASSUME NEW T, NEW V, IsFiniteSet(V), NEW type,
           \A id \in V : [id |-> id, type |-> type] \in T
    PROVE  Each(V, type) \in Seq(T) /\ Len(Each(V, type)) = Cardinality(V)
<1> DEFINE n == Cardinality(V)
<1>1. n \in Nat
  BY FS_CardinalityType
<1>2. SetToSeq(V) \in [1..n -> V]
  <2>1. PICK g : g \in Bijection(1..n, V)
    BY FS_CardinalityType DEF ExistsBijection
  <2>2. g \in {h \in [1..n -> V] : IsInjective(h)}
    BY <2>1 DEF Bijection, Injection, IsInjective
  <2> QED
    BY <2>2 DEF SetToSeq
<1>3. PICK s : s = SetToSeq(V) /\ s \in [1..n -> V]
  BY <1>2
<1>4. Each(V, type) = [i \in 1..n |-> [id |-> s[i], type |-> type]]
  BY <1>3 DEF Each
<1>5. \A i \in 1..n : [id |-> s[i], type |-> type] \in T
  BY <1>3
<1> QED
  BY <1>1, <1>4, <1>5

\* restore gives a sound configuration when it is not refused.
LEMMA RestoredIsSound ==
    ASSUME NEW cs \in Configs, NEW r, r = Restored(cs), r.error = "none"
    PROVE  Sound(r) /\ (~IsJoint(r.cfg) => ~r.cfg.auto_leave)
<1>1. /\ cs.incoming \in SUBSET Ids /\ cs.outgoing \in SUBSET Ids
      /\ cs.learners \in SUBSET Ids /\ cs.learners_next \in SUBSET Ids
      /\ cs.auto_leave \in BOOLEAN
  BY DEF Configs
<1>2. ASSUME NEW V \in SUBSET Ids, NEW type \in Types
      PROVE  Each(V, type) \in Seq(Singles)
  <2>1. IsFiniteSet(V)
    BY ConfChangeAssumption, FS_Subset
  <2>2. \A id \in V : [id |-> id, type |-> type] \in Singles
    BY DEF Singles
  <2> QED
    BY <2>1, <2>2, EachIsSeq
<1>3. "AddNode" \in Types /\ "RemoveNode" \in Types /\ "AddLearnerNode" \in Types
  BY DEF Types
<1>4. OutgoingChanges(cs) \in Seq(Singles)
  BY <1>1, <1>2, <1>3 DEF OutgoingChanges
<1>5. IncomingChanges(cs) \in Seq(Singles)
  <2>1. /\ Each(cs.outgoing, "RemoveNode") \in Seq(Singles)
        /\ Each(cs.incoming, "AddNode") \in Seq(Singles)
        /\ Each(cs.learners, "AddLearnerNode") \in Seq(Singles)
        /\ Each(cs.learners_next, "AddLearnerNode") \in Seq(Singles)
    BY <1>1, <1>2, <1>3
  <2> QED
    BY <2>1 DEF IncomingChanges
<1>6. PICK nothing : nothing = Changed(Empty, {}, "none")
  OBVIOUS
<1>7. Plain(nothing)
  BY <1>6, NothingIsPlain
<1>8. CASE cs.outgoing = {}
  <2>1. r = OneByOne(nothing, IncomingChanges(cs))
    BY <1>6, <1>8 DEF Restored
  <2> QED
    BY <1>5, <1>7, <2>1, OneByOneKeeps DEF Plain
<1>9. CASE cs.outgoing # {}
  <2>1. PICK c : c = OneByOne(nothing, OutgoingChanges(cs))
    OBVIOUS
  <2>2. c.error = "none" => Plain(c)
    BY <1>4, <1>7, <2>1, OneByOneKeeps
  <2>3. r = IF c.error # "none" THEN c
            ELSE EnterJoint(c.cfg, c.prs, cs.auto_leave, IncomingChanges(cs))
    BY <1>6, <1>9, <2>1 DEF Restored
  <2>4. c.error = "none" /\ r = EnterJoint(c.cfg, c.prs, cs.auto_leave, IncomingChanges(cs))
    BY <2>3
  <2>5. Passes(r)
    BY <1>1, <1>5, <2>2, <2>4, EnterJointPasses DEF Plain
  <2> QED
    BY <2>5 DEF Passes, Whole
<1> QED
  BY <1>8, <1>9

\* The changes that add a voter.
Adds == [id : Ids, type : {"AddNode"}]

\* To add a voter is never refused.
LEMMA AddPasses ==
    ASSUME NEW c, Plain(c), c.error = "none", NEW cc \in Adds,
           NEW r, r = SimpleNext(c, cc)
    PROVE  r.error = "none" /\ Plain(r) /\ r.cfg.incoming # {}
<1>1. PICK id \in Ids : id = cc.id /\ cc.type = "AddNode"
  BY DEF Adds
<1>2. id # 0
  BY ConfChangeAssumption
<1>3. PICK d : d = MakeVoter(c, id)
  OBVIOUS
<1>4. Follows(c, d)
  BY <1>3, MakeVoterKeeps DEF Plain
<1>5. d.cfg.incoming = c.cfg.incoming \cup {id}
  <2>1. c.cfg \in Configs
    BY DEF Plain, Sound, Results
  <2> QED
    BY <1>3, <2>1 DEF MakeVoter, Changed, Configs
<1>6. ApplyAll(c, <<cc>>) = d
  <2>1. PICK f : /\ f[0] = c
                 /\ \A i \in 1..Len(<<cc>>) : f[i] = ApplySingle(f[i - 1], <<cc>>[i])
                 /\ ApplyAll(c, <<cc>>) = f[Len(<<cc>>)]
    BY AppliedInSteps
  <2>2. f[1] = ApplySingle(c, cc) /\ ApplyAll(c, <<cc>>) = f[1]
    BY <2>1
  <2> QED
    BY <1>1, <1>2, <1>3, <2>2 DEF ApplySingle
<1>7. Apply(c, <<cc>>) = d
  BY <1>5, <1>6 DEF Apply
<1>8. OneVoterAtMost(c.cfg.incoming, d.cfg.incoming)
  <2>1. (c.cfg.incoming \ d.cfg.incoming) \cup (d.cfg.incoming \ c.cfg.incoming) \subseteq {id}
    BY <1>5
  <2>2. IsFiniteSet({id}) /\ Cardinality({id}) = 1
    BY FS_Singleton
  <2> QED
    BY <2>1, <2>2, FS_Subset DEF OneVoterAtMost
<1>9. c = Changed(c.cfg, c.prs, "none") /\ Valid(c.cfg, c.prs) /\ ~IsJoint(c.cfg)
  BY SoundIsValid DEF Plain, Sound, Results, Changed
<1>10. Plain(d) /\ d.error = "none" /\ d.cfg.incoming # {}
  BY <1>4, <1>5 DEF Plain, Follows, IsJoint
<1>11. Checked(d) = d
  BY <1>10, SoundIsValid DEF Checked, Plain
<1>12. r = Checked(d)
  BY <1>7, <1>8, <1>9 DEF SimpleNext, Simple
<1> QED
  BY <1>10, <1>11, <1>12

\* Nor is any number of voters.
LEMMA AddsPass ==
    ASSUME NEW c, Plain(c), c.error = "none",
           NEW ccs \in Seq(Adds), Len(ccs) # 0,
           NEW r, r = OneByOne(c, ccs)
    PROVE  r.error = "none" /\ Plain(r) /\ r.cfg.incoming # {}
<1>1. Len(ccs) \in Nat
  OBVIOUS
<1>2. PICK f : /\ f[0] = c
               /\ \A i \in 1..Len(ccs) : f[i] = SimpleNext(f[i - 1], ccs[i])
               /\ OneByOne(c, ccs) = f[Len(ccs)]
  BY <1>1, RestoredInSteps
<1> DEFINE Good(i) == /\ f[i].error = "none" /\ Plain(f[i])
                      /\ i # 0 => f[i].cfg.incoming # {}
           Bad == {i \in 0..Len(ccs) : ~Good(i)}
<1>3. SUFFICES ASSUME Bad # {} PROVE FALSE
  BY <1>1, <1>2
<1>4. PICK i \in Bad : \A j \in Bad : i <= j
  <2>1. Bad \in SUBSET Nat
    BY <1>1
  <2> HIDE DEF Bad
  <2> QED
    BY <1>3, <2>1, LeastExists
<1>5. CASE i = 0
  BY <1>2, <1>4, <1>5
<1>6. CASE i # 0
  <2>1. i \in 1..Len(ccs) /\ i - 1 \in 0..Len(ccs) /\ i - 1 < i
    BY <1>1, <1>6
  <2>2. f[i - 1].error = "none" /\ Plain(f[i - 1])
    BY <1>4, <2>1
  <2>3. ccs[i] \in Adds
    BY <2>1
  <2>4. f[i].error = "none" /\ Plain(f[i]) /\ f[i].cfg.incoming # {}
    <3>1. PICK d, e, cc : d = f[i - 1] /\ e = f[i] /\ cc = ccs[i]
      OBVIOUS
    <3>2. Plain(d) /\ d.error = "none" /\ cc \in Adds /\ e = SimpleNext(d, cc)
      BY <1>2, <2>1, <2>2, <2>3, <3>1
    <3>3. e.error = "none" /\ Plain(e) /\ e.cfg.incoming # {}
      BY <3>2, AddPasses
    <3> QED
      BY <3>1, <3>3
  <2> QED
    BY <1>4, <2>4
<1> QED
  BY <1>5, <1>6

\* So a node with a voter begins with the configuration it is given.
LEMMA InitialIsWhole ==
    ASSUME NEW r, r = Restored([Empty EXCEPT !.incoming = InitialVoters])
    PROVE  Whole(r) /\ r.error = "none"
<1>1. PICK cs : cs = [Empty EXCEPT !.incoming = InitialVoters]
  OBVIOUS
<1>2. /\ cs.incoming = InitialVoters /\ cs.outgoing = {} /\ cs.learners = {}
      /\ cs.learners_next = {}
  BY <1>1 DEF Empty
<1>3. ASSUME NEW type PROVE Each({}, type) \in Seq(Adds) /\ Len(Each({}, type)) = 0
  <2>1. IsFiniteSet({}) /\ Cardinality({}) = 0
    BY FS_EmptySet
  <2>2. \A id \in {} : [id |-> id, type |-> type] \in Adds
    OBVIOUS
  <2> QED
    BY <2>1, <2>2, EachIsSeq
<1>4. Each(InitialVoters, "AddNode") \in Seq(Adds) /\ Len(Each(InitialVoters, "AddNode")) \in Nat
      /\ Len(Each(InitialVoters, "AddNode")) # 0
  <2>1. IsFiniteSet(InitialVoters) /\ InitialVoters # {} /\ InitialVoters \subseteq Ids
    BY ConfChangeAssumption, FS_Subset
  <2>2. Cardinality(InitialVoters) \in Nat /\ Cardinality(InitialVoters) # 0
    BY <2>1, FS_CardinalityType, FS_EmptySet
  <2>3. \A id \in InitialVoters : [id |-> id, type |-> "AddNode"] \in Adds
    BY <2>1 DEF Adds
  <2> QED
    BY <2>1, <2>2, <2>3, EachIsSeq
<1>5. IncomingChanges(cs) \in Seq(Adds) /\ Len(IncomingChanges(cs)) # 0
  <2>1. IncomingChanges(cs) = Each({}, "RemoveNode") \o Each(InitialVoters, "AddNode")
            \o Each({}, "AddLearnerNode") \o Each({}, "AddLearnerNode")
    BY <1>2 DEF IncomingChanges
  <2>2. PICK a, b, x : /\ a = Each({}, "RemoveNode") /\ b = Each(InitialVoters, "AddNode")
                       /\ x = Each({}, "AddLearnerNode")
    OBVIOUS
  <2>3. a \in Seq(Adds) /\ b \in Seq(Adds) /\ x \in Seq(Adds) /\ Len(b) # 0
    BY <1>3, <1>4, <2>2
  <2>4. a \o b \o x \o x \in Seq(Adds)
    BY <2>3
  <2>5. Len(a \o b \o x \o x) = Len(a) + Len(b) + Len(x) + Len(x)
    BY <2>3
  <2>6. Len(a) \in Nat /\ Len(b) \in Nat /\ Len(x) \in Nat
    BY <2>3
  <2> QED
    BY <2>1, <2>2, <2>3, <2>4, <2>5, <2>6
<1>6. PICK nothing : nothing = Changed(Empty, {}, "none")
  OBVIOUS
<1>7. r = OneByOne(nothing, IncomingChanges(cs))
  BY <1>1, <1>2, <1>6 DEF Restored
<1>8. r.error = "none" /\ Plain(r) /\ r.cfg.incoming # {}
  BY <1>5, <1>6, <1>7, NothingIsPlain, AddsPass
<1> QED
  BY <1>8 DEF Whole, Plain

-----------------------------------------------------------------------------
\* The theorems

\* The configuration is whole from the start, through every change and restart.
THEOREM InductiveInvariant == Spec => []IInv
<1>1. Init => IInv
  <2> SUFFICES ASSUME Init PROVE IInv
    OBVIOUS
  <2>1. PICK c : c = Restored([Empty EXCEPT !.incoming = InitialVoters])
    OBVIOUS
  <2>2. Whole(c) /\ conf = c.cfg /\ progress = c.prs
    BY <2>1, InitialIsWhole DEF Init
  <2> QED
    BY <2>2 DEF IInv, Whole, Sound, Results
<1>2. IInv /\ [Next]_vars => IInv'
  <2> SUFFICES ASSUME IInv, [Next]_vars PROVE IInv'
    OBVIOUS
  <2>1. CASE UNCHANGED vars
    BY <2>1 DEF vars, IInv, IsJoint
  <2>2. ASSUME NEW transition \in Transitions, NEW ccs \in ChangeSeqs,
               ApplyConfChange(transition, ccs)
        PROVE  IInv'
    <3>1. PICK r : r = Change(conf, progress, transition, ccs)
      OBVIOUS
    <3>2. panics = {} /\ r.error = "none" /\ conf' = r.cfg /\ progress' = r.prs
      BY <2>2, <3>1 DEF ApplyConfChange
    <3>3. Whole(r)
      BY <2>2, <3>1, <3>2, ChangePasses DEF Passes
    <3> QED
      BY <3>2, <3>3 DEF IInv, Whole, Sound, Results, IsJoint
  <2>3. CASE Restart
    <3>1. PICK r : r = Restored(ConfState(conf))
      OBVIOUS
    <3>2. SUFFICES ASSUME panics' = {}
          PROVE  Sound(r) /\ r.cfg.incoming # {} /\ (~IsJoint(r.cfg) => ~r.cfg.auto_leave)
      BY <2>3, <3>1 DEF Restart, IInv, Sound, Results, IsJoint
    <3>3. panics = {} /\ r.error = "none" /\ ConfState(r.cfg) = ConfState(conf)
      BY <2>3, <3>1, <3>2 DEF Restart
    <3>4. conf \in Configs /\ conf.incoming # {}
      BY <3>3 DEF IInv
    <3>5. PICK no : no = FALSE
      OBVIOUS
    <3>6. ConfState(conf) \in Configs /\ ConfState(conf).incoming = conf.incoming
      <4>1. ConfState(conf) = [conf EXCEPT !.auto_leave = no] /\ no \in BOOLEAN
        BY <3>5 DEF ConfState
      <4> QED
        BY <3>4, <4>1 DEF Configs
    <3>7. Sound(r) /\ (~IsJoint(r.cfg) => ~r.cfg.auto_leave)
      BY <3>1, <3>3, <3>6, RestoredIsSound
    <3>8. r.cfg.incoming = conf.incoming
      <4>1. r.cfg \in Configs
        BY <3>7 DEF Sound, Results
      <4>2. ConfState(r.cfg).incoming = r.cfg.incoming
        BY <4>1 DEF ConfState, Configs
      <4> QED
        BY <3>3, <3>6, <4>2
    <3> QED
      BY <3>4, <3>7, <3>8
  <2> QED
    BY <2>1, <2>2, <2>3 DEF Next
<1> QED
  BY <1>1, <1>2, PTL DEF Spec

\* The progress map is that of the configuration, and a learner is in neither half.
THEOREM ProgressIsConfigurationHolds == Spec => []ProgressIsConfiguration
<1>1. IInv => ProgressIsConfiguration
  BY DEF IInv, ProgressIsConfiguration, Configs, Fits, Valid, IsJoint
<1> QED
  BY <1>1, InductiveInvariant, PTL

\* check_invariants never is the reason of a refusal: every configuration met can be
\* changed, and every joint one left.
THEOREM CheckNeverRefusesHolds == Spec => []CheckNeverRefuses
<1>1. IInv => CheckNeverRefuses
  <2> SUFFICES ASSUME IInv, panics = {}, NEW transition \in Transitions,
                      NEW ccs \in ChangeSeqs
               PROVE  Change(conf, progress, transition, ccs).error # "invalid"
    BY DEF CheckNeverRefuses
  <2>1. Passes(Change(conf, progress, transition, ccs))
    BY ChangePasses
  <2> QED
    BY <2>1 DEF Passes
<1> QED
  BY <1>1, InductiveInvariant, PTL

\* Two sets apart have together as many members as each has.
LEMMA ApartAdds ==
    ASSUME NEW P, NEW Q, IsFiniteSet(P), IsFiniteSet(Q), P \cap Q = {}, NEW U, U = P \cup Q
    PROVE  IsFiniteSet(U) /\ Cardinality(U) = Cardinality(P) + Cardinality(Q)
<1>1. PICK N : N = P \cap Q
  OBVIOUS
<1>2. IsFiniteSet(U) /\ Cardinality(U) = Cardinality(P) + Cardinality(Q) - Cardinality(N)
  BY <1>1, FS_Union
<1>3. Cardinality(N) = 0
  BY <1>1, FS_EmptySet
<1>4. Cardinality(P) \in Nat /\ Cardinality(Q) \in Nat
  BY FS_CardinalityType
<1>5. PICK p, q, n : p = Cardinality(P) /\ q = Cardinality(Q) /\ n = Cardinality(N)
  OBVIOUS
<1>6. p + q - n = p + q
  BY <1>3, <1>4, <1>5
<1> QED
  BY <1>2, <1>5, <1>6, Zenon

\* A majority of voters and a majority of others, where at most one voter is another,
\* are not apart.
LEMMA OneVoterApart ==
    ASSUME NEW A, NEW B, IsFiniteSet(A), IsFiniteSet(B), OneVoterAtMost(A, B),
           NEW S, NEW T, S \cap T = {},
           2 * Cardinality(A \cap S) > Cardinality(A),
           2 * Cardinality(B \cap T) > Cardinality(B)
    PROVE  FALSE
<1>1. PICK C, X, Y : C = A \cap B /\ X = A \ B /\ Y = B \ A
  OBVIOUS
<1>2. PICK P, Q : P = A \cap S /\ Q = B \cap T
  OBVIOUS
<1>3. /\ IsFiniteSet(C) /\ IsFiniteSet(X) /\ IsFiniteSet(Y)
      /\ IsFiniteSet(P) /\ IsFiniteSet(Q)
  BY <1>1, <1>2, FS_Intersection, FS_Difference
<1>4. /\ Cardinality(C) \in Nat /\ Cardinality(X) \in Nat /\ Cardinality(Y) \in Nat
      /\ Cardinality(P) \in Nat /\ Cardinality(Q) \in Nat
      /\ Cardinality(A) \in Nat /\ Cardinality(B) \in Nat
  BY <1>3, FS_CardinalityType
<1>5. Cardinality(A) = Cardinality(C) + Cardinality(X)
  <2>1. A = C \cup X /\ C \cap X = {}
    BY <1>1
  <2> QED
    BY <1>3, <2>1, ApartAdds
<1>6. Cardinality(B) = Cardinality(C) + Cardinality(Y)
  <2>1. B = C \cup Y /\ C \cap Y = {}
    BY <1>1
  <2> QED
    BY <1>3, <2>1, ApartAdds
<1>7. Cardinality(X) + Cardinality(Y) <= 1
  <2>1. X \cap Y = {}
    BY <1>1
  <2>2. PICK D : D = X \cup Y /\ Cardinality(D) <= 1
    BY <1>1 DEF OneVoterAtMost
  <2>3. Cardinality(D) = Cardinality(X) + Cardinality(Y)
    BY <1>3, <2>1, <2>2, ApartAdds
  <2> QED
    BY <2>2, <2>3
<1>8. Cardinality(P) + Cardinality(Q) <= Cardinality(A) + Cardinality(Y)
  <2>1. PICK U : U = A \cup Y
    OBVIOUS
  <2>2. IsFiniteSet(U) /\ Cardinality(U) = Cardinality(A) + Cardinality(Y)
    <3>1. A \cap Y = {}
      BY <1>1
    <3> QED
      BY <1>3, <2>1, <3>1, ApartAdds
  <2>3. P \cap Q = {}
    BY <1>2
  <2>4. PICK V : V = P \cup Q
    OBVIOUS
  <2>5. V \subseteq U
    BY <1>1, <1>2, <2>1, <2>4
  <2>6. Cardinality(V) <= Cardinality(U)
    BY <2>2, <2>5, FS_Subset
  <2>7. Cardinality(V) = Cardinality(P) + Cardinality(Q)
    BY <1>3, <2>3, <2>4, ApartAdds
  <2> QED
    BY <2>2, <2>6, <2>7
<1>9. /\ 2 * Cardinality(P) > Cardinality(A)
      /\ 2 * Cardinality(Q) > Cardinality(B)
  BY <1>2
<1>10. PICK a, b, c, p, q, x, y :
          /\ a = Cardinality(A) /\ b = Cardinality(B) /\ c = Cardinality(C)
          /\ p = Cardinality(P) /\ q = Cardinality(Q)
          /\ x = Cardinality(X) /\ y = Cardinality(Y)
  OBVIOUS
<1>11. /\ a \in Nat /\ b \in Nat /\ c \in Nat /\ p \in Nat /\ q \in Nat /\ x \in Nat /\ y \in Nat
       /\ a = c + x /\ b = c + y /\ x + y <= 1 /\ p + q <= a + y
       /\ 2 * p > a /\ 2 * q > b
  BY <1>4, <1>5, <1>6, <1>7, <1>8, <1>9, <1>10, Zenon
<1> QED
  BY <1>11

\* No quorum of a configuration leaves out one of the configuration after it.
LEMMA MovesOverlap ==
    ASSUME NEW old \in Configs, NEW new \in Configs, Moves(old, new),
           old.incoming # {}, new.incoming # {}, NEW S \in SUBSET Ids,
           Quorate(old, S), Quorate(new, Ids \ S)
    PROVE  FALSE
<1>1. /\ IsFiniteSet(old.incoming) /\ IsFiniteSet(new.incoming)
      /\ old.incoming \subseteq Ids /\ new.outgoing \subseteq Ids
  BY ConfChangeAssumption, FS_Subset DEF Configs
<1>2. 2 * Cardinality(old.incoming \cap S) > Cardinality(old.incoming)
  BY <1>1, JointWon, WonByMajority DEF Quorate, HasQuorum
<1>3. CASE OneVoterAtMost(old.incoming, new.incoming)
  <2>1. 2 * Cardinality(new.incoming \cap (Ids \ S)) > Cardinality(new.incoming)
    BY <1>1, JointWon, WonByMajority DEF Quorate, HasQuorum
  <2>2. S \cap (Ids \ S) = {}
    OBVIOUS
  <2> QED
    BY <1>1, <1>2, <1>3, <2>1, <2>2, OneVoterApart
<1>4. CASE new.outgoing = old.incoming
  <2>1. 2 * Cardinality(old.incoming \cap (Ids \ S)) > Cardinality(old.incoming)
    BY <1>1, <1>4, JointWon, WonByMajority DEF Quorate, HasQuorum
  <2>2. \E v \in old.incoming : v \in S /\ v \in Ids \ S
    BY <1>1, <1>2, <2>1, MajoritiesMeet
  <2> QED
    BY <2>2
<1> QED
  BY <1>3, <1>4 DEF Moves

\* Any quorum of the old configuration and any of the new one share a peer, so that
\* nodes on both sides of a change neither elect two leaders of one term nor lose
\* what was committed.
THEOREM QuorumsOverlapHold == Spec => QuorumsOverlap
<1> DEFINE Overlap == panics' = {} =>
             \A S \in SUBSET Ids : Quorate(conf, S) => ~Quorate(conf', Ids \ S)
<1>1. IInv /\ IInv' /\ [Next]_vars => [Overlap]_vars
  <2> SUFFICES ASSUME IInv, IInv', Next, panics' = {}
               PROVE  \A S \in SUBSET Ids : Quorate(conf, S) => ~Quorate(conf', Ids \ S)
    OBVIOUS
  <2>1. panics = {}
    BY DEF Next, ApplyConfChange, Restart
  <2>2. /\ conf \in Configs /\ conf.incoming # {}
        /\ conf' \in Configs /\ conf'.incoming # {}
    BY <2>1 DEF IInv, Configs
  <2>3. Moves(conf, conf')
    <3>1. ASSUME NEW transition \in Transitions, NEW ccs \in ChangeSeqs,
                 ApplyConfChange(transition, ccs)
          PROVE  Moves(conf, conf')
      <4>1. PICK r : r = Change(conf, progress, transition, ccs)
        OBVIOUS
      <4>2. r.error = "none" /\ conf' = r.cfg
        BY <3>1, <4>1 DEF ApplyConfChange
      <4> QED
        BY <2>1, <4>1, <4>2, ChangePasses
    <3>2. CASE Restart
      <4>1. ConfState(conf') = ConfState(conf)
        BY <3>2 DEF Restart
      <4>2. PICK a, b : a = conf /\ b = conf'
        OBVIOUS
      <4>3. ConfState(a).incoming = a.incoming /\ ConfState(b).incoming = b.incoming
        BY <2>2, <4>2 DEF ConfState, Configs
      <4>4. b.incoming = a.incoming
        BY <4>1, <4>2, <4>3
      <4> QED
        BY <4>2, <4>4, SameVoters
    <3> QED
      BY <3>1, <3>2 DEF Next
  <2>4. PICK old, new : old = conf /\ new = conf'
    OBVIOUS
  <2> QED
    BY <2>2, <2>3, <2>4, MovesOverlap
<1> QED
  BY <1>1, InductiveInvariant, PTL DEF Spec, QuorumsOverlap
=============================================================================
