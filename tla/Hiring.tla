------------------------------- MODULE Hiring -------------------------------
(***************************************************************************)
(* Job applications (HiringService) and the talent profile they act on     *)
(* (TalentService).  An applicant applies once per job; the employer moves *)
(* the application to any status, and each move to NO_SHOW is counted in   *)
(* the talent_profiles row and lowers its searchRank.  That row is also    *)
(* created and saved, whole, by the talent's own profile handlers.  Job    *)
(* posts stay active: no handler changes isActive.                         *)
(***************************************************************************)
EXTENDS Integers, FiniteSets, TypeOrm

CONSTANTS
  Applications,  \* the applications talents may send
  Jobs, Talents,
  For,           \* For[a]: the job application a is for, and its applicant
  Procs,         \* handlers in flight
  None,
  MaxRank,       \* the rank of a new profile (100)
  Penalty,       \* what a no-show takes off the rank (10)
  MaxNoShows     \* NO_SHOW requests in the model (a bound)

ASSUME ForAssumption == For \in [Applications -> [job : Jobs, applicant : Talents]]
ASSUME RankAssumption ==
  MaxRank \in Nat /\ Penalty \in Nat \ {0} /\ MaxRank % Penalty = 0

ApplicationStatus == {"APPLIED", "INTERVIEW", "SELECTED", "REJECTED", "NO_SHOW"}

TalentProfile == [noShowCount : Nat, searchRank : Nat, jobAlertsEnabled : BOOLEAN]

ASSUME HiringNoneAssumption == None \notin TalentProfile
ASSUME HiringSetsAssumption ==
  Applications # {} /\ IsFiniteSet(Procs) /\ MaxNoShows \in Nat

\* Mutant: searchRank has no default.
NewTalentUnranked == [noShowCount |-> 0, searchRank |-> 0, jobAlertsEnabled |-> TRUE]
NewTalent == [noShowCount |-> 0, searchRank |-> MaxRank, jobAlertsEnabled |-> TRUE]

VARIABLES
  application,  \* job_applications: the status, "NONE" before the row exists
  talent,       \* talent_profiles: None or the row
  noShows,      \* history: NO_SHOW requests saved for each talent
  proc

vars == <<application, talent, noShows, proc>>

Proc == [op : {"none", "apply", "move", "edit"}, a : Applications, t : Talents,
         pc : {"idle", "read", "insert", "save", "count", "select", "update"},
         s : ApplicationStatus \cup {"NONE"},   \* the status an application moves to
         entity : TalentProfile, dirty : SUBSET DOMAIN NewTalent]

SomeApplication == CHOOSE a \in Applications : TRUE
Idle == [op |-> "none", a |-> SomeApplication, t |-> For[SomeApplication].applicant,
         pc |-> "idle", s |-> "NONE", entity |-> NewTalent, dirty |-> {}]
Start(op, a, t, pc) == [Idle EXCEPT !.op = op, !.a = a, !.t = t, !.pc = pc]

At(p, op, pc) == proc[p].op = op /\ proc[p].pc = pc
Done(p) == proc' = [proc EXCEPT ![p] = Idle]
Keep(p, e, pc) == proc' = [proc EXCEPT ![p].entity = e, ![p].pc = pc]

Stored == {a \in Applications : application[a] # "NONE"}

-----------------------------------------------------------------------------
\* Mutant: only applications that are still open are looked for.
ApplyForJobAgain(p, a) ==
  /\ proc[p] = Idle
  /\ a \notin Stored /\ \A q \in Procs : proc[q].op = "apply" => proc[q].a # a
  /\ \A x \in Stored : application[x] = "APPLIED" => For[x] # For[a]
  /\ proc' = [proc EXCEPT ![p] = Start("apply", a, For[a].applicant, "insert")]
  /\ UNCHANGED <<application, talent, noShows>>

\* applyForJob: look for an application of this applicant to this job; if there
\* is none, insert one.
ApplyForJob(p, a) ==
  /\ proc[p] = Idle
  /\ a \notin Stored /\ \A q \in Procs : proc[q].op = "apply" => proc[q].a # a
  /\ \A x \in Stored : For[x] # For[a]   \* otherwise it throws
  /\ proc' = [proc EXCEPT ![p] = Start("apply", a, For[a].applicant, "insert")]
  /\ UNCHANGED <<application, talent, noShows>>

InsertApplication(p) ==
  /\ At(p, "apply", "insert")
  /\ application' = [application EXCEPT ![proc[p].a] = "APPLIED"]
  /\ Done(p)
  /\ UNCHANGED <<talent, noShows>>

\* The NO_SHOW requests on their way to the table (for the bound).
Reporting == {p \in Procs : At(p, "move", "save") /\ proc[p].s = "NO_SHOW"}

\* updateApplicationStatus, findOne: any status may follow any.
UpdateApplicationStatus(p, a, s) ==
  LET t == For[a].applicant IN
  /\ proc[p] = Idle
  /\ a \in Stored   \* otherwise it throws
  /\ s = "NO_SHOW" => noShows[t] + Cardinality(Reporting) < MaxNoShows
  /\ proc' = [proc EXCEPT ![p] = [Start("move", a, t, "save") EXCEPT !.s = s]]
  /\ UNCHANGED <<application, talent, noShows>>

\* Mutant: a rejected applicant is counted as one who did not come.
SaveApplicationCountsAll(p) ==
  LET a == proc[p].a
      t == For[a].applicant IN
  /\ At(p, "move", "save")
  /\ application' = [application EXCEPT ![a] = proc[p].s]
  /\ noShows' = [noShows EXCEPT ![t] = IF proc[p].s = "NO_SHOW" THEN @ + 1 ELSE @]
  /\ IF proc[p].s \in {"NO_SHOW", "REJECTED"}
       THEN proc' = [proc EXCEPT ![p] = Start("move", a, t, "count")]
       ELSE Done(p)
  /\ UNCHANGED talent

\* save(app).  Only the status may differ from the row: whether or not the SELECT of
\* save() finds it changed, the row takes it in one step.
SaveApplication(p) ==
  LET a == proc[p].a
      t == For[a].applicant IN
  /\ At(p, "move", "save")
  /\ application' = [application EXCEPT ![a] = proc[p].s]
  /\ IF proc[p].s = "NO_SHOW"
       THEN /\ noShows' = [noShows EXCEPT ![t] = @ + 1]
            /\ proc' = [proc EXCEPT ![p] = Start("move", a, t, "count")]
       ELSE Done(p) /\ UNCHANGED noShows
  /\ UNCHANGED talent

\* Mutant: a rank of 0 is lowered, too.
LoweredPastZero(rank) == rank - Penalty

\* recordNoShow: nothing to do for a talent without a profile; a rank of 0 is
\* taken for one that was never set.
Lowered(rank) ==
  LET r == (IF rank = 0 THEN MaxRank ELSE rank) - Penalty IN IF r < 0 THEN 0 ELSE r

RecordNoShow(p) ==
  LET row == talent[proc[p].t] IN
  /\ At(p, "move", "count")
  /\ IF row = None
       THEN Done(p)
       ELSE Keep(p, [row EXCEPT !.noShowCount = @ + 1, !.searchRank = Lowered(@)], "select")
  /\ UNCHANGED <<application, talent, noShows>>

\* updateProfile and toggleAlerts: getProfile creates the profile if there is
\* none, the handler then assigns the new settings and saves the entity.  (It would
\* assign any column a body names; the app sends jobAlertsEnabled and nothing else.)
UpdateProfile(p, t) ==
  /\ proc[p] = Idle
  /\ proc' = [proc EXCEPT ![p] = Start("edit", SomeApplication, t, "read")]
  /\ UNCHANGED <<application, talent, noShows>>

GetProfile(p, enabled) ==
  LET row == talent[proc[p].t] IN
  /\ At(p, "edit", "read")
  /\ IF row = None
       THEN proc' = [proc EXCEPT ![p].pc = "insert"]
       ELSE Keep(p, [row EXCEPT !.jobAlertsEnabled = enabled], "select")
  /\ UNCHANGED <<application, talent, noShows>>

\* The profile's user is unique: the second of two inserts throws.
CreateProfile(p, enabled) ==
  LET t == proc[p].t IN
  /\ At(p, "edit", "insert")
  /\ IF talent[t] # None
       THEN Done(p) /\ UNCHANGED talent
       ELSE /\ talent' = [talent EXCEPT ![t] = NewTalent]
            /\ Keep(p, [NewTalent EXCEPT !.jobAlertsEnabled = enabled], "select")
  /\ UNCHANGED <<application, noShows>>

\* save(profile).
Select(p) ==
  /\ proc[p].pc = "select"
  /\ proc' = [proc EXCEPT ![p].pc = "update",
                ![p].dirty = Changed(talent[proc[p].t], proc[p].entity)]
  /\ UNCHANGED <<application, talent, noShows>>

Update(p) ==
  /\ proc[p].pc = "update"
  /\ talent' = [talent EXCEPT ![proc[p].t] = Updated(@, proc[p].entity, proc[p].dirty)]
  /\ Done(p)
  /\ UNCHANGED <<application, noShows>>

Init ==
  /\ application = [a \in Applications |-> "NONE"]
  /\ talent = [t \in Talents |-> None]
  /\ noShows = [t \in Talents |-> 0]
  /\ proc = [p \in Procs |-> Idle]

Next == \E p \in Procs :
  \/ \E a \in Applications :
       \/ ApplyForJob(p, a)
       \/ \E s \in ApplicationStatus : UpdateApplicationStatus(p, a, s)
  \/ \E t \in Talents : UpdateProfile(p, t)
  \/ \E enabled \in BOOLEAN : GetProfile(p, enabled) \/ CreateProfile(p, enabled)
  \/ InsertApplication(p) \/ SaveApplication(p) \/ RecordNoShow(p) \/ Select(p) \/ Update(p)

Spec == Init /\ [][Next]_vars

-----------------------------------------------------------------------------
TypeOK ==
  /\ application \in [Applications -> ApplicationStatus \cup {"NONE"}]
  /\ talent \in [Talents -> TalentProfile \cup {None}]
  /\ noShows \in [Talents -> Nat]
  /\ proc \in [Procs -> Proc]

Profiled == {t \in Talents : talent[t] # None}

\* Handlers may save an old profile over a newer one, column by column, and so
\* forget a no-show; the rank stays the one the recorded no-shows give, until
\* the reported ones have used it up.  (A rank of 0 is then taken for one never
\* set and starts again from MaxRank: two counts have the same rank, save() sees
\* one column changed where two were, and rank and count part.)
RankFollowsCount ==
  \A t \in Profiled :
    Penalty * noShows[t] <= MaxRank =>
      talent[t].searchRank = MaxRank - Penalty * talent[t].noShowCount

\* A talent is never held to more no-shows than the employers have reported.
NoShowsAreReported == \A t \in Profiled : talent[t].noShowCount <= noShows[t]

\* Nothing but applyForJob's look at the table keeps a talent from applying to a job
\* twice: duplicates come only from requests in flight together, so that there
\* are never more of them than handlers.
DuplicatesNeedRaces ==
  \A a \in Stored : Cardinality({x \in Stored : For[x] = For[a]}) <= Cardinality(Procs)

-----------------------------------------------------------------------------
(* What a comment says and the code does not do. *)

\* "Prevent double applying" (hiring.service.ts:80): a talent has one application to a
\* job.  Two that look for an earlier one before either inserts are both stored.
AppliedOnce == \A a, b \in Stored : For[a] = For[b] => a = b
=============================================================================
