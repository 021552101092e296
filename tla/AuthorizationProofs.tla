------------------------ MODULE AuthorizationProofs ------------------------
(***************************************************************************)
(* Proofs about Authorization for every set of projects, jobs and groups   *)
(* and every configuration.                                                *)
(***************************************************************************)
EXTENDS Authorization, FiniteSetTheorems, TLAPS

(* What the documentation says has been noted, and a search for groups has *)
(* found nothing about the user before.                                    *)
Asked ==
    /\ req.pc # "idle" => \A p \in Projects : Documented(p) \in granted[p]
    /\ req.pc \in {"level", "search", "act"} => req.job \in Jobs
    /\ req.pc = "search" => backend = "ldap" /\ getLevelFromACL(User, Project(req.job)) = NoAccess

(* A list has whole projects; the jobs dealt with are there if what is     *)
(* remembered of their project allows it.                                  *)
ListConsistent ==
    req.kind = "list" =>
        /\ \A i, j \in Jobs : Project(i) = Project(j) => (i \in req.jobs <=> j \in req.jobs)
        /\ req.readable \subseteq req.jobs \ req.todo
        /\ req.todo \subseteq req.jobs
        /\ \A j \in req.jobs \ req.todo :
             /\ req.lvls[Project(j)] # Unasked
             /\ j \in req.readable <=> req.lvls[Project(j)] # NoAccess
        /\ \A p \in Projects : req.lvls[p] # Unasked => req.lvls[p] \in granted[p]
        /\ req.pc \in {"level", "search"} =>
             req.job \in req.todo /\ req.lvls[Project(req.job)] = Unasked
        /\ req.pc # "act" /\ req.answer # "forbidden"
        /\ req.answer = "ok" => req.todo = {}

(* Who asks for one job has the answer that goes with what was granted.    *)
UseConsistent ==
    req.kind # "list" =>
        /\ req.pc = "act" => granted[Project(req.job)] \cap Required(req.kind) # {}
        /\ req.answer = "forbidden" => granted[Project(req.job)] \ Required(req.kind) # {}
        /\ req.pc \notin {"idle", "filter"}
        /\ req.job \in Jobs

(* What levels depend on.                                                  *)
Configured ==
    /\ backend \in {"none", "gitlab", "ldap"}
    /\ rules \in ACLs
    /\ member \subseteq LDAPGroups
    /\ perms \in [Projects -> Perms]

IInv == TypeOK /\ Asked /\ ListConsistent /\ UseConsistent
-----------------------------------------------------------------------------
(* Levels. *)

LEMMA MinOfKeys ==
    ASSUME NEW S \in SUBSET (1..3), S # {}
    PROVE  /\ 1 \in S => Min(S) = 1
           /\ 1 \notin S /\ 2 \in S => Min(S) = 2
           /\ 1 \notin S /\ 2 \notin S => Min(S) = 3 /\ 3 \in S
<1>0. \A n \in S : n = 1 \/ n = 2 \/ n = 3
  OBVIOUS
<1>1. PICK m \in S : \A n \in S : m <= n
  <2>1. CASE 1 \in S
    BY <1>0, <2>1
  <2>2. CASE 1 \notin S /\ 2 \in S
    BY <1>0, <2>2
  <2>3. CASE 1 \notin S /\ 2 \notin S
    <3>1. 3 \in S /\ S = {3}
      BY <1>0, <2>3
    <3> QED
      BY <3>1
  <2> QED
    BY <2>1, <2>2, <2>3
<1>2. Min(S) \in S /\ \A n \in S : Min(S) <= n
  BY <1>1 DEF Min
<1>3. Min(S) = 1 \/ Min(S) = 2 \/ Min(S) = 3
  BY <1>0, <1>2
<1> HIDE DEF Min
<1> QED
  BY <1>2, <1>3

LEMMA MaxOfLevels ==
    ASSUME NEW S \in SUBSET {0, 1, 2}, S # {}
    PROVE  Max(S) \in S /\ \A n \in S : n <= Max(S)
<1>1. PICK m \in S : \A n \in S : n <= m
  <2>1. CASE 2 \in S
    BY <2>1
  <2>2. CASE 2 \notin S /\ 1 \in S
    BY <2>2
  <2>3. CASE 2 \notin S /\ 1 \notin S
    <3>1. S = {0}
      BY <2>3
    <3> QED
      BY <3>1
  <2> QED
    BY <2>1, <2>2, <2>3
<1> QED
  BY <1>1 DEF Max

LEMMA MaxOfTwo ==
    ASSUME NEW a \in Nat, NEW b \in Nat
    PROVE  Max({a, b}) = IF a >= b THEN a ELSE b
<1>1. \E m \in {a, b} : \A n \in {a, b} : n <= m
  OBVIOUS
<1>2. Max({a, b}) \in {a, b} /\ \A n \in {a, b} : n <= Max({a, b})
  BY <1>1 DEF Max
<1> QED
  BY <1>2

LEMMA ConfiguredInv == IInv => Configured
  BY DEF IInv, TypeOK, Configured

LEMMA RuleType ==
    ASSUME Configured, NEW name \in Subjects, NEW p \in Projects
    PROVE  /\ rules[name][p] \in AccessLevel
           /\ rules[name][<<p[1]>>] \in AccessLevel
           /\ rules[name][AllProjects] \in AccessLevel
<1>1. rules \in [Subjects -> [Keys -> AccessLevel]]
  BY DEF Configured, ACLs
<1>2. p \in Keys /\ <<p[1]>> \in Keys /\ AllProjects \in Keys
  BY DEF Projects, Keys
<1> QED
  BY <1>1, <1>2

(* The ACL lookup gives the level of the most specific rule.               *)
LEMMA ACLIsGranted ==
    ASSUME Configured, NEW name \in Subjects, NEW p \in Projects
    PROVE  /\ getLevelFromACL(name, p) = Granted(name, p)
           /\ Granted(name, p) \in AccessLevel
<1> DEFINE S == RulesFor(name, p)
<1>1. /\ KeysOf(p)[1] = p /\ KeysOf(p)[2] = <<p[1]>> /\ KeysOf(p)[3] = AllProjects
  BY DEF KeysOf
<1>2. /\ S \in SUBSET (1..3)
      /\ 1 \in S <=> rules[name][p] # NoAccess
      /\ 2 \in S <=> rules[name][<<p[1]>>] # NoAccess
      /\ 3 \in S <=> rules[name][AllProjects] # NoAccess
  BY <1>1 DEF RulesFor
<1>3. CASE S = {}
  BY <1>2, <1>3, RuleType DEF getLevelFromACL, Granted, AccessLevel
<1>4. CASE S # {}
  <2> HIDE DEF S
  <2>1. /\ 1 \in S => Min(S) = 1
        /\ 1 \notin S /\ 2 \in S => Min(S) = 2
        /\ 1 \notin S /\ 2 \notin S => Min(S) = 3 /\ 3 \in S
    BY <1>2, <1>4, MinOfKeys
  <2>2. getLevelFromACL(name, p) = IF InLowerCase THEN rules[name][KeysOf(p)[Min(S)]] ELSE NoAccess
    BY <1>4 DEF S, getLevelFromACL
  <2> QED
    BY <1>1, <1>2, <2>1, <2>2, RuleType DEF Granted, AccessLevel
<1> QED
  BY <1>3, <1>4

LEMMA GroupsAreDocumented ==
    ASSUME Configured, NEW p \in Projects
    PROVE  GroupsLevel(member, p) = Max({NoAccess} \cup {Granted(g, p) : g \in member})
<1> DEFINE S == {NoAccess} \cup {Granted(g, p) : g \in member}
           L == {getLevelFromACL(g, p) : g \in member}
<1>1. \A g \in member : g \in Subjects
  BY DEF Configured, Subjects
<1>2. L = {Granted(g, p) : g \in member} /\ L \subseteq AccessLevel
  BY <1>1, ACLIsGranted
<1>3. S = {NoAccess} \cup L
  BY <1>2
<1>4. S \in SUBSET {0, 1, 2} /\ S # {} /\ \A x \in L : x \in S
  BY <1>2, <1>3 DEF AccessLevel, NoAccess, ReadOnly, ReadWrite
<1>5. GroupsLevel(member, p) = IF ReadWrite \in L THEN ReadWrite
                               ELSE IF ReadOnly \in L THEN ReadOnly ELSE NoAccess
  BY DEF GroupsLevel
<1> HIDE DEF S, L
<1>6. Max(S) \in S /\ \A n \in S : n <= Max(S)
  BY <1>4, MaxOfLevels
<1> QED
  BY <1>3, <1>4, <1>5, <1>6 DEF NoAccess, ReadOnly, ReadWrite, S

LEMMA GitLabIsDocumented ==
    ASSUME Configured, backend = "gitlab", NEW p \in Projects
    PROVE  GitLabLevel(perms[p]) = Documented(p)
<1> DEFINE a == perms[p].project
           b == perms[p].group
<1>1. a \in Nat \ (21..29) /\ b \in Nat \ (21..29)
  <2>1. perms[p] \in Perms
    BY DEF Configured
  <2>2. Permissions \cup {0} \subseteq Nat \ (21..29)
    BY AccessAssumption
  <2> QED
    BY <2>1, <2>2 DEF Perms
<1>2. Max({a, b}) = IF a >= b THEN a ELSE b
  BY <1>1, MaxOfTwo
<1>3. GitLabLevel(perms[p]) = IF Max({a, b}) >= 30 THEN ReadWrite
                              ELSE IF Max({a, b}) = 20 THEN ReadOnly ELSE NoAccess
  BY DEF GitLabLevel
<1>4. Documented(p) = IF \E r \in {a, b} : r >= 30 THEN ReadWrite
                      ELSE IF 20 \in {a, b} THEN ReadOnly ELSE NoAccess
  BY DEF Documented
<1> HIDE DEF a, b
<1> QED
  BY <1>1, <1>2, <1>3, <1>4

LEMMA DocumentedLevel == Configured => \A p \in Projects : Documented(p) \in AccessLevel
<1> SUFFICES ASSUME Configured, NEW p \in Projects PROVE Documented(p) \in AccessLevel
  OBVIOUS
<1>1. CASE backend = "ldap"
  <2>1. User \in Subjects
    BY DEF Subjects
  <2>2. GroupsLevel(member, p) \in AccessLevel
    BY DEF GroupsLevel, AccessLevel
  <2> QED
    BY <1>1, <2>1, <2>2, ACLIsGranted, GroupsAreDocumented DEF Documented
<1>2. CASE backend = "gitlab"
  BY <1>2 DEF Documented, AccessLevel
<1>3. CASE backend = "none"
  BY <1>3 DEF Documented, AccessLevel
<1> QED
  BY <1>1, <1>2, <1>3 DEF Configured
-----------------------------------------------------------------------------
(* Steps. *)

LEMMA NoRequestType == NoRequest \in Request /\ NoRequest.pc = "idle" /\ NoRequest.answer = "none"
  BY DEF NoRequest, Request

LEMMA RequestFields ==
    ASSUME TypeOK
    PROVE  /\ req \in Request
           /\ req.pc \in {"idle", "level", "search", "filter", "act", "done"}
           /\ req.kind \in {"list", "read", "write"}
           /\ req.job \in Jobs \cup {<<>>}
           /\ req.jobs \in SUBSET Jobs /\ req.todo \in SUBSET Jobs /\ req.readable \in SUBSET Jobs
           /\ req.lvls \in [Projects -> AccessLevel \cup {Unasked}]
           /\ req.answer \in {"none", "ok", "forbidden", "error"}
  BY DEF TypeOK, Request

LEMMA ProjectType == \A j \in Jobs : Project(j) \in Projects
  BY DEF Jobs, Project

(* What is granted depends on the configuration and on access only.        *)
LEMMA SameAccess ==
    ASSUME UNCHANGED <<conf, member, perms>>
    PROVE  /\ \A p : Documented(p)' = Documented(p)
           /\ \A n, p : getLevelFromACL(n, p)' = getLevelFromACL(n, p)
<1>1. \A n, p : Granted(n, p)' = Granted(n, p)
  BY DEF conf, Granted, InLowerCase
<1>2. \A n, p : getLevelFromACL(n, p)' = getLevelFromACL(n, p)
  BY DEF conf, getLevelFromACL, RulesFor, InLowerCase
<1>3. \A p : Documented(p)' = Documented(p)
  BY <1>1 DEF conf, Documented
<1> QED
  BY <1>2, <1>3

LEMMA InvInit == Init => IInv
<1> SUFFICES ASSUME Init PROVE IInv
  OBVIOUS
<1>1. NoRules \in ACLs
  <2>1. NoRules \in [Subjects -> [Keys -> AccessLevel]]
    BY DEF NoRules, AccessLevel
  <2>2. {sk \in Subjects \X Keys : NoRules[sk[1]][sk[2]] # NoAccess} = {}
    BY DEF NoRules
  <2>3. Cardinality({}) = 0 /\ 0 <= MaxRules
    BY FS_EmptySet, AccessAssumption
  <2> QED
    BY <2>1, <2>2, <2>3 DEF ACLs
<1>2. [p \in Projects |-> NoPerms] \in [Projects -> Perms]
  BY DEF NoPerms, Perms
<1>3. 0 \in 0..MaxChanges
  BY AccessAssumption
<1>4. /\ req = NoRequest /\ NoRequest.readable = {} /\ NoRequest.todo = {} /\ NoRequest.jobs = {}
      /\ NoRequest.kind = "list" /\ NoRequest.lvls = [p \in Projects |-> Unasked]
  BY DEF Init, NoRequest
<1>5. TypeOK
  BY <1>1, <1>2, <1>3, <1>4, NoRequestType DEF Init, TypeOK
<1>6. Asked /\ ListConsistent /\ UseConsistent
  BY <1>4, NoRequestType DEF Asked, ListConsistent, UseConsistent
<1> QED
  BY <1>5, <1>6 DEF IInv

(* An answer, when it goes with what was granted.                          *)
LEMMA AnswerInv ==
    ASSUME IInv, req.pc # "idle", req.pc # "done", NEW a \in {"ok", "forbidden", "error"},
           Become(Answer(a)),
           a = "ok" /\ req.kind = "list" => req.todo = {},
           a = "forbidden" => /\ req.kind # "list"
                              /\ granted[Project(req.job)] \ Required(req.kind) # {}
    PROVE  IInv'
<1>1. /\ req' \in Request /\ req'.pc = "done" /\ req'.answer = a
      /\ req'.kind = req.kind /\ req'.job = req.job /\ req'.jobs = req.jobs
      /\ req'.todo = req.todo /\ req'.lvls = req.lvls /\ req'.readable = req.readable
  BY RequestFields DEF Become, Answer, IInv, Request
<1>2. UNCHANGED <<conf, member, perms, changes, granted>>
  BY DEF Become
<1>3. TypeOK'
  BY <1>1, <1>2 DEF IInv, TypeOK, conf
<1>4. Asked'
  BY <1>1, <1>2, SameAccess DEF IInv, Asked
<1>5. ListConsistent'
  BY <1>1, <1>2 DEF IInv, ListConsistent
<1>6. UseConsistent'
  BY <1>1, <1>2 DEF IInv, UseConsistent, Required
<1> QED
  BY <1>3, <1>4, <1>5, <1>6 DEF IInv

(* A job of the list is dealt with, at the level remembered of its project *)
(* from then on.                                                           *)
LEMMA FilteredInv ==
    ASSUME IInv, req.kind = "list", req.pc \in {"filter", "level", "search"},
           NEW j \in req.todo, NEW level \in AccessLevel,
           level \in granted[Project(j)],
           req.lvls[Project(j)] \in {level, Unasked},
           Become([Filtered(j, level) EXCEPT !.lvls = [req.lvls EXCEPT ![Project(j)] = level]])
    PROVE  IInv'
<1>1. j \in Jobs /\ Project(j) \in Projects
  BY RequestFields, ProjectType DEF IInv
<1>2. [req.lvls EXCEPT ![Project(j)] = level] \in [Projects -> AccessLevel \cup {Unasked}]
  BY RequestFields DEF IInv
<1>3. /\ req' \in Request /\ req'.pc = "filter" /\ req'.answer = req.answer
      /\ req'.kind = req.kind /\ req'.job = req.job /\ req'.jobs = req.jobs
      /\ req'.todo = req.todo \ {j}
      /\ req'.lvls = [req.lvls EXCEPT ![Project(j)] = level]
      /\ req'.readable = IF level # NoAccess THEN req.readable \cup {j} ELSE req.readable
  <2>1. (IF level # NoAccess THEN req.readable \cup {j} ELSE req.readable) \in SUBSET Jobs
    BY <1>1, RequestFields DEF IInv
  <2>2. req.todo \ {j} \in SUBSET Jobs
    BY RequestFields DEF IInv
  <2> QED
    BY <1>2, <2>1, <2>2, RequestFields DEF Become, Filtered, IInv, Request
<1>4. UNCHANGED <<conf, member, perms, changes, granted>>
  BY DEF Become
<1>5. TypeOK'
  <2>1. req.answer = "none"
    BY DEF IInv, TypeOK
  <2>2. req'.readable \cap req'.todo = {}
    BY <1>3 DEF IInv, TypeOK
  <2> QED
    BY <1>3, <1>4, <2>1, <2>2 DEF IInv, TypeOK, conf
<1>6. Asked'
  BY <1>3, <1>4, SameAccess DEF IInv, Asked
<1>7. ListConsistent'
  <2>1. \A p \in Projects : req'.lvls[p] = IF p = Project(j) THEN level ELSE req.lvls[p]
    BY <1>1, <1>3, RequestFields DEF IInv
  <2>2. level # Unasked
    BY DEF AccessLevel, NoAccess, ReadOnly, ReadWrite, Unasked
  <2>3. \A i \in req.jobs \ req.todo : req.lvls[Project(i)] = req'.lvls[Project(i)]
    BY <2>1, RequestFields, ProjectType DEF IInv, ListConsistent
  <2>4. \A i \in req'.jobs \ req'.todo :
             /\ req'.lvls[Project(i)] # Unasked
             /\ i \in req'.readable <=> req'.lvls[Project(i)] # NoAccess
    <3>1. ASSUME NEW i \in req.jobs \ req.todo
          PROVE  /\ req'.lvls[Project(i)] # Unasked
                 /\ i \in req'.readable <=> req'.lvls[Project(i)] # NoAccess
      BY <1>3, <2>3, <3>1 DEF IInv, ListConsistent
    <3>2. req'.lvls[Project(j)] = level /\ (j \in req'.readable <=> level # NoAccess)
      BY <1>1, <1>3, <2>1 DEF IInv, TypeOK
    <3> QED
      BY <1>3, <2>2, <3>1, <3>2
  <2>5. \A p \in Projects : req'.lvls[p] # Unasked => req'.lvls[p] \in granted[p]
    BY <2>1 DEF IInv, ListConsistent
  <2>6. /\ req'.readable \subseteq req'.jobs \ req'.todo
        /\ req'.todo \subseteq req'.jobs
    BY <1>3 DEF IInv, ListConsistent
  <2>7. req'.answer = "none"
    BY <1>3 DEF IInv, TypeOK
  <2> QED
    BY <1>3, <1>4, <2>4, <2>5, <2>6, <2>7 DEF IInv, ListConsistent
<1>8. UseConsistent'
  BY <1>3 DEF UseConsistent
<1> QED
  BY <1>5, <1>6, <1>7, <1>8 DEF IInv

(* The handler is told the level that the documentation gives.             *)
LEMMA ToldInv ==
    ASSUME IInv, req.pc \in {"level", "search"}, NEW level,
           level = Documented(Project(req.job)), Told(level)
    PROVE  IInv'
<1>1. req.job \in Jobs /\ Project(req.job) \in Projects
  BY ProjectType DEF IInv, Asked
<1>2. level \in AccessLevel /\ level \in granted[Project(req.job)]
  BY <1>1, ConfiguredInv, DocumentedLevel DEF IInv, Asked
<1>3. CASE req.kind = "list"
  <2>1. Become([Filtered(req.job, level) EXCEPT
                  !.lvls = [req.lvls EXCEPT ![Project(req.job)] = level]])
    BY <1>3 DEF Told, Remember
  <2>2. req.job \in req.todo /\ req.lvls[Project(req.job)] = Unasked
    BY <1>3 DEF IInv, ListConsistent
  <2>3. req.pc \in {"filter", "level", "search"}
    OBVIOUS
  <2> QED
    BY <1>2, <1>3, <2>1, <2>2, <2>3, FilteredInv
<1>4. CASE req.kind # "list" /\ level \in Required(req.kind)
  <2>1. Become([req EXCEPT !.pc = "act"])
    BY <1>4 DEF Told
  <2>2. /\ req' \in Request /\ req'.pc = "act" /\ req'.kind = req.kind /\ req'.job = req.job
        /\ req'.todo = req.todo /\ req'.readable = req.readable /\ req'.answer = req.answer
    BY <2>1, RequestFields DEF Become, IInv, Request
  <2>3. UNCHANGED <<conf, member, perms, changes, granted>>
    BY <2>1 DEF Become
  <2>4. TypeOK'
    BY <2>2, <2>3 DEF IInv, TypeOK, conf
  <2>5. Asked'
    BY <1>1, <2>2, <2>3, SameAccess DEF IInv, Asked
  <2>6. ListConsistent'
    BY <1>4, <2>2 DEF ListConsistent
  <2>7. UseConsistent'
    BY <1>1, <1>2, <1>4, <2>2, <2>3 DEF IInv, UseConsistent, Required
  <2> QED
    BY <2>4, <2>5, <2>6, <2>7 DEF IInv
<1>5. CASE req.kind # "list" /\ level \notin Required(req.kind)
  <2>1. Become(Answer("forbidden"))
    BY <1>5 DEF Told
  <2>2. granted[Project(req.job)] \ Required(req.kind) # {}
    BY <1>2, <1>5
  <2> QED
    BY <1>5, <2>1, <2>2, AnswerInv
<1> QED
  BY <1>3, <1>4, <1>5

(* More of a request than where it is stays the same.                      *)
LEMMA AskInv ==
    ASSUME IInv, req.pc \in {"level", "filter"}, NEW pc \in {"level", "search"}, NEW j \in Jobs,
           Become([req EXCEPT !.pc = pc, !.job = j]),
           pc = "search" => backend = "ldap" /\ getLevelFromACL(User, Project(j)) = NoAccess,
           req.kind = "list" => j \in req.todo /\ req.lvls[Project(j)] = Unasked,
           req.kind # "list" => j = req.job
    PROVE  IInv'
<1>1. /\ req' \in Request /\ req'.pc = pc /\ req'.kind = req.kind /\ req'.job = j
      /\ req'.jobs = req.jobs /\ req'.lvls = req.lvls
      /\ req'.todo = req.todo /\ req'.readable = req.readable /\ req'.answer = req.answer
  BY RequestFields DEF Become, IInv, Request
<1>2. UNCHANGED <<conf, member, perms, changes, granted>>
  BY DEF Become
<1>3. backend' = backend
  BY <1>2 DEF conf
<1>4. TypeOK'
  BY <1>1, <1>2 DEF IInv, TypeOK, conf
<1>5. Asked'
  <2>1. \A p \in Projects : Documented(p)' \in granted[p]
    BY <1>2, SameAccess DEF IInv, Asked
  <2>2. getLevelFromACL(User, Project(req.job))' = getLevelFromACL(User, Project(j))
    BY <1>1, <1>2, SameAccess
  <2> QED
    BY <1>1, <1>2, <1>3, <2>1, <2>2 DEF Asked
<1>6. req.answer = "none"
  BY DEF IInv, TypeOK
<1>7. ListConsistent'
  BY <1>1, <1>2, <1>6 DEF IInv, ListConsistent
<1>8. UseConsistent'
  BY <1>1, <1>2, <1>6 DEF IInv, UseConsistent
<1> QED
  BY <1>4, <1>5, <1>7, <1>8 DEF IInv

(* A request begins.                                                       *)
LEMMA BeginInv ==
    ASSUME IInv, NEW r \in Request, Begin(r),
           r.answer = "none", r.pc \in {"level", "filter"},
           r.readable = {}, r.jobs = r.todo,
           \A p \in Projects : r.lvls[p] = Unasked,
           r.kind = "list" => /\ r.pc = "filter"
                              /\ \A i, j \in Jobs : Project(i) = Project(j) =>
                                                        (i \in r.jobs <=> j \in r.jobs),
           r.kind # "list" => r.pc = "level" /\ r.job \in Jobs
    PROVE  IInv'
<1>1. req' = r /\ UNCHANGED <<conf, member, perms, changes>>
  BY DEF Begin
<1>2. \A p \in Projects : Documented(p)' = Documented(p) /\ Documented(p) \in AccessLevel
  BY <1>1, SameAccess, ConfiguredInv, DocumentedLevel DEF IInv
<1>3. granted' = [p \in Projects |-> {Documented(p)}]
  BY DEF Begin
<1>4. granted' \in [Projects -> SUBSET AccessLevel]
  BY <1>2, <1>3
<1>5. TypeOK'
  BY <1>1, <1>4 DEF IInv, TypeOK, conf
<1>6. Asked'
  BY <1>1, <1>2, <1>3 DEF Asked
<1>7. ListConsistent'
  BY <1>1 DEF ListConsistent
<1>8. UseConsistent'
  BY <1>1 DEF UseConsistent
<1> QED
  BY <1>5, <1>6, <1>7, <1>8 DEF IInv

LEMMA InvStep == IInv /\ [Next]_vars => IInv'
<1> SUFFICES ASSUME IInv, [Next]_vars PROVE IInv'
  OBVIOUS
<1>1. CASE ListJobs
  <2>1. PICK jobs \in {Jobs} \cup {{j \in Jobs : Project(j)[1] = g} : g \in Groups} :
           Begin([NoRequest EXCEPT !.pc = "filter", !.jobs = jobs, !.todo = jobs])
    BY <1>1 DEF ListJobs
  <2>2. /\ jobs \in SUBSET Jobs
        /\ \A i, j \in Jobs : Project(i) = Project(j) => (i \in jobs <=> j \in jobs)
    OBVIOUS
  <2> DEFINE r == [NoRequest EXCEPT !.pc = "filter", !.jobs = jobs, !.todo = jobs]
  <2>3. /\ r \in Request /\ r.pc = "filter" /\ r.kind = "list" /\ r.answer = "none"
        /\ r.readable = {} /\ r.jobs = jobs /\ r.todo = jobs
        /\ \A p \in Projects : r.lvls[p] = Unasked
    BY <2>2 DEF NoRequest, Request
  <2> HIDE DEF r
  <2> QED
    BY <2>1, <2>2, <2>3, BeginInv DEF r
<1>2. CASE \E j \in Jobs, kind \in {"read", "write"} : UseJob(kind, j)
  <2>1. PICK j \in Jobs, kind \in {"read", "write"} :
           Begin([NoRequest EXCEPT !.pc = "level", !.kind = kind, !.job = j])
    BY <1>2 DEF UseJob
  <2> DEFINE r == [NoRequest EXCEPT !.pc = "level", !.kind = kind, !.job = j]
  <2>2. /\ r \in Request /\ r.pc = "level" /\ r.kind = kind /\ r.answer = "none" /\ r.job = j
        /\ r.readable = {} /\ r.jobs = {} /\ r.todo = {}
        /\ \A p \in Projects : r.lvls[p] = Unasked
    BY DEF NoRequest, Request
  <2> HIDE DEF r
  <2>3. Begin(r)
    BY <2>1 DEF r
  <2> QED
    BY <2>2, <2>3, BeginInv
<1>3. CASE ListDone
  <2>1. req.pc = "filter" /\ req.todo = {} /\ Become(Answer("ok"))
    BY <1>3 DEF ListDone
  <2> QED
    BY <2>1, AnswerInv
<1>4. CASE Act
  <2>1. req.pc = "act" /\ \E answer \in {"ok", "error"} : Become(Answer(answer))
    BY <1>4 DEF Act
  <2>2. PICK answer \in {"ok", "error"} : Become(Answer(answer))
    BY <2>1
  <2>3. req.kind # "list"
    BY <2>1 DEF IInv, ListConsistent
  <2> QED
    BY <2>1, <2>2, <2>3, AnswerInv
<1>5. CASE End
  <2>1. /\ req' = NoRequest /\ changes' = 0 /\ granted' = [p \in Projects |-> {}]
        /\ UNCHANGED <<conf, member, perms>>
    BY <1>5 DEF End
  <2>2. /\ NoRequest.readable = {} /\ NoRequest.todo = {} /\ NoRequest.jobs = {}
        /\ NoRequest.kind = "list" /\ NoRequest.lvls = [p \in Projects |-> Unasked]
    BY DEF NoRequest
  <2>3. TypeOK'
    BY <2>1, <2>2, NoRequestType, AccessAssumption DEF IInv, TypeOK, conf
  <2>4. Asked' /\ ListConsistent' /\ UseConsistent'
    BY <2>1, <2>2, NoRequestType DEF Asked, ListConsistent, UseConsistent
  <2> QED
    BY <2>3, <2>4 DEF IInv
<1>6. CASE \E j \in Jobs : FilterJob(j)
  <2>1. PICK j \in Jobs : FilterJob(j)
    BY <1>6
  <2>2. req.pc = "filter" /\ j \in req.todo /\ Project(j) \in Projects /\ req.kind = "list"
    BY <2>1, ProjectType DEF FilterJob, IInv, UseConsistent
  <2>3. CASE req.lvls[Project(j)] = Unasked
    <3>1. Become([req EXCEPT !.pc = "level", !.job = j])
      BY <2>1, <2>3 DEF FilterJob
    <3> QED
      BY <2>2, <2>3, <3>1, AskInv
  <2>4. CASE req.lvls[Project(j)] # Unasked
    <3>1. Become(Filtered(j, req.lvls[Project(j)]))
      BY <2>1, <2>4 DEF FilterJob
    <3>2. [req.lvls EXCEPT ![Project(j)] = req.lvls[Project(j)]] = req.lvls
      BY RequestFields DEF IInv
    <3>3. [Filtered(j, req.lvls[Project(j)]) EXCEPT
             !.lvls = [req.lvls EXCEPT ![Project(j)] = req.lvls[Project(j)]]]
          = Filtered(j, req.lvls[Project(j)])
      BY <3>2, RequestFields DEF Filtered, IInv, Request
    <3>4. req.lvls[Project(j)] \in AccessLevel
          /\ req.lvls[Project(j)] \in granted[Project(j)]
      BY <2>2, <2>4, RequestFields DEF IInv, ListConsistent
    <3>5. req.pc \in {"filter", "level", "search"}
      BY <2>2
    <3>6. \E level \in AccessLevel :
             /\ level = req.lvls[Project(j)]
             /\ Become([Filtered(j, level) EXCEPT !.lvls = [req.lvls EXCEPT ![Project(j)] = level]])
      BY <3>1, <3>3, <3>4
    <3> QED
      BY <2>2, <3>4, <3>5, <3>6, FilteredInv
  <2> QED
    BY <2>3, <2>4
<1>7. CASE Connect
  <2>1. req.pc = "level" /\ backend = "ldap"
    BY <1>7 DEF Connect
  <2>2. req.job \in Jobs /\ Project(req.job) \in Projects
    BY <2>1, ProjectType DEF IInv, Asked
  <2>3. getLevelFromACL(User, Project(req.job)) = Granted(User, Project(req.job))
    BY <2>2, ConfiguredInv, ACLIsGranted DEF IInv, Subjects
  <2>4. CASE getLevelFromACL(User, Project(req.job)) # NoAccess
    <3>1. Told(getLevelFromACL(User, Project(req.job)))
      BY <1>7, <2>4 DEF Connect
    <3>2. getLevelFromACL(User, Project(req.job)) = Documented(Project(req.job))
      BY <2>1, <2>3, <2>4 DEF Documented
    <3>3. req.pc \in {"level", "search"}
      BY <2>1
    <3> QED
      BY <3>1, <3>2, <3>3, ToldInv
  <2>5. CASE getLevelFromACL(User, Project(req.job)) = NoAccess
    <3>1. Become([req EXCEPT !.pc = "search"])
      BY <1>7, <2>5 DEF Connect
    <3>2. [req EXCEPT !.pc = "search"] = [req EXCEPT !.pc = "search", !.job = req.job]
      BY RequestFields DEF IInv, Request
    <3>3. Become([req EXCEPT !.pc = "search", !.job = req.job])
      BY <3>1, <3>2
    <3>4. req.kind = "list" => req.job \in req.todo /\ req.lvls[Project(req.job)] = Unasked
      BY <2>1 DEF IInv, ListConsistent
    <3> QED
      BY <2>1, <2>2, <2>5, <3>3, <3>4, AskInv
  <2> QED
    BY <2>4, <2>5
<1>8. CASE SearchGroups
  <2>1. req.pc = "search" /\ Told(GroupsLevel(member, Project(req.job)))
    BY <1>8 DEF SearchGroups
  <2>2. /\ req.job \in Jobs /\ Project(req.job) \in Projects /\ backend = "ldap"
        /\ getLevelFromACL(User, Project(req.job)) = NoAccess
    BY <2>1, ProjectType DEF IInv, Asked
  <2>3. Granted(User, Project(req.job)) = NoAccess
    BY <2>2, ConfiguredInv, ACLIsGranted DEF IInv, Subjects
  <2>4. GroupsLevel(member, Project(req.job)) = Documented(Project(req.job))
    BY <2>2, <2>3, ConfiguredInv, GroupsAreDocumented DEF IInv, Documented
  <2> QED
    BY <2>1, <2>4, ToldInv
<1>9. CASE GetProject
  <2>1. req.pc = "level" /\ backend = "gitlab" /\ Told(GitLabLevel(perms[Project(req.job)]))
    BY <1>9 DEF GetProject
  <2>2. Project(req.job) \in Projects
    BY <2>1, ProjectType DEF IInv, Asked
  <2>3. GitLabLevel(perms[Project(req.job)]) = Documented(Project(req.job))
    BY <2>1, <2>2, ConfiguredInv, GitLabIsDocumented DEF IInv
  <2> QED
    BY <2>1, <2>3, ToldInv
<1>10. CASE NoBackend
  <2>1. req.pc = "level" /\ Told(ReadWrite) /\ ReadWrite = Documented(Project(req.job))
    BY <1>10 DEF NoBackend, Documented
  <2> QED
    BY <2>1, ToldInv
<1>11. CASE BackendFails
  <2>1. req.pc \in {"level", "search"} /\ Become(Answer("error"))
    BY <1>11 DEF BackendFails
  <2> QED
    BY <2>1, AnswerInv
<1>12. CASE AccessChanges
  <2>1. /\ UNCHANGED <<conf, req>> /\ req.pc \notin {"idle", "done"}
        /\ changes < MaxChanges /\ changes' = changes + 1
        /\ granted' = [p \in Projects |-> granted[p] \cup {Documented(p)'}]
    BY <1>12 DEF AccessChanges
  <2>2. member' \in SUBSET LDAPGroups /\ perms' \in [Projects -> Perms]
    BY <1>12 DEF AccessChanges, IInv, TypeOK
  <2>3. Configured'
    BY <2>1, <2>2, ConfiguredInv DEF Configured, conf
  <2>4. (\A p \in Projects : Documented(p) \in AccessLevel)'
    BY <2>3, DocumentedLevel, PTL
  <2>5. TypeOK'
    BY <2>1, <2>2, <2>4, AccessAssumption DEF IInv, TypeOK, conf
  <2>6. Asked'
    <3>1. req.pc = "search" => backend = "ldap" /\ getLevelFromACL(User, Project(req.job))' = NoAccess
      BY <2>1 DEF IInv, Asked, conf, getLevelFromACL, RulesFor, InLowerCase
    <3> QED
      BY <2>1, <3>1 DEF IInv, Asked, conf
  <2>7. \A p \in Projects : granted[p] \subseteq granted'[p]
    BY <2>1
  <2>8. ListConsistent' /\ UseConsistent'
    BY <2>1, <2>7, ProjectType DEF IInv, ListConsistent, UseConsistent
  <2> QED
    BY <2>5, <2>6, <2>8 DEF IInv
<1>13. CASE UNCHANGED vars
  <2>1. req' = req /\ granted' = granted /\ UNCHANGED <<conf, member, perms, changes>>
    BY <1>13 DEF vars
  <2>2. TypeOK'
    BY <2>1 DEF IInv, TypeOK, conf
  <2>3. Asked'
    BY <2>1, SameAccess DEF IInv, Asked, conf
  <2>4. ListConsistent' /\ UseConsistent'
    BY <2>1 DEF IInv, ListConsistent, UseConsistent
  <2> QED
    BY <2>2, <2>3, <2>4 DEF IInv
<1> QED
  BY <1>1, <1>2, <1>3, <1>4, <1>5, <1>6, <1>7, <1>8, <1>9, <1>10, <1>11, <1>12, <1>13 DEF Next
-----------------------------------------------------------------------------
(* What a request under way has been told and remembers (api.go).          *)
THEOREM Invariance == Spec => []IInv
  BY InvInit, InvStep, PTL DEF Spec

(* Every variable has its type.                                            *)
THEOREM TypeCorrect == Spec => []TypeOK
<1>1. IInv => TypeOK
  BY DEF IInv
<1> QED
  BY <1>1, Invariance, PTL

(* A handler goes on, or refuses, only with access that was granted, or    *)
(* lacking, while it ran (authorize of api/api.go).                        *)
THEOREM AccessIsJustified == Spec => []AccessJustified
<1>1. IInv => AccessJustified
  <2> SUFFICES ASSUME IInv PROVE AccessJustified
    OBVIOUS
  <2>1. req.pc = "act" => req.kind # "list"
    BY DEF IInv, ListConsistent
  <2> QED
    BY <2>1 DEF IInv, UseConsistent, AccessJustified
<1> QED
  BY <1>1, Invariance, PTL

(* A list shows what could be read and leaves out what could not, at some  *)
(* time while it was made (filterReadableJobs of api/api.go).              *)
THEOREM ListsAreJustified == Spec => []ListJustified
<1>1. IInv => ListJustified
  <2> SUFFICES ASSUME IInv, req.kind = "list", NEW j \in Jobs
               PROVE  /\ j \in req.readable => granted[Project(j)] \cap {ReadOnly, ReadWrite} # {}
                      /\ j \in req.jobs \ (req.todo \cup req.readable)
                           => NoAccess \in granted[Project(j)]
    BY DEF ListJustified
  <2>1. Project(j) \in Projects
    BY ProjectType
  <2>2. j \in req.jobs \ req.todo => req.lvls[Project(j)] \in granted[Project(j)]
    BY <2>1 DEF IInv, ListConsistent
  <2>3. j \in req.jobs \ req.todo => req.lvls[Project(j)] \in AccessLevel
    BY <2>1, RequestFields DEF IInv, ListConsistent
  <2>4. j \in req.readable => j \in req.jobs \ req.todo /\ req.lvls[Project(j)] # NoAccess
    BY DEF IInv, ListConsistent
  <2>5. j \in req.jobs \ (req.todo \cup req.readable) => req.lvls[Project(j)] = NoAccess
    BY DEF IInv, ListConsistent
  <2> QED
    BY <2>2, <2>3, <2>4, <2>5 DEF AccessLevel
<1> QED
  BY <1>1, Invariance, PTL

(* The level of a project is asked for once for a list, so that its jobs   *)
(* are shown all or not at all.                                            *)
THEOREM ProjectsAreWhole == Spec => []WholeProjects
<1>1. IInv => WholeProjects
  BY DEF IInv, ListConsistent, WholeProjects
<1> QED
  BY <1>1, Invariance, PTL
=============================================================================
