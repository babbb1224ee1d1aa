-------------------------- MODULE AccountsProofs --------------------------
(***************************************************************************)
(* Theorems about Accounts for any sessions, requests and bounds: how many *)
(* requests one refresh token and one reset code serve when requests       *)
(* overlap, and that a new password leaves no session of the old one.      *)
(***************************************************************************)
EXTENDS Accounts, FiniteSetTheorems, TLAPS

Steps == {"idle", "register", "login", "rotate", "logout", "issue", "clear", "count", "set"}

(* What a request relies on between its reads and its writes.              *)
Sound(j) ==
    /\ j.pc \notin {"idle", "register"} => accounts = 1
    /\ j.pc = "login" =>
          /\ j.id \in Sessions
          /\ j.read \in 0..password
          /\ j.read = password \/ j.stale
    /\ j.pc = "rotate" =>
          /\ j.id \in Sessions
          /\ j.read \in 1..tokens
          /\ \A s \in Sessions \ {j.id} : session[s].token # j.read
    /\ j.pc = "logout" => j.id \in Sessions
    /\ j.pc = "count" => j.id \in 1..codes

JobInv == \A h \in Handlers : Sound(job[h])

(* A token is held by one session, and by none once it was exchanged.      *)
SessionInv ==
    /\ accounts = 0 => password = 0 /\ \A s \in Sessions : session[s].status = "free"
    /\ \A s \in Sessions :
          /\ session[s].status # "free" => session[s].token > 0
          /\ session[s].token > 0 => spent[session[s].token] = 0
    /\ \A r, s \in Sessions :
          session[r].token = session[s].token /\ session[r].token > 0 => r = s

(* The requests that are about to exchange a token count with those that   *)
(* have.                                                                   *)
Rotating(t) == {h \in Handlers : job[h].pc = "rotate" /\ job[h].read = t}

SpentInv ==
    \A t \in 1..MaxTokens :
        /\ t > tokens => spent[t] = 0
        /\ spent[t] + Cardinality(Rotating(t)) <= Cardinality(Handlers)

(* Those that are about to count a failure count with the failures, and    *)
(* the counter in the row is never behind those of its code.               *)
Counting(c) == {h \in Handlers : job[h].pc = "count" /\ job[h].id = c}

GuessInv ==
    \A c \in 1..MaxCodes :
        /\ c > codes => guesses[c] = 0
        /\ reset.code = c => guesses[c] <= reset.attempts
        /\ guesses[c] + Cardinality(Counting(c)) < MaxAttempts + Cardinality(Handlers)

(* The bounds leave room for what is under way.                            *)
BudgetInv ==
    /\ tokens + Doing({"login", "rotate"}) <= MaxTokens
    /\ codes + Doing({"issue"}) <= MaxCodes
    /\ password + Doing({"set"}) <= MaxPasswords

IInv ==
    /\ TypeOK
    /\ JobInv
    /\ SessionInv
    /\ OldPasswordOpensNothingLater
    /\ SpentInv
    /\ GuessInv
    /\ BudgetInv

-----------------------------------------------------------------------------
(* Counting requests.                                                      *)
LEMMA SubsetCounts ==
  ASSUME NEW A \in SUBSET Handlers
  PROVE  /\ IsFiniteSet(A)
         /\ Cardinality(A) \in Nat
         /\ Cardinality(Handlers) \in Nat
         /\ Cardinality(A) <= Cardinality(Handlers)
BY ConstantsAssumption, FS_Subset, FS_CardinalityType

LEMMA Fewer ==
  ASSUME NEW A \in SUBSET Handlers, NEW B \in SUBSET A
  PROVE  Cardinality(B) \in Nat /\ Cardinality(B) <= Cardinality(A)
BY SubsetCounts, FS_Subset, FS_CardinalityType

LEMMA OneLess ==
  ASSUME NEW A \in SUBSET Handlers, NEW h \in A, NEW B \in SUBSET (A \ {h})
  PROVE  Cardinality(B) \in Nat /\ Cardinality(B) <= Cardinality(A) - 1
<1>1. IsFiniteSet(A)
  BY SubsetCounts
<1>2. IsFiniteSet(A \ {h}) /\ Cardinality(A \ {h}) = Cardinality(A) - 1
  BY <1>1, FS_RemoveElement
<1>3. IsFiniteSet(B) /\ Cardinality(B) <= Cardinality(A \ {h})
  BY <1>2, FS_Subset
<1>. QED
  BY <1>2, <1>3, FS_CardinalityType

LEMMA OneMore ==
  ASSUME NEW A \in SUBSET Handlers, NEW h \in Handlers, NEW B \in SUBSET (A \cup {h})
  PROVE  Cardinality(B) \in Nat /\ Cardinality(B) <= Cardinality(A) + 1
<1>1. IsFiniteSet(A) /\ Cardinality(A) \in Nat
  BY SubsetCounts
<1>2. /\ IsFiniteSet(A \cup {h}) /\ Cardinality(A \cup {h}) \in Nat
      /\ Cardinality(A \cup {h}) <= Cardinality(A) + 1
  <2>1. IsFiniteSet(A \cup {h})
        /\ Cardinality(A \cup {h}) = IF h \in A THEN Cardinality(A) ELSE Cardinality(A) + 1
    BY <1>1, FS_AddElement
  <2>. QED
    BY <1>1, <2>1
<1>3. IsFiniteSet(B) /\ Cardinality(B) <= Cardinality(A \cup {h})
  BY <1>2, FS_Subset
<1>. QED
  BY <1>1, <1>2, <1>3, FS_CardinalityType

In(steps) == {h \in Handlers : job[h].pc \in steps}

LEMMA DoingCounts ==
  ASSUME NEW steps
  PROVE  In(steps) \in SUBSET Handlers /\ Doing(steps) = Cardinality(In(steps))
            /\ Doing(steps) \in Nat
BY SubsetCounts DEF In, Doing

-----------------------------------------------------------------------------
(* The end of a request: it counts no more, and the others go on.          *)
Settles(h) ==
    /\ job'[h] = Idle
    /\ \A g \in Handlers \ {h} :
          /\ job'[g].pc = job[g].pc
          /\ job'[g].id = job[g].id
          /\ job'[g].read = job[g].read

LEMMA EndSettles ==
  ASSUME TypeOK, NEW h \in Handlers, End(h)
  PROVE  Settles(h)
BY DEF TypeOK, End, Settles

LEMMA SettledCounts ==
  ASSUME NEW h \in Handlers, Settles(h)
  PROVE  /\ \A t : /\ Cardinality(Rotating(t)') \in Nat
                   /\ Cardinality(Rotating(t)') <= Cardinality(Rotating(t))
                   /\ job[h].pc = "rotate" /\ job[h].read = t =>
                         Cardinality(Rotating(t)') <= Cardinality(Rotating(t)) - 1
         /\ \A c : /\ Cardinality(Counting(c)') \in Nat
                   /\ Cardinality(Counting(c)') <= Cardinality(Counting(c))
                   /\ job[h].pc = "count" /\ job[h].id = c =>
                         Cardinality(Counting(c)') <= Cardinality(Counting(c)) - 1
         /\ \A steps : "idle" \notin steps =>
                   /\ Doing(steps)' \in Nat
                   /\ Doing(steps)' <= Doing(steps)
                   /\ job[h].pc \in steps => Doing(steps)' <= Doing(steps) - 1
<1>0. job'[h].pc = "idle"
  BY DEF Settles, Idle
<1>1. ASSUME NEW t
      PROVE  /\ Rotating(t) \in SUBSET Handlers
             /\ Rotating(t)' \in SUBSET Rotating(t)
             /\ job[h].pc = "rotate" /\ job[h].read = t =>
                   h \in Rotating(t) /\ Rotating(t)' \in SUBSET (Rotating(t) \ {h})
  BY <1>0 DEF Settles, Rotating
<1>2. ASSUME NEW c
      PROVE  /\ Counting(c) \in SUBSET Handlers
             /\ Counting(c)' \in SUBSET Counting(c)
             /\ job[h].pc = "count" /\ job[h].id = c =>
                   h \in Counting(c) /\ Counting(c)' \in SUBSET (Counting(c) \ {h})
  BY <1>0 DEF Settles, Counting
<1>3. ASSUME NEW steps, "idle" \notin steps
      PROVE  /\ In(steps) \in SUBSET Handlers
             /\ In(steps)' \in SUBSET In(steps)
             /\ job[h].pc \in steps =>
                   h \in In(steps) /\ In(steps)' \in SUBSET (In(steps) \ {h})
  BY <1>0, <1>3 DEF Settles, In
<1>4. ASSUME NEW t
      PROVE  /\ Cardinality(Rotating(t)') \in Nat
             /\ Cardinality(Rotating(t)') <= Cardinality(Rotating(t))
             /\ job[h].pc = "rotate" /\ job[h].read = t =>
                   Cardinality(Rotating(t)') <= Cardinality(Rotating(t)) - 1
  BY <1>1, Fewer, OneLess
<1>5. ASSUME NEW c
      PROVE  /\ Cardinality(Counting(c)') \in Nat
             /\ Cardinality(Counting(c)') <= Cardinality(Counting(c))
             /\ job[h].pc = "count" /\ job[h].id = c =>
                   Cardinality(Counting(c)') <= Cardinality(Counting(c)) - 1
  BY <1>2, Fewer, OneLess
<1>6. ASSUME NEW steps, "idle" \notin steps
      PROVE  /\ Doing(steps)' \in Nat
             /\ Doing(steps)' <= Doing(steps)
             /\ job[h].pc \in steps => Doing(steps)' <= Doing(steps) - 1
  <2>1. Doing(steps) = Cardinality(In(steps)) /\ Doing(steps)' = Cardinality(In(steps)')
    BY DEF Doing, In
  <2>. QED
    BY <1>3, <1>6, <2>1, Fewer, OneLess
<1>. QED
  BY <1>4, <1>5, <1>6

-----------------------------------------------------------------------------
(* What a request may have read, and the tables, apart from the jobs.      *)
Jobs == [pc : Steps, id : Sessions \cup 0..codes, read : 0..(tokens + password),
         stale : BOOLEAN]

SessionRow == [status : {"free", "live", "expired", "revoked"}, token : 0..tokens,
               password : 0..password, stale : BOOLEAN]

ResetRow == [code : 0..codes, attempts : Nat, age : {"new", "valid", "expired"}]

LEMMA Types ==
  ASSUME TypeOK
  PROVE  /\ accounts \in {0, 1} /\ password \in Nat /\ tokens \in Nat /\ codes \in Nat
         /\ tokens <= MaxTokens /\ codes <= MaxCodes /\ password <= MaxPasswords
         /\ MaxTokens \in Nat /\ MaxCodes \in Nat /\ MaxPasswords \in Nat
         /\ session \in [Sessions -> SessionRow]
         /\ reset \in ResetRow
         /\ job \in [Handlers -> Jobs]
         /\ spent \in [1..MaxTokens -> Nat]
         /\ guesses \in [1..MaxCodes -> Nat]
<1>1. MaxTokens \in Nat /\ MaxCodes \in Nat /\ MaxPasswords \in Nat
  BY ConstantsAssumption
<1>2. /\ session \in [Sessions -> SessionRow] /\ reset \in ResetRow
      /\ job \in [Handlers -> Jobs]
  BY DEF TypeOK, SessionRow, ResetRow, Jobs, Steps
<1>. QED
  BY <1>1, <1>2 DEF TypeOK

(* The rows and counts a step writes, while requests under way stay sound. *)
Steady ==
    /\ accounts' \in {0, 1} /\ (accounts = 1 => accounts' = 1)
    /\ password' \in Nat /\ password <= password' /\ (password' = password \/ accounts = 0)
    /\ tokens' \in Nat /\ tokens <= tokens'
    /\ codes' \in Nat /\ codes <= codes'
    /\ \A s \in Sessions : session'[s].token \in {session[s].token, tokens + 1}

LEMMA RangeGrows ==
  ASSUME NEW a \in Nat, NEW b \in Nat, NEW c \in Nat, NEW d \in Nat, a <= c, b <= d
  PROVE  \A i \in 0..(a + b) : i \in 0..(c + d)
OBVIOUS

LEMMA JobTypesStay ==
  ASSUME TypeOK, password' \in Nat, password <= password', tokens' \in Nat, tokens <= tokens',
         codes' \in Nat, codes <= codes', NEW j \in Jobs
  PROVE  (j \in Jobs)'
<1>1. password \in Nat /\ tokens \in Nat /\ codes \in Nat
  BY Types
<1>2. \A i \in 0..codes : i \in 0..codes'
  BY <1>1
<1>3. \A i \in 0..(tokens + password) : i \in 0..(tokens' + password')
  BY <1>1, RangeGrows
<1>. QED
  BY <1>2, <1>3 DEF Jobs

LEMMA SoundStays ==
  ASSUME TypeOK, Steady, NEW j \in Jobs, Sound(j)
  PROVE  (j \in Jobs /\ Sound(j))'
<1>1. accounts \in {0, 1} /\ password \in Nat /\ tokens \in Nat /\ codes \in Nat
  BY Types
<1>2. (j \in Jobs)'
  BY JobTypesStay DEF Steady
<1>3. j.pc \notin {"idle", "register"} => accounts' = 1
  BY DEF Sound, Steady
<1>4. j.pc = "login" =>
          /\ j.id \in Sessions
          /\ j.read \in 0..password'
          /\ j.read = password' \/ j.stale
  BY <1>1 DEF Sound, Steady
<1>5. j.pc = "rotate" => j.id \in Sessions /\ j.read \in 1..tokens'
  BY <1>1 DEF Sound, Steady
<1>6. j.pc = "rotate" => \A s \in Sessions \ {j.id} : session'[s].token # j.read
  <2>. SUFFICES ASSUME j.pc = "rotate", NEW s \in Sessions \ {j.id}
                PROVE  session'[s].token # j.read
    OBVIOUS
  <2>1. j.read \in 1..tokens /\ session[s].token # j.read
    BY DEF Sound
  <2>2. session'[s].token \in {session[s].token, tokens + 1}
    BY DEF Steady
  <2>. QED
    BY <1>1, <2>1, <2>2
<1>7. j.pc = "count" => j.id \in 1..codes'
  BY <1>1 DEF Sound, Steady
<1>8. j.pc = "logout" => j.id \in Sessions
  BY DEF Sound
<1>. QED
  BY <1>2, <1>3, <1>4, <1>5, <1>6, <1>7, <1>8 DEF Sound

LEMMA IdleSound ==
  ASSUME TypeOK
  PROVE  Idle \in Jobs /\ Sound(Idle) /\ Idle.pc = "idle"
<1>1. codes \in Nat /\ tokens \in Nat /\ password \in Nat
  BY Types
<1>. QED
  BY <1>1 DEF Idle, Jobs, Sound, Steps

(* What requests begin with is in range.                                   *)
LEMMA Ranges ==
  ASSUME TypeOK
  PROVE  /\ 0 \in 0..codes
         /\ 0 \in 0..(tokens + password)
         /\ password \in 0..(tokens + password)
         /\ \A t \in 0..tokens : t \in 0..(tokens + password)
BY Types

(* A request that ends leaves the others sound.                            *)
LEMMA EndJobs ==
  ASSUME TypeOK, JobInv, Steady, NEW h \in Handlers, End(h)
  PROVE  (job \in [Handlers -> Jobs])' /\ JobInv'
<1>1. job \in [Handlers -> Jobs]
  BY Types
<1>2. ASSUME NEW g \in Handlers
      PROVE  (job[g] \in Jobs /\ Sound(job[g]))'
  <2>1. PICK j \in Jobs : j = job'[g] /\ Sound(j)
    BY <1>1, IdleSound DEF End, JobInv
  <2>2. (j \in Jobs /\ Sound(j))'
    BY <2>1, SoundStays
  <2>. QED
    BY <2>1, <2>2 DEF Sound
<1>3. job' = [g \in Handlers |-> job'[g]]
  BY <1>1 DEF End
<1>. QED
  BY <1>2, <1>3 DEF JobInv

LEMMA SameJobs ==
  ASSUME TypeOK, JobInv, Steady, UNCHANGED job
  PROVE  (job \in [Handlers -> Jobs])' /\ JobInv'
<1>1. job \in [Handlers -> Jobs]
  BY Types
<1>2. ASSUME NEW g \in Handlers
      PROVE  (job[g] \in Jobs /\ Sound(job[g]))'
  <2>1. PICK j \in Jobs : j = job'[g] /\ Sound(j)
    BY <1>1 DEF JobInv
  <2>2. (j \in Jobs /\ Sound(j))'
    BY <2>1, SoundStays
  <2>. QED
    BY <2>1, <2>2 DEF Sound
<1>3. job' = [g \in Handlers |-> job'[g]]
  BY <1>1
<1>. QED
  BY <1>2, <1>3 DEF JobInv

-----------------------------------------------------------------------------
(* A request that begins writes nothing but what it has read.              *)
Begins(h, next) ==
    /\ job[h].pc = "idle"
    /\ job' = [job EXCEPT ![h] = next]
    /\ next \in Jobs
    /\ Sound(next)
    /\ UNCHANGED <<account, tokens, codes, ghosts>>
    /\ next.pc \in {"login", "rotate"} => Doing({"login", "rotate"}) + tokens < MaxTokens
    /\ next.pc = "issue" => Doing({"issue"}) + codes < MaxCodes
    /\ next.pc = "set" => Doing({"set"}) + password < MaxPasswords
    /\ next.pc = "rotate" => next.read \in 1..MaxTokens /\ spent[next.read] = 0
    /\ next.pc = "count" => next.id = reset.code /\ reset.attempts < MaxAttempts

LEMMA RegisterBegins ==
  ASSUME IInv, NEW h \in Handlers, StartRegister(h)
  PROVE  \E next \in Jobs : Begins(h, next)
<1>. DEFINE next == [Idle EXCEPT !.pc = "register"]
<1>1. codes \in Nat /\ tokens \in Nat /\ password \in Nat
  BY Types DEF IInv
<1>2. next \in Jobs /\ next.pc = "register"
  BY <1>1, Ranges DEF IInv, Idle, Jobs, Steps
<1>3. job[h].pc = "idle" /\ job' = [job EXCEPT ![h] = next]
      /\ UNCHANGED <<account, tokens, codes, ghosts>>
  BY DEF StartRegister, Begin
<1>. HIDE DEF next
<1>4. Sound(next)
  BY <1>2 DEF Sound
<1>. QED
  BY <1>2, <1>3, <1>4 DEF Begins

LEMMA LoginBegins ==
  ASSUME IInv, NEW h \in Handlers, NEW s \in Sessions, StartLogin(h, s)
  PROVE  \E next \in Jobs : Begins(h, next)
<1>. DEFINE next == [Idle EXCEPT !.pc = "login", !.id = s, !.read = password]
<1>1. codes \in Nat /\ tokens \in Nat /\ password \in Nat /\ accounts \in {0, 1}
  BY Types DEF IInv
<1>2. next \in Jobs /\ next.pc = "login" /\ next.id = s /\ next.read = password
  BY <1>1, Ranges DEF IInv, Idle, Jobs, Steps
<1>3. job[h].pc = "idle" /\ job' = [job EXCEPT ![h] = next]
      /\ UNCHANGED <<account, tokens, codes, ghosts>>
      /\ accounts > 0 /\ Doing({"login", "rotate"}) + tokens < MaxTokens
  BY DEF StartLogin, Begin
<1>. HIDE DEF next
<1>4. Sound(next)
  BY <1>1, <1>2, <1>3 DEF Sound
<1>. QED
  BY <1>2, <1>3, <1>4 DEF Begins

LEMMA RefreshBegins ==
  ASSUME IInv, NEW h \in Handlers, NEW s \in Sessions, StartRefresh(h, s)
  PROVE  \E next \in Jobs : Begins(h, next)
<1>. DEFINE next == [Idle EXCEPT !.pc = "rotate", !.id = s, !.read = session[s].token]
<1>1. /\ codes \in Nat /\ tokens \in Nat /\ password \in Nat /\ accounts \in {0, 1}
      /\ session[s] \in SessionRow /\ tokens <= MaxTokens /\ MaxTokens \in Nat
  BY Types DEF IInv
<1>2. session[s].token \in 0..tokens
  BY <1>1 DEF SessionRow
<1>3. next \in Jobs /\ next.pc = "rotate" /\ next.id = s /\ next.read = session[s].token
  BY <1>1, <1>2, Ranges DEF IInv, Idle, Jobs, Steps
<1>4. job[h].pc = "idle" /\ job' = [job EXCEPT ![h] = next]
      /\ UNCHANGED <<account, tokens, codes, ghosts>>
      /\ session[s].status = "live" /\ Doing({"login", "rotate"}) + tokens < MaxTokens
  BY DEF StartRefresh, Begin
<1>5. session[s].token > 0 /\ spent[session[s].token] = 0 /\ accounts = 1
  BY <1>1, <1>4 DEF IInv, SessionInv
<1>6. session[s].token \in 1..tokens
  BY <1>1, <1>2, <1>5
<1>7. \A r \in Sessions \ {s} : session[r].token # session[s].token
  BY <1>5 DEF IInv, SessionInv
<1>. HIDE DEF next
<1>8. Sound(next)
  BY <1>3, <1>5, <1>6, <1>7 DEF Sound
<1>9. next.read \in 1..MaxTokens
  BY <1>1, <1>3, <1>6
<1>. QED
  BY <1>3, <1>4, <1>5, <1>8, <1>9 DEF Begins

LEMMA LogoutBegins ==
  ASSUME IInv, NEW h \in Handlers, NEW s \in Sessions, StartLogout(h, s)
  PROVE  \E next \in Jobs : Begins(h, next)
<1>. DEFINE next == [Idle EXCEPT !.pc = "logout", !.id = s]
<1>1. codes \in Nat /\ tokens \in Nat /\ password \in Nat /\ accounts \in {0, 1}
  BY Types DEF IInv
<1>2. next \in Jobs /\ next.pc = "logout" /\ next.id = s
  BY <1>1, Ranges DEF IInv, Idle, Jobs, Steps
<1>3. job[h].pc = "idle" /\ job' = [job EXCEPT ![h] = next]
      /\ UNCHANGED <<account, tokens, codes, ghosts>>
  BY DEF StartLogout, Begin
<1>4. accounts = 1
  BY <1>1 DEF StartLogout, Authenticated, IInv, SessionInv
<1>. HIDE DEF next
<1>5. Sound(next)
  BY <1>2, <1>4 DEF Sound
<1>. QED
  BY <1>2, <1>3, <1>5 DEF Begins

LEMMA ForgotBegins ==
  ASSUME IInv, NEW h \in Handlers, StartForgot(h)
  PROVE  \E next \in Jobs : Begins(h, next)
<1>. DEFINE next == [Idle EXCEPT !.pc = "issue"]
<1>1. codes \in Nat /\ tokens \in Nat /\ password \in Nat /\ accounts \in {0, 1}
  BY Types DEF IInv
<1>2. next \in Jobs /\ next.pc = "issue"
  BY <1>1, Ranges DEF IInv, Idle, Jobs, Steps
<1>3. job[h].pc = "idle" /\ job' = [job EXCEPT ![h] = next]
      /\ UNCHANGED <<account, tokens, codes, ghosts>>
      /\ accounts = 1 /\ Doing({"issue"}) + codes < MaxCodes
  BY <1>1 DEF StartForgot, Begin, UserFound
<1>. HIDE DEF next
<1>4. Sound(next)
  BY <1>2, <1>3 DEF Sound
<1>. QED
  BY <1>2, <1>3, <1>4 DEF Begins

LEMMA ResetBegins ==
  ASSUME IInv, NEW h \in Handlers, NEW right \in BOOLEAN, StartReset(h, right)
  PROVE  \E next \in Jobs : Begins(h, next)
<1>. DEFINE next == [Idle EXCEPT !.pc = ResetOutcome(right), !.id = reset.code]
<1>1. /\ codes \in Nat /\ tokens \in Nat /\ password \in Nat /\ accounts \in {0, 1}
      /\ reset \in ResetRow /\ MaxAttempts \in Nat
  BY Types, ConstantsAssumption DEF IInv
<1>2. reset.code \in 0..codes /\ reset.attempts \in Nat
  BY <1>1 DEF ResetRow
<1>3. /\ ResetOutcome(right) \in {"clear", "set", "count"}
      /\ ResetOutcome(right) = "set" => right
      /\ ResetOutcome(right) = "count" => reset.attempts < MaxAttempts
  BY <1>1, <1>2 DEF ResetOutcome
<1>4. next \in Jobs /\ next.pc = ResetOutcome(right) /\ next.id = reset.code
  BY <1>1, <1>2, <1>3, Ranges DEF IInv, Idle, Jobs, Steps
<1>5. job[h].pc = "idle" /\ job' = [job EXCEPT ![h] = next]
      /\ UNCHANGED <<account, tokens, codes, ghosts>>
      /\ accounts = 1 /\ reset.code # 0
      /\ (right => password + Doing({"set"}) < MaxPasswords)
  BY <1>1 DEF StartReset, Begin, UserFound
<1>. HIDE DEF next
<1>6. reset.code \in 1..codes
  BY <1>1, <1>2, <1>5
<1>7. Sound(next)
  BY <1>3, <1>4, <1>5, <1>6 DEF Sound
<1>8. next.pc = "set" => Doing({"set"}) + password < MaxPasswords
  BY <1>1, <1>3, <1>4, <1>5, DoingCounts
<1>. QED
  BY <1>3, <1>4, <1>5, <1>7, <1>8 DEF Begins

LEMMA StartBegins ==
  ASSUME IInv, NEW h \in Handlers, Start(h)
  PROVE  \E next \in Jobs : Begins(h, next)
BY RegisterBegins, LoginBegins, RefreshBegins, LogoutBegins, ForgotBegins, ResetBegins DEF Start

-----------------------------------------------------------------------------
(* What was typed stays typed while the numbers grow.                      *)
LEMMA RowsStay ==
  ASSUME TypeOK, password' \in Nat, password <= password', tokens' \in Nat, tokens <= tokens',
         codes' \in Nat, codes <= codes'
  PROVE  /\ \A row \in SessionRow : (row \in SessionRow)'
         /\ \A row \in ResetRow : (row \in ResetRow)'
<1>1. password \in Nat /\ tokens \in Nat /\ codes \in Nat
  BY Types
<1>2. \A i \in 0..tokens : i \in 0..tokens'
  BY <1>1
<1>3. \A i \in 0..password : i \in 0..password'
  BY <1>1
<1>4. \A i \in 0..codes : i \in 0..codes'
  BY <1>1
<1>5. \A row \in SessionRow : (row \in SessionRow)'
  BY <1>2, <1>3 DEF SessionRow
<1>6. \A row \in ResetRow : (row \in ResetRow)'
  BY <1>4 DEF ResetRow
<1>. QED
  BY <1>5, <1>6

LEMMA TypesAgain ==
  ASSUME accounts' \in {0, 1}, password' \in 0..MaxPasswords, tokens' \in 0..MaxTokens,
         codes' \in 0..MaxCodes, (session \in [Sessions -> SessionRow])',
         (reset \in ResetRow)', (job \in [Handlers -> Jobs])',
         spent' \in [1..MaxTokens -> Nat], guesses' \in [1..MaxCodes -> Nat]
  PROVE  TypeOK'
BY DEF TypeOK, SessionRow, ResetRow, Jobs, Steps

(* Nobody begins anything: the counts of the requests under way fall.      *)
CountsFall ==
    /\ \A t : /\ Cardinality(Rotating(t)') \in Nat
              /\ Cardinality(Rotating(t)') <= Cardinality(Rotating(t))
    /\ \A c : /\ Cardinality(Counting(c)') \in Nat
              /\ Cardinality(Counting(c)') <= Cardinality(Counting(c))
    /\ \A steps : "idle" \notin steps => Doing(steps)' \in Nat /\ Doing(steps)' <= Doing(steps)

LEMMA CountTypes ==
  /\ \A t : Cardinality(Rotating(t)) \in Nat /\ Cardinality(Rotating(t)) <= Cardinality(Handlers)
  /\ \A c : Cardinality(Counting(c)) \in Nat /\ Cardinality(Counting(c)) <= Cardinality(Handlers)
  /\ \A steps : Doing(steps) \in Nat
  /\ Cardinality(Handlers) \in Nat
<1>1. \A t : Rotating(t) \in SUBSET Handlers
  BY DEF Rotating
<1>2. \A c : Counting(c) \in SUBSET Handlers
  BY DEF Counting
<1>. QED
  BY <1>1, <1>2, SubsetCounts, DoingCounts

LEMMA SettledFall ==
  ASSUME NEW h \in Handlers, Settles(h)
  PROVE  CountsFall
BY SettledCounts DEF CountsFall

LEMMA SameFall ==
  ASSUME UNCHANGED job
  PROVE  CountsFall
<1>1. ASSUME NEW t
      PROVE  Rotating(t)' = Rotating(t)
  BY DEF Rotating
<1>2. ASSUME NEW c
      PROVE  Counting(c)' = Counting(c)
  BY DEF Counting
<1>3. ASSUME NEW steps
      PROVE  Doing(steps)' = Doing(steps)
  BY DEF Doing
<1>. QED
  BY <1>1, <1>2, <1>3, CountTypes DEF CountsFall

LEMMA SpentStays ==
  ASSUME IInv, CountsFall, UNCHANGED spent, tokens' \in Nat, tokens <= tokens'
  PROVE  SpentInv'
<1>. SUFFICES ASSUME NEW t \in 1..MaxTokens
     PROVE  /\ t > tokens' => spent[t] = 0
            /\ spent[t] + Cardinality(Rotating(t)') <= Cardinality(Handlers)
  BY DEF SpentInv
<1>1. /\ tokens \in Nat /\ t \in Nat /\ spent[t] \in Nat
  BY Types DEF IInv
<1>2. /\ t > tokens => spent[t] = 0
      /\ spent[t] + Cardinality(Rotating(t)) <= Cardinality(Handlers)
  BY DEF IInv, SpentInv
<1>3. /\ Cardinality(Rotating(t)) \in Nat /\ Cardinality(Handlers) \in Nat
      /\ Cardinality(Rotating(t)') \in Nat
      /\ Cardinality(Rotating(t)') <= Cardinality(Rotating(t))
  BY CountTypes DEF CountsFall
<1>. QED
  BY <1>1, <1>2, <1>3

LEMMA GuessesStay ==
  ASSUME IInv, CountsFall, UNCHANGED guesses, codes' \in Nat, codes <= codes',
         \/ reset'.code = reset.code /\ reset'.attempts = reset.attempts
         \/ reset'.code = 0
         \/ reset'.code > codes /\ reset'.attempts = 0
  PROVE  GuessInv'
<1>. SUFFICES ASSUME NEW c \in 1..MaxCodes
     PROVE  /\ c > codes' => guesses[c] = 0
            /\ reset'.code = c => guesses[c] <= reset'.attempts
            /\ guesses[c] + Cardinality(Counting(c)') < MaxAttempts + Cardinality(Handlers)
  BY DEF GuessInv
<1>0. MaxAttempts \in Nat
  BY ConstantsAssumption
<1>1. codes \in Nat /\ c \in Nat /\ c # 0 /\ guesses[c] \in Nat
  BY Types DEF IInv
<1>2. /\ c > codes => guesses[c] = 0
      /\ reset.code = c => guesses[c] <= reset.attempts
      /\ guesses[c] + Cardinality(Counting(c)) < MaxAttempts + Cardinality(Handlers)
  BY DEF IInv, GuessInv
<1>3. /\ Cardinality(Counting(c)) \in Nat /\ Cardinality(Handlers) \in Nat
      /\ Cardinality(Counting(c)') \in Nat
      /\ Cardinality(Counting(c)') <= Cardinality(Counting(c))
  BY CountTypes DEF CountsFall
<1>4. c > codes' => guesses[c] = 0
  BY <1>1, <1>2
<1>5. reset'.code = c => guesses[c] <= reset'.attempts
  BY <1>1, <1>2
<1>6. guesses[c] + Cardinality(Counting(c)') < MaxAttempts + Cardinality(Handlers)
  BY <1>0, <1>1, <1>2, <1>3
<1>. QED
  BY <1>4, <1>5, <1>6

LEMMA BudgetStays ==
  ASSUME IInv, CountsFall, UNCHANGED <<tokens, codes, password>>
  PROVE  BudgetInv'
<1>1. tokens \in Nat /\ codes \in Nat /\ password \in Nat
      /\ MaxTokens \in Nat /\ MaxCodes \in Nat /\ MaxPasswords \in Nat
  BY Types DEF IInv
<1>2. \A steps \in {{"login", "rotate"}, {"issue"}, {"set"}} :
         Doing(steps) \in Nat /\ Doing(steps)' \in Nat /\ Doing(steps)' <= Doing(steps)
  BY CountTypes DEF CountsFall
<1>. QED
  BY <1>1, <1>2 DEF IInv, BudgetInv

-----------------------------------------------------------------------------
LEMMA BeginCounts ==
  ASSUME IInv, NEW h \in Handlers, NEW next \in Jobs, Begins(h, next)
  PROVE  SpentInv' /\ GuessInv' /\ BudgetInv'
<1>1. job'[h] = next /\ \A g \in Handlers \ {h} : job'[g] = job[g]
  BY Types DEF IInv, Begins
<1>2. UNCHANGED <<password, reset, tokens, codes, spent, guesses>>
  BY DEF Begins, account, ghosts
<1>3. SpentInv'
  <2>. SUFFICES ASSUME NEW t \in 1..MaxTokens
       PROVE  spent[t] + Cardinality(Rotating(t)') <= Cardinality(Handlers)
    BY <1>2 DEF IInv, SpentInv
  <2>1. /\ spent[t] \in Nat /\ spent[t] + Cardinality(Rotating(t)) <= Cardinality(Handlers)
        /\ Cardinality(Rotating(t)) \in Nat
    BY Types, CountTypes DEF IInv, SpentInv
  <2>2. Rotating(t) \in SUBSET Handlers /\ Rotating(t)' \in SUBSET Handlers
    BY DEF Rotating
  <2>3. Cardinality(Rotating(t)') \in Nat /\ Cardinality(Rotating(t)') <= Cardinality(Handlers)
        /\ Cardinality(Handlers) \in Nat
    BY <2>2, SubsetCounts
  <2>4. CASE next.pc = "rotate" /\ next.read = t
    BY <2>3, <2>4 DEF Begins
  <2>5. CASE ~(next.pc = "rotate" /\ next.read = t)
    <3>1. Rotating(t)' \in SUBSET Rotating(t)
      BY <1>1, <2>5 DEF Rotating
    <3>2. Cardinality(Rotating(t)') <= Cardinality(Rotating(t))
      BY <2>2, <3>1, Fewer
    <3>. QED
      BY <2>1, <2>3, <3>2
  <2>. QED
    BY <2>4, <2>5
<1>4. GuessInv'
  <2>. SUFFICES ASSUME NEW c \in 1..MaxCodes
       PROVE  guesses[c] + Cardinality(Counting(c)') < MaxAttempts + Cardinality(Handlers)
    BY <1>2 DEF IInv, GuessInv
  <2>1. /\ guesses[c] \in Nat /\ MaxAttempts \in Nat
        /\ guesses[c] + Cardinality(Counting(c)) < MaxAttempts + Cardinality(Handlers)
        /\ Cardinality(Counting(c)) \in Nat
        /\ reset.code = c => guesses[c] <= reset.attempts
    BY Types, CountTypes, ConstantsAssumption DEF IInv, GuessInv
  <2>2. Counting(c) \in SUBSET Handlers /\ Counting(c)' \in SUBSET Handlers
    BY DEF Counting
  <2>3. Cardinality(Counting(c)') \in Nat /\ Cardinality(Counting(c)') <= Cardinality(Handlers)
        /\ Cardinality(Handlers) \in Nat
    BY <2>2, SubsetCounts
  <2>4. CASE next.pc = "count" /\ next.id = c
    <3>1. reset.attempts \in Nat /\ reset.attempts < MaxAttempts /\ reset.code = c
      BY <2>4, Types DEF IInv, ResetRow, Begins
    <3>. QED
      BY <2>1, <2>3, <3>1
  <2>5. CASE ~(next.pc = "count" /\ next.id = c)
    <3>1. Counting(c)' \in SUBSET Counting(c)
      BY <1>1, <2>5 DEF Counting
    <3>2. Cardinality(Counting(c)') <= Cardinality(Counting(c))
      BY <2>2, <3>1, Fewer
    <3>. QED
      BY <2>1, <2>3, <3>2
  <2>. QED
    BY <2>4, <2>5
<1>5. BudgetInv'
  <2>1. ASSUME NEW steps, NEW n \in Nat, NEW max \in Nat, n + Doing(steps) <= max,
               next.pc \in steps => Doing(steps) + n < max
        PROVE  n + Doing(steps)' <= max
    <3>1. /\ In(steps) \in SUBSET Handlers
          /\ Doing(steps) = Cardinality(In(steps)) /\ Doing(steps) \in Nat
          /\ Doing(steps)' = Cardinality(In(steps)')
      BY DoingCounts DEF Doing, In
    <3>2. CASE next.pc \in steps
      <4>1. In(steps)' \in SUBSET (In(steps) \cup {h})
        BY <1>1 DEF In
      <4>2. Doing(steps)' \in Nat /\ Doing(steps)' <= Doing(steps) + 1
        BY <3>1, <4>1, OneMore
      <4>. QED
        BY <2>1, <3>1, <3>2, <4>2
    <3>3. CASE next.pc \notin steps
      <4>1. In(steps)' \in SUBSET In(steps)
        BY <1>1, <3>3 DEF In
      <4>2. Doing(steps)' \in Nat /\ Doing(steps)' <= Doing(steps)
        BY <3>1, <4>1, Fewer
      <4>. QED
        BY <2>1, <3>1, <4>2
    <3>. QED
      BY <3>2, <3>3
  <2>2. /\ tokens \in Nat /\ codes \in Nat /\ password \in Nat
        /\ MaxTokens \in Nat /\ MaxCodes \in Nat /\ MaxPasswords \in Nat
    BY Types DEF IInv
  <2>3. tokens + Doing({"login", "rotate"})' <= MaxTokens
    BY <2>1, <2>2 DEF IInv, BudgetInv, Begins
  <2>4. codes + Doing({"issue"})' <= MaxCodes
    BY <2>1, <2>2 DEF IInv, BudgetInv, Begins
  <2>5. password + Doing({"set"})' <= MaxPasswords
    BY <2>1, <2>2 DEF IInv, BudgetInv, Begins
  <2>. QED
    BY <1>2, <2>3, <2>4, <2>5 DEF BudgetInv
<1>. QED
  BY <1>3, <1>4, <1>5

-----------------------------------------------------------------------------
LEMMA BeginIInv ==
  ASSUME IInv, NEW h \in Handlers, NEW next \in Jobs, Begins(h, next)
  PROVE  IInv'
<1>1. UNCHANGED <<accounts, password, session, reset, tokens, codes, spent, guesses>>
  BY DEF Begins, account, ghosts
<1>2. job \in [Handlers -> Jobs] /\ Jobs' = Jobs
  BY <1>1, Types DEF IInv, Jobs
<1>3. (job \in [Handlers -> Jobs])'
  BY <1>2 DEF Begins
<1>4. TypeOK'
  BY <1>1, <1>3 DEF IInv, TypeOK, Jobs, Steps
<1>5. JobInv'
  BY <1>1, <1>2 DEF IInv, JobInv, Begins, Sound
<1>6. SessionInv' /\ OldPasswordOpensNothingLater'
  BY <1>1 DEF IInv, SessionInv, OldPasswordOpensNothingLater
<1>. QED
  BY <1>4, <1>5, <1>6, BeginCounts DEF IInv

(* register: there is nothing yet that the first password could disturb.   *)
LEMMA InsertUserIInv ==
  ASSUME IInv, NEW h \in Handlers, InsertUser(h)
  PROVE  IInv'
<1>1. UNCHANGED <<session, reset, tokens, codes, spent, guesses>> /\ End(h)
  BY DEF InsertUser, ghosts
<1>2. /\ accounts \in {0, 1} /\ password \in Nat /\ tokens \in Nat /\ codes \in Nat
      /\ MaxPasswords \in Nat /\ MaxPasswords # 0
  BY Types, ConstantsAssumption DEF IInv
<1>3. accounts = 0 => password = 0 /\ Doing({"set"}) = 0
  <2>1. ASSUME accounts = 0
        PROVE  In({"set"}) = {}
    BY <2>1 DEF IInv, JobInv, Sound, In
  <2>. QED
    BY <2>1, FS_EmptySet, DoingCounts DEF IInv, SessionInv
<1>4. accounts = 1 => UNCHANGED <<accounts, password>>
  BY DEF InsertUser, IsUniqueConflict
<1>5. accounts = 0 => accounts' = 1 /\ password' = 1
  BY DEF InsertUser, IsUniqueConflict
<1>6. Steady
  BY <1>1, <1>2, <1>3, <1>4, <1>5 DEF Steady
<1>7. CountsFall
  BY <1>1, EndSettles, SettledFall DEF IInv
<1>8. JobInv' /\ (job \in [Handlers -> Jobs])'
  BY <1>1, <1>6, EndJobs DEF IInv
<1>9. password' \in 0..MaxPasswords
  <2>1. password \in 0..MaxPasswords
    BY DEF IInv, TypeOK
  <2>. QED
    BY <1>2, <1>4, <1>5, <2>1
<1>10. (session \in [Sessions -> SessionRow])' /\ (reset \in ResetRow)'
  <2>1. password' \in Nat /\ password <= password' /\ tokens' = tokens /\ codes' = codes
    BY <1>1, <1>6 DEF Steady
  <2>. QED
    BY <1>1, <1>2, <2>1, RowsStay, Types DEF IInv
<1>11. TypeOK'
  BY <1>1, <1>6, <1>8, <1>9, <1>10, TypesAgain DEF IInv, TypeOK, Steady
<1>12. SessionInv'
  BY <1>1, <1>2, <1>4, <1>5 DEF IInv, SessionInv
<1>13. OldPasswordOpensNothingLater'
  <2>1. CASE accounts = 0
    BY <1>1, <2>1 DEF IInv, SessionInv, OldPasswordOpensNothingLater
  <2>2. CASE accounts = 1
    BY <1>1, <1>4, <2>2 DEF IInv, OldPasswordOpensNothingLater
  <2>. QED
    BY <1>2, <2>1, <2>2
<1>14. BudgetInv'
  <2>1. CASE accounts = 1
    BY <1>1, <1>4, <1>7, <2>1, BudgetStays
  <2>2. CASE accounts = 0
    <3>1. Doing({"set"})' = 0
      BY <1>3, <1>7, <2>2, CountTypes DEF CountsFall
    <3>2. tokens' + Doing({"login", "rotate"})' <= MaxTokens
      <4>1. /\ Doing({"login", "rotate"})' \in Nat /\ Doing({"login", "rotate"}) \in Nat
            /\ Doing({"login", "rotate"})' <= Doing({"login", "rotate"})
        BY <1>7, CountTypes DEF CountsFall
      <4>2. tokens + Doing({"login", "rotate"}) <= MaxTokens /\ MaxTokens \in Nat
        BY Types DEF IInv, BudgetInv
      <4>. QED
        BY <1>1, <1>2, <4>1, <4>2
    <3>3. codes' + Doing({"issue"})' <= MaxCodes
      <4>1. /\ Doing({"issue"})' \in Nat /\ Doing({"issue"}) \in Nat
            /\ Doing({"issue"})' <= Doing({"issue"})
        BY <1>7, CountTypes DEF CountsFall
      <4>2. codes + Doing({"issue"}) <= MaxCodes /\ MaxCodes \in Nat
        BY Types DEF IInv, BudgetInv
      <4>. QED
        BY <1>1, <1>2, <4>1, <4>2
    <3>. QED
      BY <1>2, <1>5, <2>2, <3>1, <3>2, <3>3 DEF BudgetInv
  <2>. QED
    BY <1>2, <2>1, <2>2
<1>15. SpentInv' /\ GuessInv'
  BY <1>1, <1>2, <1>7, SpentStays, GuessesStay
<1>. QED
  BY <1>8, <1>11, <1>12, <1>13, <1>14, <1>15 DEF IInv

(* Steps that leave the account, its password and all the numbers alone.   *)
Quiet ==
    /\ UNCHANGED <<accounts, password, tokens, codes, spent>>
    /\ UNCHANGED job \/ \E h \in Handlers : End(h)
    /\ (session \in [Sessions -> SessionRow])'
    /\ \A s \in Sessions :
          /\ session'[s].token = session[s].token
          /\ session'[s].password = session[s].password
          /\ session'[s].stale = session[s].stale
          /\ session[s].status \in {"free", "revoked"} =>
                session'[s].status = session[s].status
          /\ session'[s].status = "free" => session[s].status = "free"
    /\ (reset \in ResetRow)'

LEMMA QuietIInv ==
  ASSUME IInv, Quiet, guesses' \in [1..MaxCodes -> Nat], GuessInv'
  PROVE  IInv'
<1>1. /\ accounts \in {0, 1} /\ password \in Nat /\ tokens \in Nat /\ codes \in Nat
  BY Types DEF IInv
<1>2. Steady
  BY <1>1 DEF Quiet, Steady
<1>3. JobInv' /\ (job \in [Handlers -> Jobs])'
  BY <1>2, EndJobs, SameJobs DEF IInv, Quiet
<1>4. CountsFall
  BY EndSettles, SettledFall, SameFall DEF Quiet, IInv
<1>5. TypeOK'
  BY <1>3, TypesAgain DEF Quiet, IInv, TypeOK
<1>6. SessionInv'
  <2>1. accounts' = 0 => password' = 0 /\ \A s \in Sessions : session'[s].status = "free"
    BY DEF IInv, SessionInv, Quiet
  <2>2. \A s \in Sessions :
           /\ session'[s].status # "free" => session'[s].token > 0
           /\ session'[s].token > 0 => spent'[session'[s].token] = 0
    BY DEF IInv, SessionInv, Quiet
  <2>3. \A r, s \in Sessions :
           session'[r].token = session'[s].token /\ session'[r].token > 0 => r = s
    BY DEF IInv, SessionInv, Quiet
  <2>. QED
    BY <2>1, <2>2, <2>3 DEF SessionInv
<1>7. OldPasswordOpensNothingLater'
  <2>. SUFFICES ASSUME NEW s \in Sessions, session'[s].status \in {"live", "expired"}
       PROVE  session'[s].password = password' \/ session'[s].stale
    BY DEF OldPasswordOpensNothingLater
  <2>1. session[s].status \in {"free", "live", "expired", "revoked"}
    BY Types DEF IInv, SessionRow
  <2>2. session[s].status \in {"live", "expired"}
    BY <2>1 DEF Quiet
  <2>. QED
    BY <2>2 DEF IInv, OldPasswordOpensNothingLater, Quiet
<1>8. SpentInv' /\ BudgetInv'
  BY <1>1, <1>4, SpentStays, BudgetStays DEF Quiet
<1>. QED
  BY <1>3, <1>5, <1>6, <1>7, <1>8 DEF IInv

LEMMA QuietSteps ==
  ASSUME IInv,
         \/ \E h \in Handlers : Revoke(h) \/ ClearResetState(h) \/ Fail(h)
         \/ AgeCode
         \/ \E s \in Sessions : ExpireSession(s)
  PROVE  IInv'
<1>0. /\ session \in [Sessions -> SessionRow] /\ reset \in ResetRow
      /\ guesses \in [1..MaxCodes -> Nat] /\ codes \in Nat
  BY Types DEF IInv
<1>1. ASSUME UNCHANGED <<accounts, password, tokens, codes, spent, guesses>>,
             UNCHANGED job \/ \E h \in Handlers : End(h),
             session' \in [Sessions -> SessionRow],
             \A s \in Sessions :
                /\ session'[s].token = session[s].token
                /\ session'[s].password = session[s].password
                /\ session'[s].stale = session[s].stale
                /\ session[s].status \in {"free", "revoked"} =>
                      session'[s].status = session[s].status
                /\ session'[s].status = "free" => session[s].status = "free",
             reset' \in ResetRow,
             \/ reset'.code = reset.code /\ reset'.attempts = reset.attempts
             \/ reset'.code = 0
      PROVE  IInv'
  <2>1. Quiet
    BY <1>1 DEF Quiet, SessionRow, ResetRow
  <2>2. CountsFall
    BY <1>1, EndSettles, SettledFall, SameFall DEF IInv
  <2>3. GuessInv'
    BY <1>0, <1>1, <2>2, GuessesStay
  <2>. QED
    BY <1>0, <1>1, <2>1, <2>3, QuietIInv
<1>2. ASSUME NEW h \in Handlers, Revoke(h)
      PROVE  IInv'
  <2>1. session' = [session EXCEPT ![job[h].id] = Revoked(session[job[h].id])]
    BY <1>2 DEF Revoke
  <2>2. ASSUME NEW row \in SessionRow
        PROVE  /\ Revoked(row) \in SessionRow
               /\ Revoked(row).token = row.token /\ Revoked(row).password = row.password
               /\ Revoked(row).stale = row.stale
               /\ row.status \in {"free", "revoked"} => Revoked(row).status = row.status
               /\ Revoked(row).status = "free" => row.status = "free"
    BY DEF Revoked, SessionRow
  <2>3. \A s \in Sessions : session'[s] \in {session[s], Revoked(session[s])}
    BY <1>0, <2>1
  <2>4. session' \in [Sessions -> SessionRow]
    BY <1>0, <2>1, <2>2
  <2>5. \A s \in Sessions :
                /\ session'[s].token = session[s].token
                /\ session'[s].password = session[s].password
                /\ session'[s].stale = session[s].stale
                /\ session[s].status \in {"free", "revoked"} =>
                      session'[s].status = session[s].status
                /\ session'[s].status = "free" => session[s].status = "free"
    BY <1>0, <2>2, <2>3
  <2>. QED
    BY <1>0, <1>1, <1>2, <2>4, <2>5 DEF Revoke, ghosts
<1>3. ASSUME NEW h \in Handlers, ClearResetState(h)
      PROVE  IInv'
  <2>1. NoCode \in ResetRow /\ NoCode.code = 0
    BY <1>0 DEF NoCode, ResetRow
  <2>. QED
    BY <1>0, <1>1, <1>3, <2>1 DEF ClearResetState, ghosts
<1>4. ASSUME NEW h \in Handlers, Fail(h)
      PROVE  IInv'
  BY <1>0, <1>1, <1>4 DEF Fail, account, ghosts
<1>5. ASSUME AgeCode
      PROVE  IInv'
  <2>1. reset' \in ResetRow /\ reset'.code = reset.code /\ reset'.attempts = reset.attempts
    BY <1>0, <1>5 DEF AgeCode, ResetRow
  <2>. QED
    BY <1>0, <1>1, <1>5, <2>1 DEF AgeCode, ghosts
<1>6. ASSUME NEW s \in Sessions, ExpireSession(s)
      PROVE  IInv'
  <2>1. session' \in [Sessions -> SessionRow]
    <3>1. ASSUME NEW q \in SessionRow
          PROVE  [q EXCEPT !.status = "expired"] \in SessionRow
      BY DEF SessionRow
    <3>. QED
      BY <1>0, <1>6, <3>1 DEF ExpireSession
  <2>2. \A r \in Sessions :
                /\ session'[r].token = session[r].token
                /\ session'[r].password = session[r].password
                /\ session'[r].stale = session[r].stale
                /\ session[r].status \in {"free", "revoked"} =>
                      session'[r].status = session[r].status
                /\ session'[r].status = "free" => session[r].status = "free"
    BY <1>0, <1>6 DEF ExpireSession, SessionRow
  <2>. QED
    BY <1>0, <1>1, <1>6, <2>1, <2>2 DEF ExpireSession, ghosts
<1>. QED
  BY <1>2, <1>3, <1>4, <1>5, <1>6

(* resetPassword, a wrong code: both counters go up if the code is still   *)
(* the one that is stored, and no other code's guesses can outrun them.    *)
LEMMA CountAttemptIInv ==
  ASSUME IInv, NEW h \in Handlers, CountAttempt(h)
  PROVE  IInv'
<1>1. /\ session \in [Sessions -> SessionRow] /\ reset \in ResetRow
      /\ guesses \in [1..MaxCodes -> Nat] /\ codes \in Nat
      /\ MaxCodes \in Nat /\ codes <= MaxCodes
  BY Types DEF IInv
<1>2. /\ End(h) /\ job[h].pc = "count"
      /\ UNCHANGED <<accounts, password, session, tokens, codes, spent>>
      /\ reset' = [reset EXCEPT !.attempts = reset.attempts + 1]
      /\ guesses' = [guesses EXCEPT ![job[h].id] = @ + 1]
  BY DEF CountAttempt, CountedFailure
<1>3. job[h].id \in 1..codes
  BY <1>2 DEF IInv, JobInv, Sound
<1>4. job[h].id \in 1..MaxCodes
  BY <1>1, <1>3
<1>5. /\ reset' \in ResetRow /\ reset'.code = reset.code
      /\ reset.attempts \in Nat /\ reset'.attempts = reset.attempts + 1
  BY <1>1, <1>2 DEF ResetRow
<1>6. /\ guesses' \in [1..MaxCodes -> Nat]
      /\ guesses'[job[h].id] = guesses[job[h].id] + 1
      /\ \A c \in (1..MaxCodes) \ {job[h].id} : guesses'[c] = guesses[c]
  BY <1>1, <1>2, <1>4
<1>7. Quiet
  BY <1>1, <1>2, <1>5 DEF Quiet, SessionRow, ResetRow
<1>8. GuessInv'
  <2>. SUFFICES ASSUME NEW c \in 1..MaxCodes
       PROVE  /\ c > codes => guesses'[c] = 0
              /\ reset.code = c => guesses'[c] <= reset.attempts + 1
              /\ guesses'[c] + Cardinality(Counting(c)') < MaxAttempts + Cardinality(Handlers)
    BY <1>2, <1>5 DEF GuessInv
  <2>0. MaxAttempts \in Nat
    BY ConstantsAssumption
  <2>1. /\ guesses[c] \in Nat /\ c \in Nat
        /\ c > codes => guesses[c] = 0
        /\ reset.code = c => guesses[c] <= reset.attempts
        /\ guesses[c] + Cardinality(Counting(c)) < MaxAttempts + Cardinality(Handlers)
    BY <1>1 DEF IInv, GuessInv
  <2>2. /\ Cardinality(Counting(c)) \in Nat /\ Cardinality(Handlers) \in Nat
        /\ Cardinality(Counting(c)') \in Nat
        /\ Cardinality(Counting(c)') <= Cardinality(Counting(c))
        /\ job[h].id = c => Cardinality(Counting(c)') <= Cardinality(Counting(c)) - 1
    BY <1>2, CountTypes, EndSettles, SettledCounts DEF IInv
  <2>3. CASE job[h].id = c
    <3>1. guesses'[c] = guesses[c] + 1 /\ ~(c > codes)
      BY <1>1, <1>3, <1>6, <2>3
    <3>. QED
      BY <1>5, <2>0, <2>1, <2>2, <2>3, <3>1
  <2>4. CASE job[h].id # c
    <3>1. guesses'[c] = guesses[c]
      BY <1>6, <2>4
    <3>. QED
      BY <1>5, <2>0, <2>1, <2>2, <3>1
  <2>. QED
    BY <2>3, <2>4
<1>. QED
  BY <1>6, <1>7, <1>8, QuietIInv

(* forgotPassword: the new code is one that nobody has guessed at.         *)
LEMMA IssueCodeIInv ==
  ASSUME IInv, NEW h \in Handlers, IssueCode(h)
  PROVE  IInv'
<1>1. /\ End(h) /\ job[h].pc = "issue"
      /\ UNCHANGED <<accounts, password, session, tokens, spent, guesses>>
      /\ codes' = codes + 1
      /\ reset' = [code |-> codes + 1, attempts |-> 0, age |-> "new"]
  BY DEF IssueCode, ghosts
<1>2. /\ accounts \in {0, 1} /\ password \in Nat /\ tokens \in Nat /\ codes \in Nat
      /\ MaxCodes \in Nat /\ codes <= MaxCodes
      /\ session \in [Sessions -> SessionRow]
      /\ MaxTokens \in Nat /\ MaxPasswords \in Nat
  BY Types DEF IInv
<1>3. Settles(h) /\ CountsFall
  BY <1>1, EndSettles, SettledFall DEF IInv
<1>4. Steady
  BY <1>1, <1>2 DEF Steady
<1>5. JobInv' /\ (job \in [Handlers -> Jobs])'
  BY <1>1, <1>4, EndJobs DEF IInv
<1>6. /\ Doing({"issue"}) \in Nat /\ Doing({"issue"})' \in Nat
      /\ Doing({"issue"})' <= Doing({"issue"}) - 1
  BY <1>1, <1>3, SettledCounts, CountTypes
<1>7. BudgetInv'
  <2>1. codes' + Doing({"issue"})' <= MaxCodes
    BY <1>1, <1>2, <1>6 DEF IInv, BudgetInv
  <2>2. /\ Doing({"login", "rotate"}) \in Nat /\ Doing({"login", "rotate"})' \in Nat
        /\ Doing({"login", "rotate"})' <= Doing({"login", "rotate"})
        /\ Doing({"set"}) \in Nat /\ Doing({"set"})' \in Nat
        /\ Doing({"set"})' <= Doing({"set"})
    BY <1>3, CountTypes DEF CountsFall
  <2>3. tokens' + Doing({"login", "rotate"})' <= MaxTokens
    BY <1>1, <1>2, <2>2 DEF IInv, BudgetInv
  <2>4. password' + Doing({"set"})' <= MaxPasswords
    BY <1>1, <1>2, <2>2 DEF IInv, BudgetInv
  <2>. QED
    BY <2>1, <2>3, <2>4 DEF BudgetInv
<1>8. codes' \in 0..MaxCodes
  BY <1>1, <1>2, <1>6, <1>7 DEF BudgetInv
<1>9. (session \in [Sessions -> SessionRow])'
  BY <1>1, <1>2 DEF SessionRow
<1>10. (reset \in ResetRow)' /\ reset'.code = codes + 1 /\ reset'.attempts = 0
  BY <1>1, <1>2 DEF ResetRow
<1>11. TypeOK'
  BY <1>1, <1>5, <1>8, <1>9, <1>10, TypesAgain DEF IInv, TypeOK
<1>12. SessionInv' /\ OldPasswordOpensNothingLater'
  BY <1>1 DEF IInv, SessionInv, OldPasswordOpensNothingLater
<1>13. SpentInv' /\ GuessInv'
  <2>1. reset'.code > codes /\ codes' \in Nat /\ codes <= codes'
    BY <1>1, <1>2, <1>10
  <2>. QED
    BY <1>1, <1>2, <1>3, <1>10, <2>1, SpentStays, GuessesStay
<1>. QED
  BY <1>5, <1>7, <1>11, <1>12, <1>13 DEF IInv

-----------------------------------------------------------------------------
(* login and refresh make a token that no session holds and nobody spent.  *)
LEMMA TokenMade ==
  ASSUME IInv, NEW h \in Handlers, job[h].pc \in {"login", "rotate"}, End(h),
         tokens' = tokens + 1, UNCHANGED <<accounts, password, reset, codes, guesses>>
  PROVE  /\ tokens + 1 \in 1..MaxTokens
         /\ spent[tokens + 1] = 0
         /\ BudgetInv'
         /\ GuessInv'
         /\ accounts = 1
<1>1. /\ accounts \in {0, 1} /\ password \in Nat /\ tokens \in Nat /\ codes \in Nat
      /\ MaxTokens \in Nat /\ tokens <= MaxTokens
      /\ MaxCodes \in Nat /\ MaxPasswords \in Nat
  BY Types DEF IInv
<1>2. Settles(h) /\ CountsFall
  BY EndSettles, SettledFall DEF IInv
<1>3. /\ Doing({"login", "rotate"}) \in Nat /\ Doing({"login", "rotate"})' \in Nat
      /\ Doing({"login", "rotate"})' <= Doing({"login", "rotate"}) - 1
  BY <1>2, SettledCounts, CountTypes
<1>4. tokens + 1 + Doing({"login", "rotate"})' <= MaxTokens
  BY <1>1, <1>3 DEF IInv, BudgetInv
<1>5. tokens + 1 \in 1..MaxTokens
  BY <1>1, <1>3, <1>4
<1>6. spent[tokens + 1] = 0
  BY <1>1, <1>5 DEF IInv, SpentInv
<1>7. BudgetInv'
  <2>1. /\ Doing({"issue"}) \in Nat /\ Doing({"issue"})' \in Nat
        /\ Doing({"issue"})' <= Doing({"issue"})
        /\ Doing({"set"}) \in Nat /\ Doing({"set"})' \in Nat
        /\ Doing({"set"})' <= Doing({"set"})
    BY <1>2, CountTypes DEF CountsFall
  <2>2. codes + Doing({"issue"})' <= MaxCodes
    BY <1>1, <2>1 DEF IInv, BudgetInv
  <2>3. password + Doing({"set"})' <= MaxPasswords
    BY <1>1, <2>1 DEF IInv, BudgetInv
  <2>. QED
    BY <1>4, <2>2, <2>3 DEF BudgetInv
<1>8. GuessInv'
  BY <1>1, <1>2, GuessesStay
<1>9. accounts = 1
  BY DEF IInv, JobInv, Sound
<1>. QED
  BY <1>5, <1>6, <1>7, <1>8, <1>9

(* A session that is given the new token is the only one that has it.      *)
LEMMA TokenGiven ==
  ASSUME IInv, NEW s \in Sessions, NEW row, row.token = tokens + 1,
         accounts = 1, UNCHANGED <<accounts>>, tokens + 1 \in 1..MaxTokens,
         session' = [session EXCEPT ![s] = row],
         spent'[tokens + 1] = 0,
         \A r \in Sessions \ {s} :
            session[r].token > 0 => spent'[session[r].token] = 0
  PROVE  SessionInv'
<1>1. /\ tokens \in Nat /\ session \in [Sessions -> SessionRow]
  BY Types DEF IInv
<1>2. \A r \in Sessions : session[r].token \in 0..tokens
  BY <1>1 DEF SessionRow
<1>3. session'[s] = row /\ \A r \in Sessions \ {s} : session'[r] = session[r]
  BY <1>1
<1>4. \A r \in Sessions \ {s} :
         /\ session[r].token # tokens + 1
         /\ session[r].status # "free" => session[r].token > 0
         /\ session[r].token > 0 => spent'[session[r].token] = 0
  BY <1>1, <1>2 DEF IInv, SessionInv
<1>5. tokens + 1 > 0
  BY <1>1
<1>6. \A r \in Sessions :
          /\ session'[r].status # "free" => session'[r].token > 0
          /\ session'[r].token > 0 => spent'[session'[r].token] = 0
  BY <1>3, <1>4, <1>5
<1>7. \A q, r \in Sessions :
          session'[q].token = session'[r].token /\ session'[q].token > 0 => q = r
  BY <1>3, <1>4 DEF IInv, SessionInv
<1>. QED
  BY <1>6, <1>7 DEF SessionInv

LEMMA InsertSessionIInv ==
  ASSUME IInv, NEW h \in Handlers, InsertSession(h)
  PROVE  IInv'
<1>. DEFINE s == job[h].id
            row == [status |-> "live", token |-> tokens + 1, password |-> job[h].read,
                    stale |-> job[h].stale]
<1>1. /\ job[h].pc = "login" /\ End(h) /\ tokens' = tokens + 1
      /\ session' = [session EXCEPT ![s] = row]
      /\ UNCHANGED <<accounts, password, reset, codes, spent, guesses>>
  BY DEF InsertSession, ghosts
<1>2. /\ tokens + 1 \in 1..MaxTokens /\ spent[tokens + 1] = 0 /\ BudgetInv' /\ GuessInv'
      /\ accounts = 1
  BY <1>1, TokenMade
<1>3. /\ password \in Nat /\ tokens \in Nat /\ codes \in Nat
      /\ session \in [Sessions -> SessionRow] /\ reset \in ResetRow
      /\ job[h] \in Jobs
  BY Types DEF IInv
<1>4. /\ s \in Sessions /\ job[h].read \in 0..password /\ job[h].stale \in BOOLEAN
      /\ job[h].read = password \/ job[h].stale
  BY <1>1, <1>3 DEF IInv, JobInv, Sound, Jobs
<1>5. /\ row.status = "live" /\ row.token = tokens + 1 /\ row.password = job[h].read
      /\ row.stale = job[h].stale
  OBVIOUS
<1>6. row \in [status : {"free", "live", "expired", "revoked"}, token : 0..tokens',
                password : 0..password', stale : BOOLEAN]
  BY <1>1, <1>3, <1>4
<1>. HIDE DEF row
<1>7. Steady
  BY <1>1, <1>2, <1>3, <1>5 DEF Steady
<1>8. JobInv' /\ (job \in [Handlers -> Jobs])'
  BY <1>1, <1>7, EndJobs DEF IInv
<1>9. \A q \in SessionRow : q \in [status : {"free", "live", "expired", "revoked"},
                                    token : 0..tokens', password : 0..password',
                                    stale : BOOLEAN]
  BY <1>1, <1>3 DEF SessionRow
<1>10. session' \in [Sessions -> [status : {"free", "live", "expired", "revoked"},
                                  token : 0..tokens', password : 0..password',
                                  stale : BOOLEAN]]
  BY <1>1, <1>3, <1>4, <1>6, <1>9
<1>11. TypeOK'
  <2>1. tokens' \in 0..MaxTokens
    BY <1>1, <1>2
  <2>2. (reset \in ResetRow)'
    BY <1>1, <1>3 DEF ResetRow
  <2>3. (session \in [Sessions -> SessionRow])'
    BY <1>10 DEF SessionRow
  <2>. QED
    BY <1>1, <1>8, <2>1, <2>2, <2>3, TypesAgain DEF IInv, TypeOK
<1>12. SessionInv'
  <2>1. \A r \in Sessions \ {s} : session[r].token > 0 => spent'[session[r].token] = 0
    BY <1>1 DEF IInv, SessionInv
  <2>. QED
    BY <1>1, <1>2, <1>4, <1>5, <2>1, TokenGiven
<1>13. OldPasswordOpensNothingLater'
  BY <1>1, <1>3, <1>4, <1>5 DEF IInv, OldPasswordOpensNothingLater
<1>14. SpentInv'
  <2>1. CountsFall
    BY <1>1, EndSettles, SettledFall DEF IInv
  <2>. QED
    BY <1>1, <1>3, <2>1, SpentStays
<1>. QED
  BY <1>2, <1>8, <1>11, <1>12, <1>13, <1>14 DEF IInv

(* refresh: the request leaves those that are about to exchange the token  *)
(* when it joins those that have.                                          *)
LEMMA RotateIInv ==
  ASSUME IInv, NEW h \in Handlers, Rotate(h)
  PROVE  IInv'
<1>. DEFINE s == job[h].id
            t == job[h].read
            row == [session[s] EXCEPT !.token = tokens + 1,
                                      !.status = RotatedStatus(session[s].status)]
<1>1. /\ job[h].pc = "rotate" /\ End(h) /\ tokens' = tokens + 1
      /\ spent' = [spent EXCEPT ![t] = spent[t] + 1]
      /\ UNCHANGED <<accounts, password, reset, codes, guesses>>
  BY DEF Rotate
<1>2. /\ tokens + 1 \in 1..MaxTokens /\ spent[tokens + 1] = 0 /\ BudgetInv' /\ GuessInv'
      /\ accounts = 1
  BY <1>1, TokenMade
<1>3. /\ password \in Nat /\ tokens \in Nat /\ codes \in Nat
      /\ session \in [Sessions -> SessionRow] /\ reset \in ResetRow
      /\ spent \in [1..MaxTokens -> Nat] /\ tokens <= MaxTokens /\ MaxTokens \in Nat
  BY Types DEF IInv
<1>4. /\ s \in Sessions /\ t \in 1..tokens
      /\ \A r \in Sessions \ {s} : session[r].token # t
  BY <1>1 DEF IInv, JobInv, Sound
<1>5. session' = [session EXCEPT ![s] = row]
  BY <1>3, <1>4 DEF Rotate, NextToken, SessionRow
<1>6. row \in [status : {"free", "live", "expired", "revoked"}, token : 0..tokens',
                password : 0..password', stale : BOOLEAN]
  <2>1. /\ session[s] \in [status : {"free", "live", "expired", "revoked"}, token : 0..tokens,
                           password : 0..password, stale : BOOLEAN]
    BY <1>3, <1>4 DEF SessionRow
  <2>2. tokens + 1 \in 0..tokens' /\ password' = password
    BY <1>1, <1>3
  <2>3. RotatedStatus(session[s].status) \in {"free", "live", "expired", "revoked"}
    BY <2>1 DEF RotatedStatus
  <2>. QED
    BY <2>1, <2>2, <2>3
<1>7. /\ row.token = tokens + 1 /\ row.password = session[s].password
      /\ row.stale = session[s].stale
      /\ row.status \in {"live", "expired"} => session[s].status \in {"live", "expired"}
  BY <1>3, <1>4 DEF RotatedStatus, SessionRow
<1>. HIDE DEF row
<1>8. Steady
  BY <1>1, <1>2, <1>3, <1>5, <1>7 DEF Steady
<1>9. JobInv' /\ (job \in [Handlers -> Jobs])'
  BY <1>1, <1>8, EndJobs DEF IInv
<1>10. \A q \in SessionRow : q \in [status : {"free", "live", "expired", "revoked"},
                                    token : 0..tokens', password : 0..password',
                                    stale : BOOLEAN]
  BY <1>1, <1>3 DEF SessionRow
<1>11. session' \in [Sessions -> [status : {"free", "live", "expired", "revoked"},
                                  token : 0..tokens', password : 0..password',
                                  stale : BOOLEAN]]
  BY <1>3, <1>4, <1>5, <1>6, <1>10
<1>12. /\ t \in 1..MaxTokens /\ t \in Nat /\ tokens + 1 # t
       /\ spent' \in [1..MaxTokens -> Nat] /\ spent'[t] = spent[t] + 1
       /\ \A q \in (1..MaxTokens) \ {t} : spent'[q] = spent[q]
  BY <1>1, <1>3, <1>4
<1>13. TypeOK'
  <2>1. tokens' \in 0..MaxTokens
    BY <1>1, <1>2
  <2>2. (reset \in ResetRow)'
    BY <1>1, <1>3 DEF ResetRow
  <2>3. (session \in [Sessions -> SessionRow])'
    BY <1>11 DEF SessionRow
  <2>. QED
    BY <1>1, <1>9, <1>12, <2>1, <2>2, <2>3, TypesAgain DEF IInv, TypeOK
<1>14. SessionInv'
  <2>1. ASSUME NEW r \in Sessions \ {s}, session[r].token > 0
        PROVE  spent'[session[r].token] = 0
    <3>1. session[r].token \in 0..tokens
      BY <1>3 DEF SessionRow
    <3>2. session[r].token \in (1..MaxTokens) \ {t}
      BY <1>3, <1>4, <2>1, <3>1
    <3>. QED
      BY <1>12, <2>1, <3>2 DEF IInv, SessionInv
  <2>2. spent'[tokens + 1] = 0
    BY <1>2, <1>12
  <2>. QED
    BY <1>1, <1>2, <1>4, <1>5, <1>7, <2>1, <2>2, TokenGiven
<1>15. OldPasswordOpensNothingLater'
  <2>. SUFFICES ASSUME NEW r \in Sessions, session'[r].status \in {"live", "expired"}
       PROVE  session'[r].password = password \/ session'[r].stale
    BY <1>1 DEF OldPasswordOpensNothingLater
  <2>1. CASE r = s
    BY <1>3, <1>4, <1>5, <1>7, <2>1 DEF IInv, OldPasswordOpensNothingLater
  <2>2. CASE r # s
    BY <1>3, <1>5, <2>2 DEF IInv, OldPasswordOpensNothingLater
  <2>. QED
    BY <2>1, <2>2
<1>16. SpentInv'
  <2>. SUFFICES ASSUME NEW q \in 1..MaxTokens
       PROVE  /\ q > tokens + 1 => spent'[q] = 0
              /\ spent'[q] + Cardinality(Rotating(q)') <= Cardinality(Handlers)
    BY <1>1 DEF SpentInv
  <2>1. /\ spent[q] \in Nat /\ q \in Nat
        /\ q > tokens => spent[q] = 0
        /\ spent[q] + Cardinality(Rotating(q)) <= Cardinality(Handlers)
    BY <1>3 DEF IInv, SpentInv
  <2>2. /\ Cardinality(Rotating(q)) \in Nat /\ Cardinality(Handlers) \in Nat
        /\ Cardinality(Rotating(q)') \in Nat
        /\ Cardinality(Rotating(q)') <= Cardinality(Rotating(q))
        /\ t = q => Cardinality(Rotating(q)') <= Cardinality(Rotating(q)) - 1
    BY <1>1, CountTypes, EndSettles, SettledCounts DEF IInv
  <2>3. CASE t = q
    <3>1. spent'[q] = spent[q] + 1 /\ ~(q > tokens + 1)
      BY <1>3, <1>4, <1>12, <2>3
    <3>. HIDE DEF t
    <3>. QED
      BY <2>1, <2>2, <2>3, <3>1
  <2>4. CASE t # q
    <3>1. spent'[q] = spent[q]
      BY <1>12, <2>4
    <3>. HIDE DEF t
    <3>. QED
      BY <1>3, <2>1, <2>2, <3>1
  <2>. QED
    BY <2>3, <2>4
<1>. QED
  BY <1>2, <1>9, <1>13, <1>14, <1>15, <1>16 DEF IInv

(* resetPassword, the right code: every session is revoked in the          *)
(* transaction that sets the password, and every login under way read the  *)
(* password before.                                                        *)
LEMMA SetPasswordIInv ==
  ASSUME IInv, NEW h \in Handlers, SetPassword(h)
  PROVE  IInv'
<1>1. /\ job[h].pc = "set" /\ password' = password + 1 /\ reset' = NoCode
      /\ session' = [s \in Sessions |-> Revoked(session[s])]
      /\ UNCHANGED <<accounts, tokens, codes, spent, guesses>>
  BY DEF SetPassword, RevokedSessions, ghosts
<1>2. /\ accounts \in {0, 1} /\ password \in Nat /\ tokens \in Nat /\ codes \in Nat
      /\ MaxTokens \in Nat /\ MaxCodes \in Nat /\ MaxPasswords \in Nat
      /\ session \in [Sessions -> SessionRow] /\ job \in [Handlers -> Jobs]
  BY Types DEF IInv
<1>3. accounts = 1
  BY <1>1 DEF IInv, JobInv, Sound
<1>4. /\ DOMAIN job' = Handlers /\ job' = [g \in Handlers |-> job'[g]]
      /\ job'[h] = Idle
      /\ \A g \in Handlers \ {h} :
            /\ job[g].pc = "login" => job'[g] = [job[g] EXCEPT !.stale = TRUE]
            /\ job[g].pc # "login" => job'[g] = job[g]
  BY DEF SetPassword
<1>5. ASSUME NEW g \in Handlers \ {h}
      PROVE  /\ job'[g].pc = job[g].pc /\ job'[g].id = job[g].id
             /\ job'[g].read = job[g].read
             /\ job'[g] \in Jobs
             /\ job[g].pc = "login" => job'[g].stale = TRUE
  <2>1. job[g] \in Jobs
    BY <1>2
  <2>2. CASE job[g].pc = "login"
    BY <1>4, <2>1, <2>2 DEF Jobs
  <2>3. CASE job[g].pc # "login"
    BY <1>4, <2>1, <2>3
  <2>. QED
    BY <2>2, <2>3
<1>6. Settles(h)
  BY <1>4, <1>5 DEF Settles
<1>7. CountsFall
  BY <1>6, SettledFall
<1>8. \A s \in Sessions :
         /\ session'[s].token = session[s].token
         /\ session'[s].status \in {"free", "revoked"}
         /\ session'[s].status # "free" => session[s].status # "free"
         /\ session'[s] \in SessionRow
  BY <1>1, <1>2 DEF Revoked, SessionRow
<1>9. password' \in Nat /\ password <= password'
  BY <1>1, <1>2
<1>10. ASSUME NEW g \in Handlers
       PROVE  (job[g] \in Jobs /\ Sound(job[g]))'
  <2>1. CASE g = h
    <3>1. Idle \in Jobs
      BY IdleSound DEF IInv
    <3>2. (Idle \in Jobs)'
      BY <1>1, <1>2, <1>9, <3>1, JobTypesStay DEF IInv
    <3>3. job'[g].pc = "idle" /\ job'[g] = Idle
      BY <1>4, <2>1 DEF Idle
    <3>4. Sound(job[g])'
      BY <3>3 DEF Sound
    <3>. QED
      BY <3>2, <3>3, <3>4 DEF Idle
  <2>2. CASE g # h
    <3>1. PICK j \in Jobs : j = job'[g]
      BY <1>5, <2>2
    <3>2. (j \in Jobs)'
      BY <1>1, <1>2, <1>9, JobTypesStay DEF IInv
    <3>3. /\ j.pc = job[g].pc /\ j.id = job[g].id /\ j.read = job[g].read
          /\ j.pc = "login" => j.stale = TRUE
      BY <1>5, <2>2, <3>1
    <3>4. Sound(job[g])
      BY DEF IInv, JobInv
    <3>5. j.pc = "login" => j.id \in Sessions /\ j.read \in 0..password' /\ j.stale
      BY <1>1, <1>2, <3>3, <3>4 DEF Sound
    <3>6. j.pc = "rotate" => \A s \in Sessions \ {j.id} : session'[s].token # j.read
      BY <1>8, <3>3, <3>4 DEF Sound
    <3>7. Sound(j)'
      BY <1>1, <1>3, <3>3, <3>4, <3>5, <3>6 DEF Sound
    <3>. QED
      BY <3>1, <3>2, <3>7 DEF Sound
  <2>. QED
    BY <2>1, <2>2
<1>11. JobInv' /\ (job \in [Handlers -> Jobs])'
  BY <1>4, <1>10 DEF JobInv
<1>12. BudgetInv'
  <2>1. /\ Doing({"set"}) \in Nat /\ Doing({"set"})' \in Nat
        /\ Doing({"set"})' <= Doing({"set"}) - 1
    BY <1>1, <1>6, SettledCounts, CountTypes
  <2>2. password' + Doing({"set"})' <= MaxPasswords
    BY <1>1, <1>2, <2>1 DEF IInv, BudgetInv
  <2>3. /\ Doing({"login", "rotate"}) \in Nat /\ Doing({"login", "rotate"})' \in Nat
        /\ Doing({"login", "rotate"})' <= Doing({"login", "rotate"})
        /\ Doing({"issue"}) \in Nat /\ Doing({"issue"})' \in Nat
        /\ Doing({"issue"})' <= Doing({"issue"})
    BY <1>7, CountTypes DEF CountsFall
  <2>4. tokens' + Doing({"login", "rotate"})' <= MaxTokens
    BY <1>1, <1>2, <2>3 DEF IInv, BudgetInv
  <2>5. codes' + Doing({"issue"})' <= MaxCodes
    BY <1>1, <1>2, <2>3 DEF IInv, BudgetInv
  <2>. QED
    BY <2>2, <2>4, <2>5 DEF BudgetInv
<1>13. password' \in 0..MaxPasswords
  <2>1. Doing({"set"})' \in Nat
    BY <1>7 DEF CountsFall
  <2>. QED
    BY <1>1, <1>2, <1>12, <2>1 DEF BudgetInv
<1>14. TypeOK'
  <2>1. (reset \in ResetRow)'
    BY <1>1, <1>2 DEF NoCode, ResetRow
  <2>2. \A s \in Sessions : (session[s] \in SessionRow)'
    BY <1>1, <1>2, <1>8, <1>9, RowsStay DEF IInv
  <2>3. (session \in [Sessions -> SessionRow])'
    <3>1. session' = [s \in Sessions |-> session'[s]]
      BY <1>1
    <3>. QED
      BY <2>2, <3>1
  <2>. QED
    BY <1>1, <1>11, <1>13, <2>1, <2>3, TypesAgain DEF IInv, TypeOK
<1>15. SessionInv'
  BY <1>1, <1>3, <1>8 DEF IInv, SessionInv
<1>16. OldPasswordOpensNothingLater'
  BY <1>8 DEF OldPasswordOpensNothingLater
<1>17. SpentInv' /\ GuessInv'
  <2>1. reset'.code = 0
    BY <1>1 DEF NoCode
  <2>. QED
    BY <1>1, <1>2, <1>7, <2>1, SpentStays, GuessesStay
<1>. QED
  BY <1>11, <1>12, <1>14, <1>15, <1>16, <1>17 DEF IInv

-----------------------------------------------------------------------------
LEMMA InitIInv == Init => IInv
<1>. SUFFICES ASSUME Init PROVE IInv
  OBVIOUS
<1>0. MaxTokens \in Nat /\ MaxCodes \in Nat /\ MaxPasswords \in Nat
      /\ MaxAttempts \in Nat /\ MaxAttempts > 0
  BY ConstantsAssumption
<1>1. TypeOK
  BY <1>0 DEF Init, TypeOK, Idle, NoCode
<1>2. \A h \in Handlers : job[h].pc = "idle"
  BY DEF Init, Idle
<1>3. JobInv
  BY <1>2 DEF JobInv, Sound
<1>4. SessionInv /\ OldPasswordOpensNothingLater
  BY DEF Init, SessionInv, OldPasswordOpensNothingLater
<1>5. /\ \A t : Cardinality(Rotating(t)) = 0
      /\ \A c : Cardinality(Counting(c)) = 0
      /\ \A steps : "idle" \notin steps => Doing(steps) = 0
  <2>1. \A t : Rotating(t) = {}
    BY <1>2 DEF Rotating
  <2>2. \A c : Counting(c) = {}
    BY <1>2 DEF Counting
  <2>3. \A steps : "idle" \notin steps => In(steps) = {}
    BY <1>2 DEF In
  <2>. QED
    BY <2>1, <2>2, <2>3, FS_EmptySet, DoingCounts
<1>6. SpentInv /\ GuessInv
  BY <1>0, <1>5, CountTypes DEF Init, SpentInv, GuessInv, NoCode
<1>7. BudgetInv
  BY <1>0, <1>5 DEF Init, BudgetInv
<1>. QED
  BY <1>1, <1>3, <1>4, <1>6, <1>7 DEF IInv

LEMMA NextIInv == IInv /\ [Next]_vars => IInv'
<1>. SUFFICES ASSUME IInv, [Next]_vars PROVE IInv'
  OBVIOUS
<1>1. ASSUME NEW h \in Handlers, Start(h)
      PROVE  IInv'
  BY <1>1, StartBegins, BeginIInv
<1>2. ASSUME NEW h \in Handlers, Continue(h)
      PROVE  IInv'
  BY <1>2, InsertUserIInv, InsertSessionIInv, RotateIInv, QuietSteps, IssueCodeIInv,
     CountAttemptIInv, SetPasswordIInv DEF Continue
<1>3. CASE UNCHANGED vars
  <2>1. UNCHANGED <<accounts, password, session, reset, job, tokens, codes, spent, guesses>>
    BY <1>3 DEF vars, account, ghosts
  <2>2. TypeOK' /\ JobInv' /\ SessionInv' /\ OldPasswordOpensNothingLater'
    BY <2>1 DEF IInv, TypeOK, JobInv, Sound, SessionInv, OldPasswordOpensNothingLater
  <2>3. CountsFall
    BY <2>1, SameFall
  <2>4. tokens \in Nat /\ codes \in Nat
    BY Types DEF IInv
  <2>. QED
    BY <2>1, <2>2, <2>3, <2>4, SpentStays, GuessesStay, BudgetStays DEF IInv
<1>. QED
  BY <1>1, <1>2, <1>3, QuietSteps DEF Next

LEMMA AlwaysIInv == Spec => []IInv
BY InitIInv, NextIInv, PTL DEF Spec

(* One account at most: the unique index refuses the second registration   *)
(* whatever the look-up saw. The rest names only what was made.            *)
THEOREM TypesHold == Spec => []TypeOK
<1>1. IInv => TypeOK
  BY DEF IInv
<1>. QED
  BY <1>1, AlwaysIInv, PTL

(* resetPassword leaves no session of an older password, but for a login   *)
(* that had verified it before: no rotation brings one back.               *)
THEOREM OldPasswordNeverOpensLater == Spec => []OldPasswordOpensNothingLater
<1>1. IInv => OldPasswordOpensNothingLater
  BY DEF IInv
<1>. QED
  BY <1>1, AlwaysIInv, PTL

(* refresh: no more requests exchange one token than run at once.          *)
THEOREM TokenExchangesAreBounded == Spec => []TokenExchangesBounded
<1>1. IInv => TokenExchangesBounded
  <2>. SUFFICES ASSUME IInv, NEW t \in 1..MaxTokens
       PROVE  spent[t] <= Cardinality(Handlers)
    BY DEF TokenExchangesBounded
  <2>1. spent[t] \in Nat /\ spent[t] + Cardinality(Rotating(t)) <= Cardinality(Handlers)
    BY Types DEF IInv, SpentInv
  <2>. QED
    BY <2>1, CountTypes
<1>. QED
  BY <1>1, AlwaysIInv, PTL

(* resetPassword: requests that overlap pass PASSWORD_RESET_MAX_ATTEMPTS   *)
(* by less than their number, whatever code was issued in between.         *)
THEOREM GuessesAreBounded == Spec => []GuessesBounded
<1>1. IInv => GuessesBounded
  <2>. SUFFICES ASSUME IInv, NEW c \in 1..MaxCodes
       PROVE  guesses[c] < MaxAttempts + Cardinality(Handlers)
    BY DEF GuessesBounded
  <2>1. /\ guesses[c] \in Nat
        /\ guesses[c] + Cardinality(Counting(c)) < MaxAttempts + Cardinality(Handlers)
    BY Types DEF IInv, GuessInv
  <2>2. MaxAttempts \in Nat
    BY ConstantsAssumption
  <2>. QED
    BY <2>1, <2>2, CountTypes
<1>. QED
  BY <1>1, AlwaysIInv, PTL
=============================================================================
