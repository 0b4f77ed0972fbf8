-------------------------- MODULE CliSession_proofs --------------------------
(***************************************************************************)
(* Proofs about CliSession for every number of channels, every clock and     *)
(* every request: a session has the bus to itself, its PASS and the report   *)
(* of its cleanup are true, its samples keep to the clock, and a selftest     *)
(* restores what it found.                                                   *)
(***************************************************************************)
EXTENDS CliSession, SequenceTheorems, TLAPS

-----------------------------------------------------------------------------
(* Sessions as records                                                     *)

Names == {"kind", "running", "cancelled", "restoring", "captured", "phase", "target", "completed",
          "interval", "next", "started", "duration", "original", "expected", "primary", "cleanup",
          "successes", "failures", "address", "found", "scanErrors"}

IsWhole(s) == Names \subseteq DOMAIN s

\* t is s but for the fields of X.
Only(X, s, t) == IsWhole(t) /\ \A f \in Names \ X : t[f] = s[f]

LEMMA OnlyThen ==
    ASSUME NEW s, NEW t, NEW u, NEW X, NEW Y, Only(X, s, t), Only(Y, t, u)
    PROVE  Only(X \cup Y, s, u)
  BY DEF Only

LEMMA CountedFields ==
    ASSUME NEW s, IsWhole(s), NEW ok \in BOOLEAN
    PROVE  /\ Only({"successes", "failures"}, s, Counted(s, ok))
           /\ ok => /\ Counted(s, ok).failures = s.failures
                    /\ Counted(s, ok).successes = (s.successes + 1) % CountSize
  <1>1. CASE ok
    BY <1>1 DEF Only, IsWhole, Counted, Names
  <1>2. CASE ~ok
    BY <1>2 DEF Only, IsWhole, Counted, Names
  <1> QED
    BY <1>1, <1>2

LEMMA FinishedFields ==
    ASSUME NEW s, IsWhole(s)
    PROVE  Only({"running"}, s, Finished(s)) /\ Finished(s).running = FALSE
  BY DEF Only, IsWhole, Finished, Names

LEMMA RestoringFields ==
    ASSUME NEW s, IsWhole(s)
    PROVE  Only({"restoring", "phase"}, s, Restoring(s)) /\ Restoring(s).restoring = TRUE
           /\ Restoring(s).phase = 0
  BY DEF Only, IsWhole, Restoring, Names

LEMMA KeepsFirstFields ==
    ASSUME NEW s, IsWhole(s), NEW code, code # "OK"
    PROVE  Only({"primary"}, s, KeepsFirst(s, code)) /\ KeepsFirst(s, code).primary # "OK"
  <1>1. CASE s.primary = "OK"
    BY <1>1 DEF Only, IsWhole, KeepsFirst, Names
  <1>2. CASE s.primary # "OK"
    BY <1>2 DEF Only, IsWhole, KeepsFirst, Names
  <1> QED
    BY <1>1, <1>2

\* A failure leaves its code, and gives the session up or turns it to its cleanup.
LEMMA FailedFields ==
    ASSUME NEW s, IsWhole(s), NEW code, code # "OK"
    PROVE  /\ Only({"primary", "running", "restoring", "phase"}, s, Failed(s, code))
           /\ Failed(s, code).primary # "OK"
           /\ s.kind \notin RouteKinds => Failed(s, code).running = FALSE
           /\ NeedsCleanup(s) => Failed(s, code).running = s.running
  <1> DEFINE t == KeepsFirst(s, code)
  <1>1. Only({"primary"}, s, t) /\ t.primary # "OK" /\ IsWhole(t)
    BY KeepsFirstFields DEF Only
  <1>2. \/ Failed(s, code) = Restoring(t) /\ t.kind \in RouteKinds
        \/ Failed(s, code) = Finished(t) /\ ~NeedsCleanup(t)
    BY DEF Failed, NeedsCleanup, RouteKinds
  <1>a. t.kind = s.kind /\ t.captured = s.captured
    BY <1>1 DEF Only, Names
  <1>b. NeedsCleanup(t) <=> NeedsCleanup(s)
    BY <1>a DEF NeedsCleanup
  <1> HIDE DEF t
  <1>3. CASE Failed(s, code) = Restoring(t) /\ t.kind \in RouteKinds
    <2>1. Only({"restoring", "phase"}, t, Restoring(t))
      BY <1>1, RestoringFields
    <2>2. Only({"primary"} \cup {"restoring", "phase"}, s, Restoring(t))
      BY <1>1, <2>1, OnlyThen
    <2> QED
      BY <1>1, <1>3, <1>a, <2>1, <2>2 DEF Only, Names
  <1>4. CASE Failed(s, code) = Finished(t) /\ ~NeedsCleanup(t)
    <2>1. Only({"running"}, t, Finished(t)) /\ Finished(t).running = FALSE
      BY <1>1, FinishedFields
    <2>2. Only({"primary"} \cup {"running"}, s, Finished(t))
      BY <1>1, <2>1, OnlyThen
    <2> QED
      BY <1>1, <1>4, <1>b, <2>1, <2>2 DEF Only, Names
  <1> QED
    BY <1>2, <1>3, <1>4

LEMMA AdvancedFields ==
    ASSUME NEW s, IsWhole(s)
    PROVE  /\ Only({"phase", "completed", "restoring"}, s, Advanced(s))
           /\ s.phase < LastPhase(s) => /\ Advanced(s).phase = s.phase + 1
                                        /\ Advanced(s).completed = s.completed
                                        /\ Advanced(s).restoring = s.restoring
           /\ ~(s.phase < LastPhase(s)) =>
                /\ Advanced(s).phase = 0 /\ Advanced(s).completed = s.completed + 1
                /\ Advanced(s).restoring = IF s.completed + 1 = s.target THEN TRUE ELSE s.restoring
  <1>1. CASE s.phase < LastPhase(s)
    BY <1>1, Zenon DEF Only, IsWhole, Advanced, Names
  <1>2. CASE ~(s.phase < LastPhase(s))
    <2> DEFINE t == [s EXCEPT !.completed = @ + 1, !.phase = 0]
    <2>1. Only({"completed", "phase"}, s, t) /\ t.completed = s.completed + 1 /\ t.phase = 0
      BY Zenon DEF Only, IsWhole, Names
    <2>2. t.restoring = s.restoring /\ t.target = s.target /\ IsWhole(t)
      BY <2>1 DEF Only, Names
    <2>3. Advanced(s) = IF t.completed = t.target THEN Restoring(t) ELSE t
      BY <1>2, Zenon DEF Advanced
    <2> HIDE DEF t
    <2>4. CASE t.completed = t.target
      <3>1. Only({"restoring", "phase"}, t, Restoring(t)) /\ Restoring(t).restoring = TRUE
            /\ Restoring(t).phase = 0
        BY <2>2, RestoringFields
      <3>2. Only({"completed", "phase"} \cup {"restoring", "phase"}, s, Restoring(t))
        BY <2>1, <3>1, OnlyThen
      <3>3. Restoring(t).completed = t.completed
        BY <3>1 DEF Only, Names
      <3>4. Advanced(s) = Restoring(t) /\ s.completed + 1 = s.target
        BY <2>1, <2>2, <2>3, <2>4
      <3>5. {"completed", "phase"} \cup {"restoring", "phase"} = {"phase", "completed", "restoring"}
        OBVIOUS
      <3>6. Only({"phase", "completed", "restoring"}, s, Restoring(t))
        BY <3>2, <3>5
      <3> QED
        BY <1>2, <2>1, <3>1, <3>3, <3>4, <3>6
    <2>5. CASE t.completed # t.target
      BY <1>2, <2>1, <2>2, <2>3, <2>5 DEF Only, Names
    <2> QED
      BY <2>4, <2>5
  <1> QED
    BY <1>1, <1>2

-----------------------------------------------------------------------------
(* What a step does to the session                                      *)

\* The fields no step of a session changes.
Fixed == {"kind", "target", "interval", "started", "duration"}

\* A step of a session keeps its request, counts at most one round or sample more,
\* and remembers no other entry mask than the one the mux held.
Moves(s, t) ==
    /\ IsWhole(t)
    /\ \A f \in Fixed : t[f] = s[f]
    /\ t.completed = s.completed \/ t.completed = s.completed + 1
    /\ t.original = s.original \/ t.original = control

\* A step that is not a cleanup's leaves the report of the cleanup alone.
Works(s, t) == Moves(s, t) /\ t.cleanup = s.cleanup

LEMMA OnlyWorks ==
    ASSUME NEW s, NEW t, NEW X, Only(X, s, t),
           X \cap (Fixed \cup {"completed", "original", "cleanup"}) = {}
    PROVE  Works(s, t)
  BY DEF Only, Works, Moves, Names, Fixed

LEMMA WorksThen ==
    ASSUME NEW s, NEW t, NEW u, NEW X, Works(s, t), Only(X, t, u),
           X \cap (Fixed \cup {"completed", "original", "cleanup"}) = {}
    PROVE  Works(s, u)
  BY DEF Only, Works, Moves, Names, Fixed

\* What a round's primitive makes of the session if it succeeds.
Primitive(s, op, expected) ==
    /\ Only({"successes", "expected"}, session, s)
    /\ s.successes = (session.successes + 1) % CountSize
    /\ s.expected = IF op = "write" THEN expected ELSE session.expected

\* The session after a round's write, before it is judged.
Rounded(ok) == [Counted(session, ok) EXCEPT !.expected = RoundMask(Counted(session, ok))]

LEMMA RoundedFields ==
    ASSUME IsWhole(session), NEW ok \in BOOLEAN
    PROVE  /\ Only({"successes", "failures", "expected"}, session, Rounded(ok))
           /\ ok => Primitive(Rounded(ok), "write", RoundMask(session))
                    /\ Primitive(Counted(session, ok), "other", RoundMask(session))
  <1> DEFINE s == Counted(session, ok)
  <1>1. /\ Only({"successes", "failures"}, session, s)
        /\ ok => s.failures = session.failures /\ s.successes = (session.successes + 1) % CountSize
    BY CountedFields
  <1>2. RoundMask(s) = RoundMask(session)
    BY <1>1 DEF RoundMask, Only, Names
  <1>3. Rounded(ok) = [s EXCEPT !.expected = RoundMask(session)]
    BY <1>2 DEF Rounded
  <1> HIDE DEF s
  <1> DEFINE t == [s EXCEPT !.expected = RoundMask(session)]
  <1>4. Only({"expected"}, s, t) /\ t.expected = RoundMask(session)
    <2>1. IsWhole(s)
      BY <1>1 DEF Only
    <2> QED
      BY <2>1, Zenon DEF IsWhole, Only, Names
  <1>5. Only({"successes", "failures"} \cup {"expected"}, session, t)
    BY <1>1, <1>4, OnlyThen
  <1>6. {"successes", "failures"} \cup {"expected"} = {"successes", "failures", "expected"}
    OBVIOUS
  <1> HIDE DEF t
  <1>7. t.failures = s.failures /\ t.successes = s.successes /\ s.expected = session.expected
    BY <1>1, <1>4 DEF Only, Names
  <1>8. ok => Primitive(t, "write", RoundMask(session)) /\ Primitive(s, "other", RoundMask(session))
    BY <1>1, <1>4, <1>5, <1>7 DEF Primitive, Only
  <1> QED
    BY <1>3, <1>5, <1>6, <1>8 DEF s, t

\* A run that fails has a code, and goes on to its cleanup if it has one to do.
GivesUp(t) ==
    /\ t.primary # "OK" /\ t.captured = session.captured
    /\ NeedsCleanup(session) => t.running = session.running

\* tickMasks(): whatever fails leaves its code; a primitive that succeeds is counted.
LEMMA MasksFields ==
    ASSUME IsWhole(session), TickMasks
    PROVE  /\ Works(session, session')
           /\ session.kind \in RouteKinds /\ ~session.restoring
           /\ \/ GivesUp(session')
              \/ /\ session.kind = "SWEEP" /\ ~session.captured
                 /\ Only({"successes", "original", "captured"}, session, session')
                 /\ session'.successes = (session.successes + 1) % CountSize
                 /\ session'.captured = TRUE /\ session'.original = control
                 /\ control' = control /\ visited' = visited
              \/ /\ session.kind = "SWEEP" => session.captured
                 /\ \E s : /\ session' = Advanced(s)
                           /\ Primitive(s, RoundOp(session), RoundMask(session))
                 /\ visited' = IF RoundOp(session) = "verify" THEN visited \cup {session.expected}
                               ELSE visited
           /\ control' \in {control, RoundMask(session)}
  <1> PICK ok \in BOOLEAN :
        \/ /\ session.kind = "SWEEP" /\ ~session.captured
           /\ DeviceRead(ok)
           /\ session' = IF ok THEN [Counted(session, ok) EXCEPT !.original = control, !.captured = TRUE]
                         ELSE Failed(Counted(session, ok), "I2C")
           /\ visited' = visited
        \/ /\ session.kind = "SWEEP" => session.captured
           /\ \/ /\ RoundOp(session) = "write"
                 /\ DeviceWrite(Rounded(ok).expected, ok)
                 /\ session' = IF ok THEN Advanced(Rounded(ok)) ELSE Failed(Rounded(ok), "I2C")
                 /\ visited' = visited
              \/ /\ RoundOp(session) = "probe"
                 /\ DeviceRead(ok)
                 /\ session' = IF ok THEN Advanced(Counted(session, ok))
                               ELSE Failed(Counted(session, ok), "I2C")
                 /\ visited' = visited
              \/ /\ RoundOp(session) = "verify"
                 /\ VerifyRead(ok)
                 /\ session' = IF VerifyCode(ok, session.expected) = "OK" THEN Advanced(Counted(session, ok))
                               ELSE Failed(Counted(session, ok), VerifyCode(ok, session.expected))
                 /\ visited' = IF ok THEN visited \cup {control} ELSE visited
    BY Zenon DEF TickMasks, Rounded
  <1>0. session.kind \in RouteKinds /\ ~session.restoring
    BY DEF TickMasks
  <1> DEFINE s == Counted(session, ok)
             r == Rounded(ok)
             code == VerifyCode(ok, session.expected)
             captured == [s EXCEPT !.original = control, !.captured = TRUE]
  <1>1. /\ Only({"successes", "failures"}, session, s) /\ IsWhole(s) /\ Works(session, s)
        /\ ok => s.failures = session.failures /\ s.successes = (session.successes + 1) % CountSize
    <2>1. {"successes", "failures"} \cap (Fixed \cup {"completed", "original", "cleanup"}) = {}
      BY DEF Fixed
    <2> QED
      BY <2>1, CountedFields, OnlyWorks DEF Only
  <1>2. /\ Only({"successes", "failures", "expected"}, session, r) /\ IsWhole(r) /\ Works(session, r)
        /\ ok => Primitive(r, "write", RoundMask(session)) /\ Primitive(s, "other", RoundMask(session))
    <2>1. {"successes", "failures", "expected"} \cap (Fixed \cup {"completed", "original", "cleanup"}) = {}
      BY DEF Fixed
    <2> QED
      BY <2>1, RoundedFields, OnlyWorks DEF Only
  <1> HIDE DEF s, r
  <1>3. /\ Only({"original", "captured"}, s, captured) /\ captured.original = control
        /\ captured.captured = TRUE
    BY <1>1, Zenon DEF IsWhole, Only, Names
  <1> HIDE DEF captured
  <1>4. ok => /\ Only({"successes", "original", "captured"}, session, captured)
              /\ captured.successes = (session.successes + 1) % CountSize
    <2>1. captured.successes = s.successes /\ captured.failures = s.failures
      BY <1>3 DEF Only, Names
    <2>2. Only({"successes", "failures"} \cup {"original", "captured"}, session, captured)
      BY <1>1, <1>3, OnlyThen
    <2> QED
      BY <1>1, <2>1, <2>2 DEF Only
  <1>5. Works(session, captured)
    <2>1. Only({"successes", "failures"} \cup {"original", "captured"}, session, captured)
      BY <1>1, <1>3, OnlyThen
    <2> QED
      BY <1>3, <2>1 DEF Only, Works, Moves, Names, Fixed
  <1>6. ASSUME NEW t, Works(session, t), t.captured = session.captured, t.running = session.running,
               NEW c, c # "OK"
        PROVE  Works(session, Failed(t, c)) /\ GivesUp(Failed(t, c))
    <2>1. IsWhole(t)
      BY <1>6 DEF Works, Moves
    <2>2. {"primary", "running", "restoring", "phase"} \cap (Fixed \cup {"completed", "original", "cleanup"}) = {}
      BY DEF Fixed
    <2>3. /\ Only({"primary", "running", "restoring", "phase"}, t, Failed(t, c))
          /\ Failed(t, c).primary # "OK"
          /\ NeedsCleanup(t) => Failed(t, c).running = t.running
      BY <1>6, <2>1, FailedFields
    <2>4. NeedsCleanup(t) <=> NeedsCleanup(session)
      BY <1>6 DEF NeedsCleanup, Works, Moves, Fixed
    <2>5. Failed(t, c).captured = t.captured
      BY <2>3 DEF Only, Names
    <2>6. Works(session, Failed(t, c))
      BY <1>6, <2>2, <2>3, WorksThen
    <2> QED
      BY <1>6, <2>3, <2>4, <2>5, <2>6 DEF GivesUp
  <1>7. ASSUME NEW t, Works(session, t), t.completed = session.completed
        PROVE  Works(session, Advanced(t))
    <2>1. /\ Only({"phase", "completed", "restoring"}, t, Advanced(t))
          /\ Advanced(t).completed = t.completed \/ Advanced(t).completed = t.completed + 1
      BY <1>7, AdvancedFields DEF Works, Moves
    <2> QED
      BY <1>7, <2>1 DEF Only, Works, Moves, Names, Fixed
  <1>8. /\ s.completed = session.completed /\ r.completed = session.completed
        /\ s.captured = session.captured /\ r.captured = session.captured
        /\ s.running = session.running /\ r.running = session.running
    BY <1>1, <1>2 DEF Only, Names
  <1>9. /\ code = "OK" => ok /\ control = session.expected
        /\ r.expected = RoundMask(session)
    <2>1. r.expected = RoundMask(session)
      <3>1. r = [s EXCEPT !.expected = RoundMask(s)] /\ RoundMask(s) = RoundMask(session)
        BY <1>1 DEF r, s, Rounded, RoundMask, Only, Names
      <3> QED
        BY <1>1, <3>1 DEF Only, Names
    <2> QED
      BY <2>1 DEF VerifyCode, Matches
  <1>10. CASE /\ session.kind = "SWEEP" /\ ~session.captured
              /\ DeviceRead(ok)
              /\ session' = IF ok THEN captured ELSE Failed(s, "I2C")
              /\ visited' = visited
    <2>1. control' = control
      BY <1>10 DEF DeviceRead
    <2>2. CASE ok
      BY <1>0, <1>3, <1>4, <1>5, <1>10, <2>1, <2>2
    <2>3. CASE ~ok
      <3>1. Works(session, Failed(s, "I2C")) /\ GivesUp(Failed(s, "I2C"))
        BY <1>1, <1>6, <1>8
      <3> QED
        BY <1>0, <1>10, <2>1, <2>3, <3>1
    <2> QED
      BY <2>2, <2>3
  <1>11. CASE /\ session.kind = "SWEEP" => session.captured
              /\ RoundOp(session) = "write"
              /\ DeviceWrite(r.expected, ok)
              /\ session' = IF ok THEN Advanced(r) ELSE Failed(r, "I2C")
              /\ visited' = visited
    <2>1. control' \in {control, RoundMask(session)}
      BY <1>9, <1>11 DEF DeviceWrite
    <2>2. Works(session, Advanced(r)) /\ Works(session, Failed(r, "I2C")) /\ GivesUp(Failed(r, "I2C"))
      BY <1>2, <1>6, <1>7, <1>8
    <2> QED
      BY <1>0, <1>2, <1>11, <2>1, <2>2
  <1>12. CASE /\ session.kind = "SWEEP" => session.captured
              /\ RoundOp(session) = "probe"
              /\ DeviceRead(ok)
              /\ session' = IF ok THEN Advanced(s) ELSE Failed(s, "I2C")
              /\ visited' = visited
    <2>1. control' = control
      BY <1>12 DEF DeviceRead
    <2>2. Works(session, Advanced(s)) /\ Works(session, Failed(s, "I2C")) /\ GivesUp(Failed(s, "I2C"))
      BY <1>1, <1>6, <1>7, <1>8
    <2>3. ok => Primitive(s, RoundOp(session), RoundMask(session))
      BY <1>2, <1>12 DEF Primitive
    <2> QED
      BY <1>0, <1>12, <2>1, <2>2, <2>3
  <1>13. CASE /\ session.kind = "SWEEP" => session.captured
              /\ RoundOp(session) = "verify"
              /\ VerifyRead(ok)
              /\ session' = IF code = "OK" THEN Advanced(s) ELSE Failed(s, code)
              /\ visited' = IF ok THEN visited \cup {control} ELSE visited
    <2>1. control' = control
      BY <1>13 DEF VerifyRead, DeviceRead
    <2>2. Works(session, Advanced(s))
      BY <1>1, <1>7, <1>8
    <2>3. CASE code = "OK"
      <3>1. Primitive(s, RoundOp(session), RoundMask(session))
        BY <1>2, <1>9, <1>13, <2>3 DEF Primitive
      <3>2. visited' = visited \cup {session.expected}
        BY <1>9, <1>13, <2>3
      <3> QED
        BY <1>0, <1>13, <2>1, <2>2, <2>3, <3>1, <3>2
    <2>4. CASE code # "OK"
      <3>1. Works(session, Failed(s, code)) /\ GivesUp(Failed(s, code))
        BY <1>1, <1>6, <1>8, <2>4
      <3> QED
        BY <1>0, <1>13, <2>1, <2>4, <3>1
    <2> QED
      BY <2>3, <2>4
  <1> QED
    BY <1>10, <1>11, <1>12, <1>13 DEF s, r, code, captured

\* tickCleanup(): a write, then a readback, each counted if it succeeds; a failed one
\* is in the report.
LEMMA CleanupFields ==
    ASSUME IsWhole(session), TickCleanup
    PROVE  /\ Moves(session, session') /\ session'.completed = session.completed
           /\ session.restoring /\ visited' = visited
           /\ \/ /\ session.phase = 0 /\ control' \in {control, CleanupMask(session)}
                 /\ Only({"successes", "failures", "cleanup", "phase"}, session, session')
                 /\ session'.phase = 1
                 /\ session'.cleanup = "OK" => /\ session'.failures = session.failures
                                               /\ session'.successes = (session.successes + 1) % CountSize
              \/ /\ session.phase # 0 /\ control' = control
                 /\ Only({"successes", "failures", "cleanup", "running"}, session, session')
                 /\ session'.running = FALSE
                 /\ session'.cleanup = "OK" => /\ session.cleanup = "OK"
                                               /\ control = CleanupMask(session)
                                               /\ session'.failures = session.failures
                                               /\ session'.successes = (session.successes + 1) % CountSize
  <1> PICK ok \in BOOLEAN :
        \/ /\ session.phase = 0 /\ DeviceWrite(CleanupMask(session), ok)
           /\ session' = [Counted(session, ok) EXCEPT !.cleanup = IF ok THEN "OK" ELSE "I2C", !.phase = 1]
        \/ /\ session.phase # 0 /\ VerifyRead(ok)
           /\ session' = Finished([Counted(session, ok) EXCEPT
                !.cleanup = IF @ = "OK" THEN VerifyCode(ok, CleanupMask(session)) ELSE @])
    BY Zenon DEF TickCleanup
  <1>0. session.restoring /\ visited' = visited
    BY DEF TickCleanup, CleansUp
  <1> DEFINE s == Counted(session, ok)
             code == VerifyCode(ok, CleanupMask(session))
             written == [s EXCEPT !.cleanup = IF ok THEN "OK" ELSE "I2C", !.phase = 1]
             read == [s EXCEPT !.cleanup = IF @ = "OK" THEN code ELSE @]
  <1>1. /\ Only({"successes", "failures"}, session, s) /\ IsWhole(s)
        /\ ok => s.failures = session.failures /\ s.successes = (session.successes + 1) % CountSize
    BY CountedFields DEF Only
  <1> HIDE DEF s, code
  <1>2. Only({"cleanup", "phase"}, s, written) /\ written.phase = 1
        /\ written.cleanup = IF ok THEN "OK" ELSE "I2C"
    BY <1>1, Zenon DEF IsWhole, Only, Names
  <1>3. Only({"cleanup"}, s, read) /\ read.cleanup = IF s.cleanup = "OK" THEN code ELSE s.cleanup
    BY <1>1, Zenon DEF IsWhole, Only, Names
  <1> HIDE DEF written, read
  <1>4. CASE session.phase = 0 /\ DeviceWrite(CleanupMask(session), ok) /\ session' = written
    <2>1. Only({"successes", "failures", "cleanup", "phase"}, session, session')
      <3>1. Only({"successes", "failures"} \cup {"cleanup", "phase"}, session, session')
        BY <1>1, <1>2, <1>4, OnlyThen
      <3> QED
        BY <3>1 DEF Only
    <2>2. session'.successes = s.successes /\ session'.failures = s.failures
      BY <1>2, <1>4 DEF Only, Names
    <2>3. session'.cleanup = "OK" => ok
      BY <1>2, <1>4
    <2>4. control' \in {control, CleanupMask(session)}
      BY <1>4 DEF DeviceWrite
    <2>5. Moves(session, session') /\ session'.completed = session.completed
      BY <2>1 DEF Only, Moves, Names, Fixed
    <2> QED
      BY <1>0, <1>1, <1>2, <1>4, <2>1, <2>2, <2>3, <2>4, <2>5
  <1>5. CASE session.phase # 0 /\ VerifyRead(ok) /\ session' = Finished(read)
    <2>1. Only({"running"}, read, session') /\ session'.running = FALSE
      BY <1>3, <1>5, FinishedFields DEF Only
    <2>2. Only({"successes", "failures", "cleanup", "running"}, session, session')
      <3>1. Only({"successes", "failures"} \cup {"cleanup"}, session, read)
        BY <1>1, <1>3, OnlyThen
      <3>2. Only(({"successes", "failures"} \cup {"cleanup"}) \cup {"running"}, session, session')
        BY <2>1, <3>1, OnlyThen
      <3> QED
        BY <3>2 DEF Only
    <2>3. session'.successes = s.successes /\ session'.failures = s.failures
          /\ session'.cleanup = read.cleanup /\ s.cleanup = session.cleanup
      BY <1>1, <1>3, <2>1 DEF Only, Names
    <2>4. session'.cleanup = "OK" => session.cleanup = "OK" /\ ok /\ control = CleanupMask(session)
      <3>1. code = "OK" => ok /\ control = CleanupMask(session)
        BY DEF code, VerifyCode, Matches
      <3> QED
        BY <1>3, <2>3, <3>1
    <2>5. control' = control
      BY <1>5 DEF VerifyRead, DeviceRead
    <2>6. Moves(session, session') /\ session'.completed = session.completed
      BY <2>2 DEF Only, Moves, Names, Fixed
    <2> QED
      BY <1>0, <1>1, <1>5, <2>1, <2>2, <2>3, <2>4, <2>5, <2>6
  <1> QED
    BY <1>4, <1>5 DEF s, code, written, read

\* tickScan(): the topology read, or one more address answered for.
LEMMA ScanFields ==
    ASSUME IsWhole(session), TickScan
    PROVE  /\ Moves(session, session') /\ control' = control
           /\ session.kind \in {"SCAN", "DISCOVER"}
           /\ \/ session'.primary # "OK" /\ session'.running = FALSE
              \/ /\ session.kind = "SCAN" /\ session.phase = 0 /\ visited' = visited
                 /\ Only({"successes", "phase"}, session, session') /\ session'.phase = 1
              \/ /\ session.kind = "SCAN" => session.phase = 1
                 /\ Only({"completed", "found", "address", "running"}, session, session')
                 /\ session'.completed = session.completed + 1
                 /\ session'.address = session.address + 1
                 /\ session'.found \in {session.found, session.found + 1}
                 /\ session'.running = IF session.address + 1 > LastAddress THEN FALSE ELSE session.running
                 /\ visited' = visited \cup {session.address}
  <1>0. session.kind \in {"SCAN", "DISCOVER"}
    BY DEF TickScan
  <1>1. CASE /\ session.kind = "SCAN" /\ session.phase = 0
             /\ \E ok \in BOOLEAN :
                  /\ DeviceRead(ok)
                  /\ session' = IF ok THEN [Counted(session, ok) EXCEPT !.phase = 1]
                                ELSE Failed(Counted(session, ok), "I2C")
             /\ visited' = visited
    <2> PICK ok \in BOOLEAN :
          /\ DeviceRead(ok)
          /\ session' = IF ok THEN [Counted(session, ok) EXCEPT !.phase = 1]
                        ELSE Failed(Counted(session, ok), "I2C")
      BY <1>1
    <2> DEFINE s == Counted(session, ok)
               t == [s EXCEPT !.phase = 1]
    <2>1. /\ Only({"successes", "failures"}, session, s) /\ IsWhole(s)
          /\ ok => s.failures = session.failures
      BY CountedFields DEF Only
    <2>2. control' = control
      BY DEF DeviceRead
    <2> HIDE DEF s
    <2>3. Only({"phase"}, s, t) /\ t.phase = 1
      BY <2>1, Zenon DEF IsWhole, Only, Names
    <2> HIDE DEF t
    <2>4. CASE ok
      <3>1. session' = t
        BY <2>4 DEF s, t
      <3>2. Only({"successes", "failures"} \cup {"phase"}, session, t)
        BY <2>1, <2>3, OnlyThen
      <3>3. t.failures = session.failures
        BY <2>1, <2>3, <2>4 DEF Only, Names
      <3>4. Only({"successes", "phase"}, session, t)
        BY <3>2, <3>3 DEF Only
      <3>5. Moves(session, t)
        BY <3>4 DEF Only, Moves, Names, Fixed
      <3> QED
        BY <1>0, <1>1, <2>2, <2>3, <3>1, <3>4, <3>5
    <2>5. CASE ~ok
      <3>1. session' = Failed(s, "I2C")
        BY <2>5 DEF s
      <3>2. /\ Only({"primary", "running", "restoring", "phase"}, s, session') /\ session'.primary # "OK"
            /\ session'.running = FALSE
        <4>1. s.kind = session.kind /\ s.kind \notin RouteKinds
          BY <1>0, <2>1 DEF Only, Names, RouteKinds
        <4>2. "I2C" # "OK"
          OBVIOUS
        <4>3. /\ Only({"primary", "running", "restoring", "phase"}, s, Failed(s, "I2C"))
              /\ Failed(s, "I2C").primary # "OK" /\ Failed(s, "I2C").running = FALSE
          BY <2>1, <4>1, <4>2, FailedFields, Zenon
        <4> QED
          BY <3>1, <4>3
      <3>3. Moves(session, session')
        BY <2>1, <3>2 DEF Only, Moves, Names, Fixed
      <3> QED
        BY <1>0, <2>2, <3>2, <3>3
    <2> QED
      BY <2>4, <2>5
  <1>2. ASSUME NEW answer \in {"ACK", "NACK", "ERROR"},
               session.kind = "SCAN" => session.phase = 1,
               session' = LET s == [session EXCEPT
                                !.completed = @ + 1,
                                !.found = IF answer = "ACK" THEN @ + 1 ELSE @,
                                !.scanErrors = IF answer = "ERROR" THEN @ + 1 ELSE @,
                                !.address = IF answer = "ERROR" THEN @ ELSE @ + 1]
                          IN  IF answer = "ERROR" THEN Finished(KeepsFirst(s, "I2C"))
                              ELSE IF ScanDone(s) THEN Finished(s) ELSE s,
               visited' = visited \cup {session.address}, control' = control
        PROVE  /\ Moves(session, session')
               /\ \/ session'.primary # "OK" /\ session'.running = FALSE
                  \/ /\ Only({"completed", "found", "address", "running"}, session, session')
                     /\ session'.completed = session.completed + 1
                     /\ session'.address = session.address + 1
                     /\ session'.found \in {session.found, session.found + 1}
                     /\ session'.running = IF session.address + 1 > LastAddress THEN FALSE ELSE session.running
    <2> DEFINE s == [session EXCEPT
                   !.completed = @ + 1,
                   !.found = IF answer = "ACK" THEN @ + 1 ELSE @,
                   !.scanErrors = IF answer = "ERROR" THEN @ + 1 ELSE @,
                   !.address = IF answer = "ERROR" THEN @ ELSE @ + 1]
    <2>1. /\ Only({"completed", "found", "scanErrors", "address"}, session, s)
          /\ s.completed = session.completed + 1
          /\ s.found = IF answer = "ACK" THEN session.found + 1 ELSE session.found
          /\ s.scanErrors = IF answer = "ERROR" THEN session.scanErrors + 1 ELSE session.scanErrors
          /\ s.address = IF answer = "ERROR" THEN session.address ELSE session.address + 1
      BY Zenon DEF IsWhole, Only, Names
    <2>2. session' = IF answer = "ERROR" THEN Finished(KeepsFirst(s, "I2C"))
                     ELSE IF ScanDone(s) THEN Finished(s) ELSE s
      BY <1>2, Zenon
    <2> HIDE DEF s
    <2>3. Moves(session, s) /\ IsWhole(s)
      BY <2>1 DEF Only, Moves, Names, Fixed
    <2>4. CASE answer = "ERROR"
      <3> DEFINE t == KeepsFirst(s, "I2C")
      <3>1. Only({"primary"}, s, t) /\ t.primary # "OK"
        BY <2>3, KeepsFirstFields
      <3> HIDE DEF t
      <3>2. Only({"running"}, t, Finished(t)) /\ Finished(t).running = FALSE
        BY <3>1, FinishedFields DEF Only
      <3>3. session' = Finished(t)
        BY <2>2, <2>4 DEF t
      <3>4. Moves(session, session') /\ session'.primary # "OK" /\ session'.running = FALSE
        BY <2>3, <3>1, <3>2, <3>3 DEF Only, Moves, Names, Fixed
      <3> QED
        BY <3>4
    <2>5. CASE answer # "ERROR"
      <3>1. Only({"completed", "found", "address"}, session, s)
        BY <2>1, <2>5 DEF Only
      <3>2. CASE session.address + 1 > LastAddress
        <4>1. session' = Finished(s)
          BY <2>1, <2>2, <2>5, <3>2 DEF ScanDone
        <4>2. Only({"running"}, s, session') /\ session'.running = FALSE
          BY <2>3, <4>1, FinishedFields
        <4>3. Only({"completed", "found", "address"} \cup {"running"}, session, session')
          BY <3>1, <4>2, OnlyThen
        <4>4. Only({"completed", "found", "address", "running"}, session, session')
          BY <4>3 DEF Only
        <4>5. session'.completed = s.completed /\ session'.address = s.address /\ session'.found = s.found
          BY <4>2 DEF Only, Names
        <4>6. Moves(session, session')
          BY <2>3, <4>2 DEF Only, Moves, Names, Fixed
        <4> QED
          BY <2>1, <2>5, <3>2, <4>2, <4>4, <4>5, <4>6
      <3>3. CASE ~(session.address + 1 > LastAddress)
        <4>1. session' = s
          BY <2>1, <2>2, <2>5, <3>3 DEF ScanDone
        <4>2. Only({"completed", "found", "address", "running"}, session, s) /\ s.running = session.running
          BY <3>1 DEF Only, Names
        <4> QED
          BY <2>1, <2>3, <2>5, <3>3, <4>1, <4>2
      <3> QED
        BY <3>2, <3>3
    <2> QED
      BY <2>4, <2>5
  <1>3. \/ /\ session.kind = "SCAN" /\ session.phase = 0
           /\ \E ok \in BOOLEAN :
                /\ DeviceRead(ok)
                /\ session' = IF ok THEN [Counted(session, ok) EXCEPT !.phase = 1]
                              ELSE Failed(Counted(session, ok), "I2C")
           /\ visited' = visited
        \/ /\ session.kind = "SCAN" => session.phase = 1
           /\ control' = control
           /\ visited' = visited \cup {session.address}
           /\ \E answer \in {"ACK", "NACK", "ERROR"} :
                session' = LET s == [session EXCEPT
                                !.completed = @ + 1,
                                !.found = IF answer = "ACK" THEN @ + 1 ELSE @,
                                !.scanErrors = IF answer = "ERROR" THEN @ + 1 ELSE @,
                                !.address = IF answer = "ERROR" THEN @ ELSE @ + 1]
                           IN  IF answer = "ERROR" THEN Finished(KeepsFirst(s, "I2C"))
                               ELSE IF ScanDone(s) THEN Finished(s) ELSE s
    BY Zenon DEF TickScan, bus
  <1> QED
    BY <1>0, <1>1, <1>2, <1>3

\* The soak has run its time.
Over == session.kind = "SOAK" /\ (now' - session.started) % ClockSize >= session.duration

\* A sample that is counted: it was due, and a soak's mask is still the first one's.
TakesSample ==
    /\ Only({"successes", "completed", "expected", "next", "running"}, session, session')
    /\ session'.successes = (session.successes + 1) % CountSize
    /\ session'.completed = session.completed + 1
    /\ session'.expected = IF session.kind = "SOAK" /\ session.completed = 0 THEN control
                           ELSE session.expected
    /\ session'.next = (now' + session.interval) % ClockSize
    /\ Over \/ Due(session, now')
    /\ Over => session.completed # 0
    /\ session.kind = "SOAK" /\ session.completed > 0 => control = session.expected
    /\ visited' = visited \cup {control}
    /\ session'.running = IF Over \/ (session.kind = "WATCH" /\ session.completed + 1 = session.target)
                          THEN FALSE ELSE session.running

\* The session after a sample.
Sampled(ok) ==
    [Counted(session, ok) EXCEPT
        !.completed = @ + 1,
        !.expected = IF Counted(session, ok).kind = "SOAK" /\ Counted(session, ok).completed = 0
                     THEN control ELSE @,
        !.next = DueAgain(Counted(session, ok), now')]

LEMMA SampledFields ==
    ASSUME IsWhole(session)
    PROVE  /\ Only({"successes", "completed", "expected", "next"}, session, Sampled(TRUE))
           /\ Sampled(TRUE).successes = (session.successes + 1) % CountSize
           /\ Sampled(TRUE).completed = session.completed + 1
           /\ Sampled(TRUE).expected = IF session.kind = "SOAK" /\ session.completed = 0 THEN control
                                       ELSE session.expected
           /\ Sampled(TRUE).next = (now' + session.interval) % ClockSize
  <1> DEFINE s == Counted(session, TRUE)
             t == [s EXCEPT
                     !.completed = @ + 1,
                     !.expected = IF s.kind = "SOAK" /\ s.completed = 0 THEN control ELSE @,
                     !.next = DueAgain(s, now')]
  <1>1. /\ Only({"successes", "failures"}, session, s) /\ IsWhole(s) /\ s.failures = session.failures
        /\ s.successes = (session.successes + 1) % CountSize
    BY CountedFields DEF Only
  <1>2. Sampled(TRUE) = t
    BY Zenon DEF Sampled
  <1> HIDE DEF s
  <1>3. /\ Only({"completed", "expected", "next"}, s, t)
        /\ t.completed = s.completed + 1
        /\ t.expected = IF s.kind = "SOAK" /\ s.completed = 0 THEN control ELSE s.expected
        /\ t.next = DueAgain(s, now')
    BY <1>1, Zenon DEF IsWhole, Only, Names
  <1> HIDE DEF t
  <1>4. /\ s.kind = session.kind /\ s.completed = session.completed /\ s.expected = session.expected
        /\ s.interval = session.interval
    BY <1>1 DEF Only, Names
  <1>5. t.successes = s.successes /\ t.failures = session.failures
    BY <1>1, <1>3 DEF Only, Names
  <1>6. Only({"successes", "failures"} \cup {"completed", "expected", "next"}, session, t)
    BY <1>1, <1>3, OnlyThen
  <1>7. Only({"successes", "completed", "expected", "next"}, session, t)
    BY <1>5, <1>6 DEF Only
  <1>8. t.next = (now' + session.interval) % ClockSize
    BY <1>3, <1>4 DEF DueAgain
  <1> QED
    BY <1>1, <1>2, <1>3, <1>4, <1>5, <1>7, <1>8

\* tick() for watch and soak: a failure leaves its code, and nothing but a sample
\* changes the session otherwise.
LEMMA TimedFields ==
    ASSUME IsWhole(session), TickTimed(now')
    PROVE  /\ Moves(session, session') /\ control' = control
           /\ session.kind \in {"WATCH", "SOAK"}
           /\ \/ /\ session'.primary # "OK" /\ session'.running = FALSE
                 /\ session'.completed = session.completed
              \/ session' = session /\ visited' = visited
              \/ TakesSample
  <1> DEFINE ended == Finished([session EXCEPT !.primary = "TIMEOUT"])
             drifted == session.kind = "SOAK" /\ session.completed > 0 /\ ~Matches(session.expected)
             last == Sampled(TRUE).kind = "WATCH" /\ Sampled(TRUE).completed = Sampled(TRUE).target
  <1>0. session.kind \in {"WATCH", "SOAK"}
    BY DEF TickTimed
  <1>1. control' = control
    BY Zenon DEF TickTimed, DeviceRead, bus
  <1>2. \/ session' = ended
        \/ session' = session /\ visited' = visited
        \/ \E ok \in BOOLEAN : session' \in {Failed(Counted(session, ok), "I2C"), Failed(Counted(session, ok), "MISMATCH")}
        \/ /\ ~(Over /\ session.completed = 0)
           /\ Over \/ Due(session, now')
           /\ ~drifted
           /\ session' = IF Over \/ last THEN Finished(Sampled(TRUE)) ELSE Sampled(TRUE)
           /\ visited' = visited \cup {control}
    <2>1. CASE Over /\ session.completed = 0
      BY <2>1, Zenon DEF TickTimed, Over
    <2>2. CASE ~(Over /\ session.completed = 0) /\ ~SampleNow(Over, Due(session, now'))
      <3>1. session' = (IF Over THEN Finished(session) ELSE session) /\ visited' = visited
        BY <2>2, Zenon DEF TickTimed, Over, bus
      <3>2. ~Over
        BY <2>2 DEF SampleNow
      <3> QED
        BY <3>1, <3>2
    <2>3. CASE ~(Over /\ session.completed = 0) /\ SampleNow(Over, Due(session, now'))
      <3>1. Over \/ Due(session, now')
        BY <2>3 DEF SampleNow
      <3>2. PICK ok \in BOOLEAN :
              /\ session' = IF ~ok THEN Failed(Counted(session, ok), "I2C")
                            ELSE IF drifted THEN Failed(Counted(session, ok), "MISMATCH")
                            ELSE IF Over THEN Finished(Sampled(ok))
                            ELSE IF Sampled(ok).kind = "WATCH" /\ Sampled(ok).completed = Sampled(ok).target
                                 THEN Finished(Sampled(ok)) ELSE Sampled(ok)
              /\ visited' = IF ok THEN visited \cup {control} ELSE visited
        BY <2>3, Zenon DEF TickTimed, Over, Sampled
      <3>3. CASE ok /\ ~drifted
        <4>1. ok = TRUE
          BY <3>3
        <4> QED
          BY <2>3, <3>1, <3>2, <3>3, <4>1, Zenon
      <3>4. CASE ~ok \/ drifted
        BY <3>2, <3>4, Zenon
      <3> QED
        BY <3>3, <3>4
    <2> QED
      BY <2>1, <2>2, <2>3
  <1>3. ASSUME session' = ended
        PROVE  /\ Moves(session, session') /\ session'.primary # "OK" /\ session'.running = FALSE
               /\ session'.completed = session.completed
    <2> DEFINE t == [session EXCEPT !.primary = "TIMEOUT"]
    <2>1. Only({"primary"}, session, t) /\ t.primary = "TIMEOUT"
      BY Zenon DEF IsWhole, Only, Names
    <2> HIDE DEF t
    <2>2. Only({"running"}, t, Finished(t)) /\ Finished(t).running = FALSE
      BY <2>1, FinishedFields DEF Only
    <2>3. session' = Finished(t)
      BY <1>3 DEF t
    <2>4. Only({"primary"} \cup {"running"}, session, session') /\ session'.primary = "TIMEOUT"
      <3>1. Only({"primary"} \cup {"running"}, session, session')
        BY <2>1, <2>2, <2>3, OnlyThen
      <3> QED
        BY <2>1, <2>2, <2>3, <3>1 DEF Only, Names
    <2>5. session'.completed = session.completed
      BY <2>4 DEF Only, Names
    <2>6. ({"primary"} \cup {"running"}) \cap (Fixed \cup {"completed", "original", "cleanup"}) = {}
      BY DEF Fixed
    <2> QED
      BY <2>2, <2>3, <2>4, <2>5, <2>6, OnlyWorks DEF Works
  <1>4. ASSUME NEW ok \in BOOLEAN, NEW code \in {"I2C", "MISMATCH"}, session' = Failed(Counted(session, ok), code)
        PROVE  /\ Moves(session, session') /\ session'.primary # "OK" /\ session'.running = FALSE
               /\ session'.completed = session.completed
    <2> DEFINE s == Counted(session, ok)
    <2>1. Only({"successes", "failures"}, session, s) /\ IsWhole(s)
      BY CountedFields DEF Only
    <2>2. session' = Failed(s, code)
      BY <1>4
    <2> HIDE DEF s
    <2>3. /\ Only({"primary", "running", "restoring", "phase"}, s, session') /\ session'.primary # "OK"
          /\ session'.running = FALSE
      <3>1. s.kind \notin RouteKinds
        BY <1>0, <2>1 DEF Only, Names, RouteKinds
      <3> QED
        BY <2>1, <2>2, <3>1, FailedFields
    <2> QED
      BY <2>1, <2>3 DEF Only, Moves, Names, Fixed
  <1>5. ASSUME ~(Over /\ session.completed = 0),
               Over \/ Due(session, now'),
               ~drifted,
               session' = IF Over \/ last THEN Finished(Sampled(TRUE)) ELSE Sampled(TRUE),
               visited' = visited \cup {control}
        PROVE  Moves(session, session') /\ TakesSample
    <2> DEFINE t == Sampled(TRUE)
    <2>1. /\ Only({"successes", "completed", "expected", "next"}, session, t) /\ IsWhole(t)
          /\ t.successes = (session.successes + 1) % CountSize
          /\ t.completed = session.completed + 1
          /\ t.expected = IF session.kind = "SOAK" /\ session.completed = 0 THEN control
                          ELSE session.expected
          /\ t.next = (now' + session.interval) % ClockSize
      BY SampledFields DEF Only
    <2>2. /\ session' = IF Over \/ last THEN Finished(t) ELSE t
          /\ last <=> session.kind = "WATCH" /\ session.completed + 1 = session.target
      BY <1>5, <2>1 DEF Only, Names
    <2> HIDE DEF t, last
    <2>3. /\ Only({"successes", "completed", "expected", "next", "running"}, session, session')
          /\ Only({"running"}, t, session')
          /\ session'.running = IF Over \/ last THEN FALSE ELSE session.running
      <3>1. CASE Over \/ last
        <4>1. session' = Finished(t)
          BY <2>2, <3>1
        <4>2. Only({"running"}, t, session') /\ session'.running = FALSE
          BY <2>1, <4>1, FinishedFields
        <4>3. Only({"successes", "completed", "expected", "next"} \cup {"running"}, session, session')
          BY <2>1, <4>2, OnlyThen
        <4> QED
          BY <3>1, <4>2, <4>3 DEF Only
      <3>2. CASE ~(Over \/ last)
        <4>1. session' = t
          BY <2>2, <3>2
        <4>2. t.running = session.running
          BY <2>1 DEF Only, Names
        <4> QED
          BY <2>1, <3>2, <4>1, <4>2 DEF Only
      <3> QED
        BY <3>1, <3>2
    <2>4. /\ session'.successes = t.successes /\ session'.completed = t.completed
          /\ session'.expected = t.expected /\ session'.next = t.next
      BY <2>3 DEF Only, Names
    <2>5. session.kind = "SOAK" /\ session.completed > 0 => control = session.expected
      BY <1>5 DEF Matches
    <2>6. Moves(session, session')
      BY <2>1, <2>3, <2>4 DEF Only, Moves, Names, Fixed
    <2>7. session'.running = IF Over \/ (session.kind = "WATCH" /\ session.completed + 1 = session.target)
                             THEN FALSE ELSE session.running
      BY <2>2, <2>3
    <2>8. TakesSample
      BY <1>5, <2>1, <2>3, <2>4, <2>5, <2>7 DEF TakesSample
    <2> QED
      BY <2>6, <2>8
  <1>6. ASSUME session' = session PROVE Moves(session, session')
    BY <1>6 DEF Moves
  <1> HIDE DEF ended, drifted, last
  <1> QED
    BY <1>0, <1>1, <1>2, <1>3, <1>4, <1>5, <1>6

\* start(): a whole session that has done nothing yet.
Requests(kind, count, interval) ==
    /\ count \in CASE kind = "SWEEP" -> {NumMasks}
                   [] kind = "SCAN" -> {LastAddress - FirstScan + 1}
                   [] kind = "DISCOVER" -> {LastAddress - FirstCandidate + 1}
                   [] OTHER -> Counts
    /\ interval \in CASE kind = "WATCH" -> Intervals
                      [] kind = "SOAK" -> {Second}
                      [] OTHER -> {0}

Request(kind, count, interval) ==
    [NoSession EXCEPT
        !.kind = kind, !.running = TRUE, !.target = count, !.interval = interval,
        !.started = now, !.next = now,
        !.duration = IF kind = "SOAK" THEN count * Second ELSE 0,
        !.address = IF kind = "SCAN" THEN FirstScan ELSE FirstCandidate]

LEMMA NoSessionFields ==
    /\ IsWhole(NoSession) /\ NoSession.running = FALSE /\ NoSession.completed = 0
    /\ NoSession.original = NoMask /\ NoSession.kind = "NONE" /\ NoSession.expected = NoMask
    /\ NoSession.restoring = FALSE /\ NoSession.captured = FALSE /\ NoSession.phase = 0
    /\ NoSession.primary = "OK" /\ NoSession.cleanup = "OK" /\ NoSession.cancelled = FALSE
    /\ NoSession.successes = 0 /\ NoSession.failures = 0 /\ NoSession.found = 0
    /\ NoSession.scanErrors = 0
  BY DEF NoSession, IsWhole, Names

\* s is a session that has just started on a request.
Fresh(s, kind, count, interval) ==
    /\ Only({"kind", "running", "target", "interval", "started", "next", "duration", "address"},
            NoSession, s)
    /\ s.kind = kind /\ s.running = TRUE /\ s.target = count /\ s.interval = interval
    /\ s.started = now /\ s.next = now
    /\ s.duration = IF kind = "SOAK" THEN count * Second ELSE 0
    /\ s.address = IF kind = "SCAN" THEN FirstScan ELSE FirstCandidate

LEMMA RequestFields ==
    ASSUME NEW kind, NEW count, NEW interval
    PROVE  Fresh(Request(kind, count, interval), kind, count, interval)
  <1> DEFINE base == NoSession
             s == [base EXCEPT
                    !.kind = kind, !.running = TRUE, !.target = count, !.interval = interval,
                    !.started = now, !.next = now,
                    !.duration = IF kind = "SOAK" THEN count * Second ELSE 0,
                    !.address = IF kind = "SCAN" THEN FirstScan ELSE FirstCandidate]
  <1>1. IsWhole(base)
    BY NoSessionFields
  <1>2. Request(kind, count, interval) = s
    BY DEF Request
  <1> HIDE DEF base
  <1>3. /\ Only({"kind", "running", "target", "interval", "started", "next", "duration",
                 "address"}, base, s)
        /\ s.kind = kind /\ s.running = TRUE /\ s.target = count /\ s.interval = interval
        /\ s.started = now /\ s.next = now
        /\ s.duration = IF kind = "SOAK" THEN count * Second ELSE 0
        /\ s.address = IF kind = "SCAN" THEN FirstScan ELSE FirstCandidate
    BY <1>1, Zenon DEF IsWhole, Only, Names
  <1> HIDE DEF s
  <1> QED
    BY <1>2, <1>3 DEF base, Fresh

LEMMA StartFields ==
    ASSUME NEW kind, Start(kind)
    PROVE  \E count, interval :
             Requests(kind, count, interval) /\ session' = Request(kind, count, interval)
  <1>1. PICK count \in CASE kind = "SWEEP" -> {NumMasks}
                         [] kind = "SCAN" -> {LastAddress - FirstScan + 1}
                         [] kind = "DISCOVER" -> {LastAddress - FirstCandidate + 1}
                         [] OTHER -> Counts,
             interval \in CASE kind = "WATCH" -> Intervals
                            [] kind = "SOAK" -> {Second}
                            [] OTHER -> {0} :
          session' = Request(kind, count, interval)
    BY Zenon DEF Start, Request
  <1>2. Requests(kind, count, interval)
    BY DEF Requests
  <1> QED
    BY <1>1, <1>2

\* stop(): a session that does not pass.
LEMMA StopFields ==
    ASSUME IsWhole(session), Stop
    PROVE  /\ Works(session, session') /\ session'.completed = session.completed
           /\ session'.primary # "OK" /\ session'.captured = session.captured
           /\ session.kind \notin RouteKinds => session'.running = FALSE
           /\ NeedsCleanup(session) => session'.running = session.running
  <1> DEFINE s == [session EXCEPT !.cancelled = TRUE]
  <1>1. Only({"cancelled"}, session, s)
    BY Zenon DEF IsWhole, Only, Names
  <1>2. session' = Failed(s, "BUSY") /\ IsWhole(s)
    BY <1>1 DEF Stop, Only
  <1> HIDE DEF s
  <1>3. /\ Only({"primary", "running", "restoring", "phase"}, s, session') /\ session'.primary # "OK"
        /\ s.kind \notin RouteKinds => session'.running = FALSE
        /\ NeedsCleanup(s) => session'.running = s.running
    BY <1>2, FailedFields
  <1>4. NeedsCleanup(s) <=> NeedsCleanup(session)
    BY <1>1 DEF Only, Names, NeedsCleanup
  <1> QED
    BY <1>1, <1>3, <1>4 DEF Only, Works, Moves, Names, Fixed

-----------------------------------------------------------------------------
(* The selftest                                                            *)

Steps == [op : {"write", "verify", "reset"}, mask : Masks, restores : BOOLEAN]

RestoringWrite(mask) == [Write(mask) EXCEPT !.restores = TRUE]
RestoringVerify(mask) == [Verify(mask) EXCEPT !.restores = TRUE]

\* What is left of a selftest that owes the mask c: checks, then the whole restore,
\* or its readback alone.
Ending(steps, c) ==
    /\ Len(steps) # 0 /\ steps[Len(steps)] = RestoringVerify(c)
    /\ Len(steps) > 1 => steps[Len(steps) - 1] = RestoringWrite(c)
    /\ \A i \in 1 .. Len(steps) - 2 : ~steps[i].restores

NoRestore(steps) == \A i \in 1 .. Len(steps) : ~steps[i].restores

\* A restore is in the script exactly while a mask is owed.
ScriptOK ==
    /\ script \in Seq(Steps)
    /\ \/ owed = {} /\ NoRestore(script)
       \/ \E c \in Masks : owed = {c} /\ Ending(script, c)

LEMMA StepFacts ==
    /\ \A mask \in Masks : /\ Write(mask) \in Steps /\ ~Write(mask).restores
                           /\ Verify(mask) \in Steps /\ ~Verify(mask).restores
    /\ Reset \in Steps /\ ~Reset.restores
    /\ \A mask \in Masks : /\ RestoringWrite(mask) \in Steps /\ RestoringWrite(mask).restores
                           /\ RestoringWrite(mask).op = "write"
                           /\ RestoringVerify(mask) \in Steps /\ RestoringVerify(mask).restores
                           /\ RestoringVerify(mask).op = "verify" /\ RestoringVerify(mask).mask = mask
    /\ NoMask \in Masks /\ \A n \in Int : One(n) \in Masks /\ FromRaw(n) \in Masks
  <1>1. \A mask \in Masks : /\ Write(mask) \in Steps /\ ~Write(mask).restores
                            /\ Verify(mask) \in Steps /\ ~Verify(mask).restores
    BY DEF Steps, Write, Verify
  <1>2. \A mask \in Masks : /\ RestoringWrite(mask) \in Steps /\ RestoringWrite(mask).restores
                            /\ RestoringWrite(mask).op = "write"
                            /\ RestoringVerify(mask) \in Steps /\ RestoringVerify(mask).restores
                            /\ RestoringVerify(mask).op = "verify" /\ RestoringVerify(mask).mask = mask
    BY DEF Steps, RestoringWrite, RestoringVerify, Write, Verify
  <1>3. NoMask \in Masks
    BY DEF NoMask, Masks
  <1>4. Reset \in Steps /\ ~Reset.restores
    BY <1>3 DEF Steps, Reset
  <1>5. ASSUME NEW n \in Int PROVE One(n) \in Masks
    <2>1. n % NumChannels \in Channels
      BY ConsoleAssumption DEF Channels
    <2> QED
      BY <2>1 DEF One, Masks
  <1>6. ASSUME NEW n \in Int PROVE FromRaw(n) \in Masks
    BY DEF FromRaw, Masks
  <1> QED
    BY <1>1, <1>2, <1>3, <1>4, <1>5, <1>6

\* Scripts one after the other.
LEMMA Joined ==
    ASSUME NEW a \in Seq(Steps), NEW b \in Seq(Steps), NoRestore(a)
    PROVE  /\ a \o b \in Seq(Steps) /\ Len(a \o b) = Len(a) + Len(b)
           /\ Len(a) \in Nat /\ Len(b) \in Nat
           /\ \A i \in 1 .. Len(a) : ~(a \o b)[i].restores
           /\ \A i \in 1 .. Len(b) : (a \o b)[Len(a) + i] = b[i]
           /\ NoRestore(b) => NoRestore(a \o b)
  <1>1. /\ a \o b \in Seq(Steps) /\ Len(a \o b) = Len(a) + Len(b)
        /\ Len(a) \in Nat /\ Len(b) \in Nat
        /\ \A i \in 1 .. Len(a) : (a \o b)[i] = a[i]
        /\ \A i \in 1 .. Len(b) : (a \o b)[Len(a) + i] = b[i]
        /\ \A i \in Len(a) + 1 .. Len(a) + Len(b) : (a \o b)[i] = b[i - Len(a)]
    OBVIOUS
  <1>2. ASSUME NoRestore(b), NEW i \in 1 .. Len(a \o b) PROVE ~(a \o b)[i].restores
    <2>1. CASE i \in 1 .. Len(a)
      BY <1>1, <2>1 DEF NoRestore
    <2>2. CASE i \notin 1 .. Len(a)
      <3>1. i \in Len(a) + 1 .. Len(a) + Len(b) /\ i - Len(a) \in 1 .. Len(b)
        BY <1>1, <2>2
      <3> QED
        BY <1>1, <1>2, <3>1 DEF NoRestore
    <2> QED
      BY <2>1, <2>2
  <1> QED
    BY <1>1, <1>2 DEF NoRestore

\* The checks of a selftest restore nothing.
LEMMA ChecksFacts ==
    ASSUME NEW reset \in BOOLEAN
    PROVE  MaskChecks(reset) \in Seq(Steps) /\ NoRestore(MaskChecks(reset))
  <1> DEFINE a == <<Write(NoMask), Verify(NoMask)>>
             b == OneHotChecks
             c == <<Write(FromRaw(165)), Verify(FromRaw(165)), Write(NoMask), Verify(NoMask)>>
             d == IF reset THEN <<Write(One(0)), Verify(One(0)), Reset>> ELSE <<>>
             Plain(steps) == steps \in Seq(Steps) /\ NoRestore(steps)
  <1>1. ASSUME NEW mask \in Masks
        PROVE  /\ Write(mask) \in Steps /\ ~Write(mask).restores
               /\ Verify(mask) \in Steps /\ ~Verify(mask).restores
    BY StepFacts
  <1>2. NoMask \in Masks /\ FromRaw(165) \in Masks /\ One(0) \in Masks
    BY StepFacts
  <1>3. ASSUME NEW x \in Steps, NEW y \in Steps, ~x.restores, ~y.restores
        PROVE  Plain(<<x, y>>)
    BY <1>3 DEF NoRestore
  <1>4. ASSUME NEW x \in Seq(Steps), NEW y \in Seq(Steps), NoRestore(x), NoRestore(y)
        PROVE  Plain(x \o y)
    BY <1>4, Joined
  <1>5. Plain(a)
    BY <1>1, <1>2, <1>3
  <1>6. Plain(b)
    <2>1. ASSUME NEW i \in 1 .. 2 * NumChannels
          PROVE  /\ (i - 1) \div 2 \in Int
                 /\ OneHotChecks[i] \in Steps /\ ~OneHotChecks[i].restores
      <3>1. (i - 1) \div 2 \in Int
        BY ConsoleAssumption
      <3>2. One((i - 1) \div 2) \in Masks
        BY <3>1, StepFacts
      <3> QED
        BY <1>1, <3>1, <3>2 DEF OneHotChecks
    <2>2. 2 * NumChannels \in Nat
      BY ConsoleAssumption
    <2>3. OneHotChecks \in Seq(Steps) /\ Len(OneHotChecks) = 2 * NumChannels
      <3>1. OneHotChecks = [i \in 1 .. 2 * NumChannels |-> OneHotChecks[i]]
        BY DEF OneHotChecks
      <3> QED
        BY <2>1, <2>2, <3>1
    <2> QED
      BY <2>1, <2>3 DEF NoRestore
  <1>7. Plain(c)
    <2> DEFINE x == <<Write(FromRaw(165)), Verify(FromRaw(165))>>
               y == <<Write(NoMask), Verify(NoMask)>>
    <2>1. c = x \o y
      OBVIOUS
    <2>2. Plain(x) /\ Plain(y)
      BY <1>1, <1>2, <1>3
    <2> HIDE DEF x, y, c
    <2> QED
      BY <1>4, <2>1, <2>2
  <1>8. Plain(d)
    <2>1. CASE reset
      <3>1. d = <<Write(One(0)), Verify(One(0)), Reset>>
        BY <2>1
      <3>2. Write(One(0)) \in Steps /\ Verify(One(0)) \in Steps /\ Reset \in Steps
            /\ ~Write(One(0)).restores /\ ~Verify(One(0)).restores /\ ~Reset.restores
        BY <1>1, <1>2, StepFacts
      <3> QED
        BY <3>1, <3>2 DEF NoRestore
    <2>2. CASE ~reset
      BY <2>2 DEF NoRestore
    <2> QED
      BY <2>1, <2>2
  <1>9. MaskChecks(reset) = ((a \o b) \o c) \o d
    BY DEF MaskChecks
  <1> HIDE DEF a, b, c, d
  <1>10. Plain(a \o b)
    BY <1>4, <1>5, <1>6
  <1>11. Plain((a \o b) \o c)
    BY <1>4, <1>7, <1>10
  <1>12. Plain(((a \o b) \o c) \o d)
    BY <1>4, <1>8, <1>11
  <1> QED
    BY <1>9, <1>12

\* A selftest's script: checks, then the restore of the mask it has captured.
LEMMA SelfTestScript ==
    ASSUME NEW reset \in BOOLEAN, NEW c \in Masks
    PROVE  /\ MaskChecks(reset) \o Restore(c) \in Seq(Steps)
           /\ Ending(MaskChecks(reset) \o Restore(c), c)
  <1> DEFINE a == MaskChecks(reset)
             b == Restore(c)
  <1>1. a \in Seq(Steps) /\ NoRestore(a)
    BY ChecksFacts
  <1>2. b = <<RestoringWrite(c), RestoringVerify(c)>>
    BY DEF Restore, RestoringWrite, RestoringVerify
  <1>3. b \in Seq(Steps) /\ Len(b) = 2 /\ b[1] = RestoringWrite(c) /\ b[2] = RestoringVerify(c)
    <2>1. RestoringWrite(c) \in Steps /\ RestoringVerify(c) \in Steps
      BY StepFacts
    <2> HIDE DEF b
    <2> QED
      BY <1>2, <2>1
  <1> HIDE DEF a, b
  <1>4. /\ a \o b \in Seq(Steps) /\ Len(a \o b) = Len(a) + 2 /\ Len(a) \in Nat
        /\ \A i \in 1 .. Len(a) : ~(a \o b)[i].restores
        /\ (a \o b)[Len(a) + 1] = RestoringWrite(c) /\ (a \o b)[Len(a) + 2] = RestoringVerify(c)
    <2>1. 1 \in 1 .. Len(b) /\ 2 \in 1 .. Len(b)
      BY <1>3
    <2>2. /\ a \o b \in Seq(Steps) /\ Len(a \o b) = Len(a) + Len(b)
          /\ Len(a) \in Nat
          /\ \A i \in 1 .. Len(a) : ~(a \o b)[i].restores
          /\ \A i \in 1 .. Len(b) : (a \o b)[Len(a) + i] = b[i]
      BY <1>1, <1>3, Joined
    <2> QED
      BY <1>3, <2>1, <2>2
  <1> DEFINE v == a \o b
  <1>5. Ending(v, c)
    <2>1. /\ v \in Seq(Steps) /\ Len(v) = Len(a) + 2 /\ Len(a) \in Nat
          /\ \A i \in 1 .. Len(a) : ~v[i].restores
          /\ v[Len(a) + 1] = RestoringWrite(c) /\ v[Len(a) + 2] = RestoringVerify(c)
      BY <1>4
    <2> HIDE DEF v
    <2>2. Len(v) - 1 = Len(a) + 1 /\ Len(v) - 2 = Len(a)
      BY <2>1
    <2> QED
      BY <2>1, <2>2 DEF Ending
  <1> QED
    BY <1>4, <1>5 DEF a, b

\* One step taken off a script.
LEMMA TailFacts ==
    ASSUME NEW steps \in Seq(Steps), steps # <<>>
    PROVE  /\ Tail(steps) \in Seq(Steps) /\ Len(Tail(steps)) = Len(steps) - 1
           /\ Len(steps) \in Nat \ {0} /\ Head(steps) = steps[1] /\ Head(steps) \in Steps
           /\ \A i \in 1 .. Len(steps) - 1 : Tail(steps)[i] = steps[i + 1]
  OBVIOUS

\* After a failure nothing is left of a script that restores nothing, and the
\* restore of one that does.
LEMMA AfterFailureFacts ==
    ASSUME NEW steps \in Seq(Steps)
    PROVE  /\ NoRestore(steps) => AfterFailure(steps) = <<>>
           /\ \A c \in Masks : Ending(steps, c) =>
                AfterFailure(steps) \in Seq(Steps) /\ Ending(AfterFailure(steps), c)
  <1>1. ASSUME NoRestore(steps) PROVE AfterFailure(steps) = <<>>
    BY <1>1 DEF NoRestore, AfterFailure
  <1>2. ASSUME NEW c \in Masks, Ending(steps, c)
        PROVE  AfterFailure(steps) \in Seq(Steps) /\ Ending(AfterFailure(steps), c)
    <2>1. Len(steps) \in Nat \ {0}
      BY <1>2 DEF Ending
    <2> DEFINE n == Len(steps)
               First(i) == steps[i].restores /\ \A j \in 1 .. i - 1 : ~steps[j].restores
    <2>2. steps[n] = RestoringVerify(c) /\ steps[n].restores
          /\ (n > 1 => steps[n - 1] = RestoringWrite(c) /\ steps[n - 1].restores)
          /\ \A i \in 1 .. n - 2 : ~steps[i].restores
      BY <1>2, StepFacts DEF Ending
    <2>3. \E i \in 1 .. n : First(i)
      <3>1. CASE n = 1
        <4>1. n \in 1 .. n /\ 1 .. n - 1 = {}
          BY <3>1
        <4> QED
          BY <2>2, <4>1
      <3>2. CASE n # 1
        <4>1. n - 1 \in 1 .. n /\ n > 1 /\ n - 1 - 1 = n - 2
          <5>1. \A m \in Nat \ {0} : m # 1 => m - 1 \in 1 .. m /\ m > 1 /\ m - 1 - 1 = m - 2
            OBVIOUS
          <5> QED
            BY <2>1, <3>2, <5>1, Zenon
        <4> QED
          BY <2>2, <4>1
      <3> QED
        BY <3>1, <3>2
    <2>4. PICK k \in 1 .. n : First(k) /\ AfterFailure(steps) = SubSeq(steps, k, n)
      <3>1. \E i \in 1 .. n : steps[i].restores
        BY <2>3
      <3>2. AfterFailure(steps) = SubSeq(steps, CHOOSE i \in 1 .. n : First(i), n)
        BY <3>1 DEF AfterFailure
      <3>3. (CHOOSE i \in 1 .. n : First(i)) \in 1 .. n /\ First(CHOOSE i \in 1 .. n : First(i))
        BY <2>3
      <3> QED
        BY <3>2, <3>3
    <2>5. k = n \/ k = n - 1
      <3>1. k \notin 1 .. n - 2
        BY <2>2, <2>4
      <3> QED
        BY <2>1, <2>4, <3>1
    <2>6. /\ SubSeq(steps, k, n) \in Seq(Steps) /\ Len(SubSeq(steps, k, n)) = n - k + 1
          /\ \A i \in 1 .. n - k + 1 : SubSeq(steps, k, n)[i] = steps[k + i - 1]
      BY <2>1, <2>4, <2>5
    <2>7. n > 1 \/ k = n
      BY <2>1, <2>4, <2>5
    <2> DEFINE v == SubSeq(steps, k, n)
    <2>8. v \in Seq(Steps) /\ Len(v) = n - k + 1 /\ \A i \in 1 .. n - k + 1 : v[i] = steps[k + i - 1]
      BY <2>6
    <2> HIDE DEF v
    <2>9. CASE k = n
      <3>1. Len(v) = 1 /\ v[1] = steps[n]
        BY <2>1, <2>8, <2>9
      <3>2. Len(v) # 0 /\ ~(Len(v) > 1) /\ v[Len(v)] = RestoringVerify(c) /\ 1 .. Len(v) - 2 = {}
        BY <2>2, <3>1
      <3> QED
        BY <2>4, <2>8, <3>2 DEF Ending, v
    <2>10. CASE k = n - 1
      <3>1. Len(v) = 2 /\ v[1] = steps[n - 1] /\ v[2] = steps[n] /\ n > 1
        BY <2>1, <2>4, <2>8, <2>10
      <3>2. /\ Len(v) # 0 /\ v[Len(v)] = RestoringVerify(c) /\ v[Len(v) - 1] = RestoringWrite(c)
            /\ 1 .. Len(v) - 2 = {}
        BY <2>2, <3>1
      <3> QED
        BY <2>4, <2>8, <3>2 DEF Ending, v
    <2> QED
      BY <2>5, <2>9, <2>10
  <1> QED
    BY <1>1, <1>2

\* The step at the head of a script that owes a restore, and what follows it.
LEMMA EndingTail ==
    ASSUME NEW steps \in Seq(Steps), NEW c \in Masks, Ending(steps, c), steps # <<>>
    PROVE  \/ Len(steps) = 1 /\ Head(steps) = RestoringVerify(c) /\ Tail(steps) = <<>>
           \/ /\ ~(Head(steps).restores /\ Head(steps).op = "verify")
              /\ Ending(Tail(steps), c)
  <1>1. CASE Len(steps) = 1
    <2>1. Tail(steps) \in Seq(Steps) /\ Len(Tail(steps)) = 0 /\ Head(steps) = steps[1]
      BY <1>1, TailFacts
    <2>2. Tail(steps) = <<>>
      BY <2>1, EmptySeq
    <2> QED
      BY <1>1, <2>1, <2>2 DEF Ending
  <1>2. CASE Len(steps) # 1
    <2> DEFINE n == Len(steps)
               t == Tail(steps)
    <2>1. /\ t \in Seq(Steps) /\ Len(t) = n - 1 /\ n \in Nat \ {0} /\ Head(steps) = steps[1]
          /\ \A i \in 1 .. n - 1 : t[i] = steps[i + 1]
      BY TailFacts
    <2>2. /\ steps[n] = RestoringVerify(c) /\ steps[n - 1] = RestoringWrite(c) /\ n > 1
          /\ \A i \in 1 .. n - 2 : ~steps[i].restores
      BY <1>2, <2>1 DEF Ending
    <2> HIDE DEF n, t
    <2>3. t[n - 1] = RestoringVerify(c)
      BY <2>1, <2>2
    <2>4. n - 1 > 1 => t[n - 2] = RestoringWrite(c)
      BY <2>1, <2>2
    <2>5. \A i \in 1 .. n - 3 : ~t[i].restores
      <3> TAKE i \in 1 .. n - 3
      <3>1. i \in 1 .. n - 1 /\ i + 1 \in 1 .. n - 2
        BY <2>1
      <3> QED
        BY <2>1, <2>2, <3>1
    <2>6. Ending(t, c)
      <3>1. n - 1 # 0 /\ n - 1 - 1 = n - 2 /\ n - 1 - 2 = n - 3
        BY <2>1, <2>2
      <3> QED
        BY <2>1, <2>3, <2>4, <2>5, <3>1 DEF Ending
    <2>7. ~(steps[1].restores /\ steps[1].op = "verify")
      <3>1. CASE n = 2
        BY <2>2, <3>1, StepFacts
      <3>2. CASE n # 2
        <4>1. 1 \in 1 .. n - 2
          BY <2>1, <2>2, <3>2
        <4> QED
          BY <2>2, <4>1
      <3> QED
        BY <3>1, <3>2
    <2> QED
      BY <2>1, <2>6, <2>7 DEF t
  <1> QED
    BY <1>1, <1>2

-----------------------------------------------------------------------------
(* The selftest's debt                                                     *)

\* A whole session, and masks where masks belong.
Base ==
    /\ IsWhole(session) /\ session.completed \in Nat /\ session.original \in Masks
    /\ control \in Masks

SelfTestInv == Base /\ ScriptOK

Settles == owed # {} /\ owed' = {} /\ restored' => owed = {control'}

LEMMA MaskFacts ==
    ASSUME NEW n \in Nat
    PROVE  One(n) \in Masks /\ FromRaw(n) \in Masks /\ FromRaw(n * 37 + 165) \in Masks /\ NoMask \in Masks
  <1>1. n \in Int /\ n * 37 + 165 \in Int
    OBVIOUS
  <1> QED
    BY <1>1, StepFacts

\* A tick leaves a mask in the mux and a session that has moved.
LEMMA TickBase ==
    ASSUME Base, Tick
    PROVE  Base' /\ script = <<>> /\ script' = script /\ owed' = owed
  <1>1. script = <<>> /\ script' = script /\ owed' = owed
    BY DEF Tick, selftest
  <1>2. CASE TickCleanup
    <2>1. CleanupMask(session) \in Masks
      BY StepFacts DEF CleanupMask, Base
    <2>2. Moves(session, session') /\ control' \in {control, CleanupMask(session)}
      BY <1>2, CleanupFields DEF Base
    <2> QED
      BY <1>1, <2>1, <2>2 DEF Base, Moves
  <1>3. CASE TickMasks
    <2>1. RoundMask(session) \in Masks
      BY MaskFacts DEF RoundMask, Base
    <2>2. Moves(session, session') /\ control' \in {control, RoundMask(session)}
      BY <1>3, MasksFields DEF Base, Works
    <2> QED
      BY <1>1, <2>1, <2>2 DEF Base, Moves
  <1>4. CASE TickScan
    BY <1>1, <1>4, ScanFields DEF Base, Moves
  <1>5. CASE TickTimed(now')
    BY <1>1, <1>5, TimedFields DEF Base, Moves
  <1> QED
    BY <1>2, <1>3, <1>4, <1>5, Zenon DEF Tick

\* A primitive of a script leaves a mask in the mux and the script in order; the
\* last one of a restore settles the debt, and says so only of the mask owed.
LEMMA ScriptBase ==
    ASSUME SelfTestInv, ScriptStep
    PROVE  SelfTestInv' /\ Settles
  <1> DEFINE step == Head(script)
             rest == Tail(script)
  <1>1. script \in Seq(Steps) /\ script # <<>> /\ session' = session /\ Base
    BY Zenon DEF SelfTestInv, ScriptOK, ScriptStep
  <1>2. step \in Steps /\ rest \in Seq(Steps)
    BY <1>1, TailFacts
  <1> PICK ok \in BOOLEAN :
        /\ \/ step.op = "write" /\ DeviceWrite(step.mask, ok)
           \/ /\ step.op = "verify"
              /\ \E read \in BOOLEAN : DeviceRead(read) /\ ok = (read /\ Matches(step.mask))
           \/ step.op = "reset" /\ control' \in {control, NoMask}
        /\ script' = IF ok THEN rest ELSE AfterFailure(rest)
        /\ restored' = StillRestored(step, ok)
        /\ owed' = IF step.restores /\ step.op = "verify" THEN {} ELSE owed
    BY Zenon DEF ScriptStep
  <1> HIDE DEF step, rest
  <1>3. control' \in {control, step.mask, NoMask}
    BY DEF DeviceWrite, DeviceRead
  <1>4. Base'
    <2>1. step.mask \in Masks /\ NoMask \in Masks
      BY <1>2, StepFacts DEF Steps
    <2> QED
      BY <1>1, <1>3, <2>1 DEF Base
  <1>5. CASE owed = {} /\ NoRestore(script)
    <2>1. NoRestore(rest) /\ ~step.restores
      <3>1. /\ Len(rest) = Len(script) - 1 /\ Len(script) \in Nat \ {0} /\ step = script[1]
            /\ \A i \in 1 .. Len(script) - 1 : rest[i] = script[i + 1]
        BY <1>1, TailFacts DEF step, rest
      <3>2. ~script[1].restores
        <4>1. 1 \in 1 .. Len(script)
          BY <3>1
        <4> QED
          BY <1>5, <4>1 DEF NoRestore
      <3>3. ASSUME NEW i \in 1 .. Len(rest) PROVE ~rest[i].restores
        <4>1. i \in 1 .. Len(script) - 1 /\ i + 1 \in 1 .. Len(script)
          BY <3>1
        <4> QED
          BY <1>5, <3>1, <4>1 DEF NoRestore
      <3> QED
        BY <3>1, <3>2, <3>3 DEF NoRestore
    <2>2. script' \in Seq(Steps) /\ NoRestore(script')
      <3>1. AfterFailure(rest) = <<>>
        BY <1>2, <2>1, AfterFailureFacts
      <3>2. <<>> \in Seq(Steps) /\ NoRestore(<<>>)
        BY DEF NoRestore
      <3>3. script' = rest \/ script' = <<>>
        BY <3>1
      <3> QED
        BY <1>2, <2>1, <3>2, <3>3
    <2>3. owed' = {}
      BY <1>5, <2>1
    <2> QED
      BY <1>4, <1>5, <2>2, <2>3 DEF SelfTestInv, ScriptOK, Settles
  <1>6. ASSUME NEW c \in Masks, owed = {c}, Ending(script, c) PROVE SelfTestInv' /\ Settles
    <2>1. CASE Len(script) = 1 /\ step = RestoringVerify(c) /\ rest = <<>>
      <3>1. step.restores /\ step.op = "verify" /\ step.mask = c
        BY <2>1, StepFacts
      <3>2. owed' = {}
        BY <3>1
      <3>3. NoRestore(<<>>) /\ <<>> \in Seq(Steps)
        BY DEF NoRestore
      <3>4. AfterFailure(<<>>) = <<>>
        BY <3>3, AfterFailureFacts
      <3>5. script' = <<>>
        BY <2>1, <3>4
      <3>6. restored' => control' = c
        BY <3>1 DEF StillRestored, DeviceRead, Matches
      <3>7. owed' = {} /\ script' \in Seq(Steps) /\ NoRestore(script')
        BY <3>2, <3>3, <3>5
      <3> QED
        BY <1>4, <1>6, <3>6, <3>7 DEF SelfTestInv, ScriptOK, Settles
    <2>2. CASE ~(step.restores /\ step.op = "verify") /\ Ending(rest, c)
      <3>1. owed' = {c}
        BY <1>6, <2>2
      <3>2. AfterFailure(rest) \in Seq(Steps) /\ Ending(AfterFailure(rest), c)
        BY <1>2, <2>2, AfterFailureFacts
      <3>3. script' \in Seq(Steps) /\ Ending(script', c)
        BY <1>2, <2>2, <3>2
      <3> QED
        BY <1>4, <3>1, <3>3 DEF SelfTestInv, ScriptOK, Settles
    <2> QED
      BY <1>1, <1>6, <2>1, <2>2, EndingTail DEF step, rest
  <1> QED
    BY <1>5, <1>6 DEF SelfTestInv, ScriptOK

LEMMA SelfTestInit == Init => SelfTestInv
  <1> SUFFICES ASSUME Init PROVE SelfTestInv
    OBVIOUS
  <1>1. session = NoSession /\ control \in Masks /\ script = <<>> /\ owed = {}
    BY DEF Init
  <1>2. NoMask \in Masks
    BY StepFacts
  <1>3. Base
    BY <1>1, <1>2, NoSessionFields DEF Base
  <1>4. ScriptOK
    BY <1>1 DEF ScriptOK, NoRestore
  <1> QED
    BY <1>3, <1>4 DEF SelfTestInv

\* A command starts from an empty script and from no debt.
LEMMA SelfTestStep ==
    ASSUME SelfTestInv, [Next]_vars
    PROVE  SelfTestInv' /\ Settles
  <1> Base /\ ScriptOK
    BY DEF SelfTestInv
  <1>0. script = <<>> => owed = {}
    BY DEF ScriptOK, Ending
  <1>a. ASSUME Base', script' \in Seq(Steps), NoRestore(script'), owed = {}, owed' = {}
        PROVE  SelfTestInv' /\ Settles
    BY <1>a DEF SelfTestInv, ScriptOK, Settles
  <1>b. ASSUME Base', script' = script, owed' = owed PROVE SelfTestInv' /\ Settles
    BY <1>b DEF SelfTestInv, ScriptOK, Settles
  <1>c. <<>> \in Seq(Steps) /\ NoRestore(<<>>)
    BY DEF NoRestore
  <1>1. ASSUME NEW kind, Start(kind) PROVE SelfTestInv' /\ Settles
    <2>1. PICK count, interval : session' = Request(kind, count, interval)
      BY <1>1, StartFields
    <2>2. /\ Only({"kind", "running", "target", "interval", "started", "next", "duration",
                   "address"}, NoSession, session')
      BY <2>1, RequestFields DEF Fresh
    <2>3. IsWhole(session') /\ session'.completed = 0 /\ session'.original = NoMask
      BY <2>2, NoSessionFields DEF Only, Names
    <2>4. control' = control /\ script' = script /\ owed' = owed
      BY <1>1, Zenon DEF Start, bus, selftest
    <2>5. Base'
      BY <2>3, <2>4, StepFacts DEF Base
    <2> QED
      BY <1>b, <2>4, <2>5
  <1>2. CASE Stop
    <2>1. Moves(session, session')
      BY <1>2, StopFields DEF Base, Works
    <2>2. control' = control /\ script' = script /\ owed' = owed
      BY <1>2, Zenon DEF Stop, bus, selftest
    <2>3. Base'
      BY <2>1, <2>2 DEF Base, Moves
    <2> QED
      BY <1>b, <2>2, <2>3
  <1>3. CASE StatsReset
    <2>1. session' = NoSession /\ control' = control /\ script' = script /\ owed' = owed
      BY <1>3, Zenon DEF StatsReset, bus, selftest
    <2>2. Base'
      BY <2>1, NoSessionFields, StepFacts DEF Base
    <2> QED
      BY <1>b, <2>1, <2>2
  <1>4. CASE End \/ ReadCommand \/ WriteCommand
    <2>1. session' = session /\ script' = script /\ owed' = owed
      BY <1>4, Zenon DEF End, ReadCommand, WriteCommand, selftest
    <2>2. control' \in Masks
      BY <1>4 DEF End, ReadCommand, WriteCommand, DeviceRead, DeviceWrite, bus, Base
    <2>3. Base'
      BY <2>1, <2>2 DEF Base
    <2> QED
      BY <1>b, <2>1, <2>3
  <1>5. CASE BeginDriver
    <2>1. /\ session' = session /\ control' = control /\ owed' = owed /\ script = <<>>
          /\ script' = <<Write(NoMask), Verify(NoMask)>>
      BY <1>5, Zenon DEF BeginDriver, Ready, DeviceRead
    <2>2. <<Write(NoMask), Verify(NoMask)>> \in Seq(Steps) /\ NoRestore(<<Write(NoMask), Verify(NoMask)>>)
      <3>1. /\ Write(NoMask) \in Steps /\ ~Write(NoMask).restores
            /\ Verify(NoMask) \in Steps /\ ~Verify(NoMask).restores
        BY StepFacts
      <3> QED
        BY <3>1 DEF NoRestore
    <2>3. Base'
      BY <2>1 DEF Base
    <2> QED
      BY <1>0, <1>a, <2>1, <2>2, <2>3
  <1>6. CASE ChangeOneBit
    <2>1. /\ session' = session /\ control' = control /\ owed' = owed /\ script = <<>>
      BY <1>6, Zenon DEF ChangeOneBit, Ready, DeviceRead
    <2>2. script' = <<>> \/ \E mask \in Masks : script' = <<Write(mask)>>
      <3> PICK channel \in Channels : \E ok \in BOOLEAN :
            script' \in IF ok THEN {<<Write(control \cup {channel})>>,
                                    <<Write(control \ {channel})>>}
                        ELSE {<<>>}
        BY <1>6, Zenon DEF ChangeOneBit
      <3>1. control \cup {channel} \in Masks /\ control \ {channel} \in Masks
        BY DEF Base, Masks
      <3> QED
        BY <3>1
    <2>3. script' \in Seq(Steps) /\ NoRestore(script')
      <3>1. ASSUME NEW mask \in Masks PROVE <<Write(mask)>> \in Seq(Steps) /\ NoRestore(<<Write(mask)>>)
        <4>1. Write(mask) \in Steps /\ ~Write(mask).restores
          BY StepFacts
        <4> QED
          BY <4>1 DEF NoRestore
      <3> QED
        BY <1>c, <2>2, <3>1
    <2>4. Base'
      BY <2>1 DEF Base
    <2> QED
      BY <1>0, <1>a, <2>1, <2>3, <2>4
  <1>7. CASE HardReset
    <2>1. /\ session' = session /\ control' = control /\ owed' = owed /\ script = <<>>
          /\ script' = <<Reset>>
      BY <1>7, Zenon DEF HardReset, Ready, bus
    <2>2. <<Reset>> \in Seq(Steps) /\ NoRestore(<<Reset>>)
      <3>1. Reset \in Steps /\ ~Reset.restores
        BY StepFacts
      <3> QED
        BY <3>1 DEF NoRestore
    <2>3. Base'
      BY <2>1 DEF Base
    <2> QED
      BY <1>0, <1>a, <2>1, <2>2, <2>3
  <1>8. CASE SelfTest
    <2> PICK probed \in BOOLEAN, ok \in BOOLEAN, reset \in BOOLEAN :
          /\ DeviceRead(probed /\ ok)
          /\ script' = IF probed /\ ok THEN MaskChecks(reset) \o Restore(control) ELSE <<>>
          /\ owed' = IF probed /\ ok THEN {control} ELSE {}
      BY <1>8, Zenon DEF SelfTest
    <2>1. session' = session /\ control' = control /\ script = <<>>
      BY <1>8, Zenon DEF SelfTest, Ready, DeviceRead
    <2>2. Base'
      BY <2>1 DEF Base
    <2>3. CASE probed /\ ok
      <3>1. script' = MaskChecks(reset) \o Restore(control) /\ owed' = {control} /\ control \in Masks
        BY <2>3 DEF Base
      <3>2. \A c \in Masks : /\ MaskChecks(reset) \o Restore(c) \in Seq(Steps)
                             /\ Ending(MaskChecks(reset) \o Restore(c), c)
        BY SelfTestScript
      <3>3. script' \in Seq(Steps) /\ Ending(script', control)
        BY <3>1, <3>2
      <3>4. SelfTestInv'
        BY <2>2, <3>1, <3>3 DEF SelfTestInv, ScriptOK
      <3> QED
        BY <1>0, <2>1, <3>4 DEF Settles
    <2>4. CASE ~(probed /\ ok)
      <3>1. script' = <<>> /\ owed' = {}
        BY <2>4
      <3> QED
        BY <1>0, <1>a, <1>c, <2>1, <2>2, <3>1
    <2> QED
      BY <2>3, <2>4
  <1>9. CASE ScriptStep
    BY <1>9, ScriptBase
  <1>10. CASE Tick
    BY <1>10, <1>b, TickBase
  <1>11. CASE Disturb \/ UNCHANGED vars
    <2>1. session' = session /\ script' = script /\ owed' = owed /\ control' \in Masks
      BY <1>11 DEF Disturb, vars, bus, selftest, Base
    <2>2. Base'
      BY <2>1 DEF Base
    <2> QED
      BY <1>b, <2>1, <2>2
  <1> QED
    BY <1>1, <1>2, <1>3, <1>4, <1>5, <1>6, <1>7, <1>8, <1>9, <1>10, <1>11, Zenon DEF Next, Command

\* A selftest that captured the entry mask has its restore still to come until it
\* is reported on, whatever fails on the way.
THEOREM SelfTestOwesRestoreAlways == Spec => []SelfTestOwesRestore
  <1>1. Init => SelfTestInv
    BY SelfTestInit
  <1>2. SelfTestInv /\ [Next]_vars => SelfTestInv'
    BY SelfTestStep
  <1>3. SelfTestInv => SelfTestOwesRestore
    BY DEF SelfTestInv, ScriptOK, Ending, SelfTestOwesRestore
  <1> QED
    BY <1>1, <1>2, <1>3, PTL DEF Spec

\* "final verified mask restore" is only said of a mux that holds the entry mask.
THEOREM SelfTestRestoresAlways == Spec => SelfTestRestores
  <1>1. Init => SelfTestInv
    BY SelfTestInit
  <1>2. SelfTestInv /\ [Next]_vars => SelfTestInv' /\ [Settles]_vars
    BY SelfTestStep
  <1> QED
    BY <1>1, <1>2, PTL DEF Spec, SelfTestRestores, Settles

-----------------------------------------------------------------------------
(* The bus, and the report of a cleanup                                    *)

BusInv == SelfTestInv /\ OneUserOfTheBus

CleanupStep ==
    Ends /\ session'.cleanup = "OK"
         /\ \/ session.kind \in {"STRESS", "MIX"}
            \/ session.kind = "SWEEP" /\ session'.captured
      => control' = CleanupMask(session')

\* Only a cleanup's readback ends a run that has something to clean up.
LEMMA CleanupReport ==
    ASSUME Base, Tick
    PROVE  CleanupStep
  <1>1. IsWhole(session)
    BY DEF Base
  <1>2. CASE TickCleanup
    <2>1. CASE /\ session.phase = 0
               /\ Only({"successes", "failures", "cleanup", "phase"}, session, session')
      BY <2>1 DEF Only, Names, CleanupStep, Ends
    <2>2. CASE /\ control' = control
               /\ Only({"successes", "failures", "cleanup", "running"}, session, session')
               /\ session'.cleanup = "OK" => control = CleanupMask(session)
      <3>1. session'.kind = session.kind /\ session'.original = session.original
        BY <2>2 DEF Only, Names
      <3>2. CleanupMask(session') = CleanupMask(session)
        BY <3>1 DEF CleanupMask
      <3> QED
        BY <2>2, <3>2 DEF CleanupStep
    <2> QED
      BY <1>1, <1>2, <2>1, <2>2, CleanupFields
  <1>3. CASE TickMasks
    <2>1. CASE GivesUp(session')
      BY <2>1 DEF GivesUp, NeedsCleanup, CleanupStep, Ends
    <2>2. CASE Only({"successes", "original", "captured"}, session, session')
      BY <2>2 DEF Only, Names, CleanupStep, Ends
    <2>3. ASSUME NEW s, session' = Advanced(s), Only({"successes", "expected"}, session, s)
          PROVE  CleanupStep
      <3>1. s.running = session.running /\ IsWhole(s)
        BY <2>3 DEF Only, Names
      <3>2. Advanced(s).running = s.running
        BY <3>1, AdvancedFields DEF Only, Names
      <3> QED
        BY <2>3, <3>1, <3>2 DEF CleanupStep, Ends
    <2> QED
      BY <1>1, <1>3, <2>1, <2>2, <2>3, MasksFields DEF Primitive
  <1>4. CASE TickScan \/ TickTimed(now')
    BY <1>1, <1>4, ScanFields, TimedFields DEF CleanupStep
  <1> QED
    BY <1>2, <1>3, <1>4, Zenon DEF Tick

LEMMA BusInit == Init => BusInv
  BY SelfTestInit, NoSessionFields DEF BusInv, OneUserOfTheBus, Init

LEMMA BusStep ==
    ASSUME BusInv, [Next]_vars
    PROVE  BusInv' /\ CleanupStep
  <1> Base /\ OneUserOfTheBus
    BY DEF BusInv, SelfTestInv
  <1> SUFFICES OneUserOfTheBus' /\ CleanupStep
    BY SelfTestStep DEF BusInv
  <1>1. ASSUME NEW kind \in Kinds, Start(kind) PROVE OneUserOfTheBus' /\ CleanupStep
    <2>1. /\ script = <<>> /\ script' = script /\ bound' = bound /\ ~session.running
          /\ kind = "DISCOVER" \/ bound
      BY <1>1, Zenon DEF Start, Ready, Startable, selftest
    <2> PICK count, interval : session' = Request(kind, count, interval)
      BY <1>1, StartFields
    <2>2. session'.kind = kind
      <3>1. Fresh(session', kind, count, interval)
        BY RequestFields, Zenon
      <3> QED
        BY <3>1 DEF Fresh
    <2>3. OneUserOfTheBus'
      BY <2>1, <2>2, Zenon DEF OneUserOfTheBus
    <2> QED
      BY <2>1, <2>3, Zenon DEF CleanupStep, Ends
  <1>2. CASE Stop
    <2>1. session'.kind = session.kind /\ session.running /\ script' = script /\ bound' = bound
      BY <1>2, StopFields DEF Stop, selftest, Base, Works, Moves, Fixed
    <2>2. /\ session'.captured = session.captured
          /\ NeedsCleanup(session) => session'.running = session.running
      BY <1>2, StopFields DEF Base
    <2> QED
      <3>1. OneUserOfTheBus'
        BY <2>1, Zenon DEF OneUserOfTheBus
      <3>2. CleanupStep
        BY <2>1, <2>2 DEF CleanupStep, Ends, NeedsCleanup
      <3> QED
        BY <3>1, <3>2
  <1>3. CASE StatsReset \/ BeginDriver \/ End \/ ReadCommand \/ WriteCommand \/ ChangeOneBit
             \/ HardReset \/ SelfTest
    <2>1. ~session.running /\ (session' = session \/ session' = NoSession)
      BY <1>3, Zenon DEF StatsReset, BeginDriver, End, ReadCommand, WriteCommand, ChangeOneBit,
                         HardReset, SelfTest, Ready
    <2> QED
      BY <2>1, NoSessionFields, Zenon DEF OneUserOfTheBus, CleanupStep, Ends
  <1>4. CASE ScriptStep
    <2>1. script # <<>> /\ session' = session
      BY <1>4, Zenon DEF ScriptStep
    <2> QED
      BY <2>1, Zenon DEF OneUserOfTheBus, CleanupStep, Ends
  <1>5. CASE Tick
    <2>1. script' = script /\ bound' = bound /\ session.running
      BY <1>5, Zenon DEF Tick, selftest
    <2>2. session'.kind = session.kind
      BY <1>5, CleanupFields, MasksFields, ScanFields, TimedFields
         DEF Tick, Base, Works, Moves, Fixed
    <2> QED
      <3>1. OneUserOfTheBus'
        BY <2>1, <2>2, Zenon DEF OneUserOfTheBus
      <3> QED
        BY <1>5, <3>1, CleanupReport
  <1>6. CASE Disturb \/ UNCHANGED vars
    <2>1. session' = session /\ script' = script /\ bound' = bound
      BY <1>6, Zenon DEF Disturb, vars, selftest
    <2> QED
      BY <2>1, Zenon DEF OneUserOfTheBus, CleanupStep, Ends
  <1> QED
    BY <1>1, <1>2, <1>3, <1>4, <1>5, <1>6, Zenon DEF Next, Command

\* While a session runs no synchronous command is under way and the driver it
\* uses stays bound, whatever the user types and however I2C fails.
THEOREM OneUserOfTheBusAlways == Spec => []OneUserOfTheBus
  <1>1. Init => BusInv
    BY BusInit
  <1>2. BusInv /\ [Next]_vars => BusInv'
    BY BusStep
  <1>3. BusInv => OneUserOfTheBus
    BY DEF BusInv
  <1> QED
    BY <1>1, <1>2, <1>3, PTL DEF Spec

\* "Cleanup: verified" is only said of a mux that holds the cleanup mask, for
\* every count, every interval and every failure on the way.
THEOREM CleanupIsVerifiedAlways == Spec => CleanupIsVerified
  <1>1. Init => BusInv
    BY BusInit
  <1>2. BusInv /\ [Next]_vars => BusInv' /\ [CleanupStep]_vars
    BY BusStep
  <1> QED
    BY <1>1, <1>2, PTL DEF Spec, CleanupIsVerified, CleanupStep

-----------------------------------------------------------------------------
(* What a session that may still pass has done                             *)

\* A run in rounds: the rounds asked for, then the cleanup.
Rounds(last) ==
    /\ session.target \in Nat \ {0} /\ session.completed <= session.target
    /\ session.restoring => session.completed = session.target /\ session.phase \in {0, 1}
    /\ ~session.restoring => session.completed < session.target /\ session.phase \in 0 .. last

StressOK ==
    /\ Rounds(1) /\ session.target \in Counts
    /\ session.successes = 2 * session.completed + session.phase
    /\ ~session.restoring /\ session.phase = 1 => session.expected = One(session.completed)
    /\ visited = {One(i) : i \in 0 .. session.completed - 1}

MixOK ==
    /\ Rounds(6) /\ session.target \in Counts
    /\ session.successes = 7 * session.completed + session.phase
    /\ ~session.restoring /\ session.phase = 1 => session.expected = One(session.completed)
    /\ ~session.restoring /\ session.phase = 6 => session.expected = NoMask
    /\ ~session.restoring /\ session.phase > 1 => One(session.completed) \in visited
    /\ {One(i) : i \in 0 .. session.completed - 1} \subseteq visited
    /\ session.completed > 0 => NoMask \in visited

SweepOK ==
    /\ Rounds(1) /\ session.target = NumMasks
    /\ session.captured => session.successes = 2 * session.completed + session.phase + 1
    /\ ~session.captured => /\ session.completed = 0 /\ session.phase = 0
                            /\ session.successes = 0 /\ ~session.restoring
    /\ ~session.restoring /\ session.phase = 1 => session.expected = FromRaw(session.completed)
    /\ visited = {FromRaw(i) : i \in 0 .. session.completed - 1}

\* A scan has answered for every address before the next one.
ScanOK(first) ==
    /\ session.target = LastAddress - first + 1
    /\ session.address \in first .. LastAddress /\ session.completed = session.address - first
    /\ session.found \in 0 .. session.completed /\ session.scanErrors = 0
    /\ visited = first .. session.address - 1

WatchOK ==
    /\ session.target \in Counts /\ session.completed < session.target
    /\ session.successes = session.completed

\* Every sample of a soak showed the mask of the first one.
SoakOK ==
    /\ session.completed = 0 => visited = {}
    /\ session.completed > 0 => visited = {session.expected}

Account ==
    /\ session.failures = 0
    /\ session.restoring => session.kind \in RouteKinds
    /\ session.kind = "STRESS" => StressOK
    /\ session.kind = "MIX" => MixOK
    /\ session.kind = "SWEEP" => SweepOK
    /\ session.kind = "SCAN" => ScanOK(FirstScan)
    /\ session.kind = "DISCOVER" => ScanOK(FirstCandidate)
    /\ session.kind = "WATCH" => WatchOK
    /\ session.kind = "SOAK" => SoakOK

\* A running session has its books in order unless it has failed, and only a
\* cleanup's write can have gone wrong for it without ending it.
SessionOK ==
    session.running =>
        /\ session.cleanup # "OK" => session.restoring /\ session.phase # 0
        /\ Succeeds(session) => Account

\* A scan, a watch or a soak ends with its first failure.
FailsAtOnce ==
    session.running /\ session.kind \notin RouteKinds => Succeeds(session)


-----------------------------------------------------------------------------
(* A tick of a session that may still pass                                 *)

LEMMA NoWrap ==
    ASSUME NEW n \in Nat, n + 1 < CountSize
    PROVE  (n + 1) % CountSize = n + 1
  BY ConsoleAssumption

LEMMA OneMore ==
    ASSUME NEW n \in Nat
    PROVE  /\ {One(i) : i \in 0 .. (n + 1) - 1} = {One(i) : i \in 0 .. n - 1} \cup {One(n)}
           /\ {FromRaw(i) : i \in 0 .. (n + 1) - 1} = {FromRaw(i) : i \in 0 .. n - 1} \cup {FromRaw(n)}
  <1>1. 0 .. (n + 1) - 1 = (0 .. n - 1) \cup {n}
    OBVIOUS
  <1> QED
    BY <1>1, Zenon

\* The counters of a request that is granted do not wrap.
LEMMA CountFacts ==
    ASSUME NEW n \in Counts
    PROVE  n \in Nat \ {0} /\ 7 * n + 2 < CountSize
  BY ConsoleAssumption

\* A session that may still pass could pass before.
LEMMA SoundBefore ==
    ASSUME Base, SessionOK, session.running, Tick, Succeeds(session')
    PROVE  Succeeds(session) /\ Account
  <1>0. IsWhole(session)
    BY DEF Base
  <1>1. CASE TickCleanup
    <2>1. session'.primary = session.primary /\ session'.cancelled = session.cancelled
          /\ session.cleanup = "OK"
      BY <1>0, <1>1, CleanupFields DEF Only, Names, SessionOK, Succeeds
    <2> QED
      BY <2>1 DEF SessionOK, Succeeds
  <1>2. CASE TickMasks
    <2>1. session'.primary = session.primary /\ session'.cancelled = session.cancelled
          /\ session'.cleanup = session.cleanup
      <3>1. session'.primary = "OK"
        BY DEF Succeeds
      <3>2. ASSUME NEW s, session' = Advanced(s), Primitive(s, RoundOp(session), RoundMask(session))
            PROVE  session'.primary = session.primary /\ session'.cancelled = session.cancelled
        <4>1. Only({"successes", "expected"}, session, s) /\ IsWhole(s)
          BY <3>2 DEF Primitive, Only
        <4>2. Only({"phase", "completed", "restoring"}, s, session')
          BY <3>2, <4>1, AdvancedFields
        <4> QED
          BY <4>1, <4>2 DEF Only, Names
      <3>3. CASE Only({"successes", "original", "captured"}, session, session')
        BY <3>3 DEF Only, Names
      <3> QED
        BY <1>0, <1>2, <3>1, <3>2, <3>3, MasksFields DEF Works, GivesUp
    <2> QED
      BY <2>1 DEF SessionOK, Succeeds
  <1>3. CASE TickScan
    BY <1>0, <1>3, ScanFields DEF Only, Names, SessionOK, Succeeds
  <1>4. CASE TickTimed(now')
    BY <1>0, <1>4, TimedFields DEF TakesSample, Only, Names, SessionOK, Succeeds
  <1> QED
    BY <1>1, <1>2, <1>3, <1>4, Zenon DEF Tick

\* A round's primitive that succeeds.
RoundStep(last) ==
    /\ Only({"successes", "expected", "phase", "completed", "restoring"}, session, session')
    /\ session'.successes = session.successes + 1
    /\ session'.expected = IF RoundOp(session) = "write" THEN RoundMask(session) ELSE session.expected
    /\ visited' = IF RoundOp(session) = "verify" THEN visited \cup {session.expected} ELSE visited
    /\ ~session.restoring
    /\ session.phase < last => /\ session'.phase = session.phase + 1 /\ ~session'.restoring
                               /\ session'.completed = session.completed
    /\ session.phase = last => /\ session'.phase = 0 /\ session'.completed = session.completed + 1
                               /\ session'.restoring <=> session.completed + 1 = session.target
    /\ Rounds(last)'

LEMMA RoundTick ==
    ASSUME Base, TickMasks, Succeeds(session'), NEW last \in {1, 6}, last = LastPhase(session),
           session.kind = "SWEEP" => session.captured, Rounds(last),
           session.successes \in Nat, session.successes + 1 < CountSize
    PROVE  RoundStep(last)
  <1>1. IsWhole(session) /\ session'.primary = "OK" /\ ~session.restoring
    BY DEF Base, Succeeds, TickMasks
  <1>2. PICK s : session' = Advanced(s) /\ Primitive(s, RoundOp(session), RoundMask(session))
    BY <1>1, MasksFields DEF GivesUp
  <1>3. visited' = IF RoundOp(session) = "verify" THEN visited \cup {session.expected} ELSE visited
    BY <1>1, MasksFields DEF GivesUp
  <1>4. /\ Only({"successes", "expected"}, session, s) /\ IsWhole(s)
        /\ s.successes = session.successes + 1
        /\ s.expected = IF RoundOp(session) = "write" THEN RoundMask(session) ELSE session.expected
    BY <1>2, NoWrap DEF Primitive, Only
  <1>5. /\ s.phase = session.phase /\ s.completed = session.completed /\ s.target = session.target
        /\ s.restoring = session.restoring /\ s.kind = session.kind
    BY <1>4 DEF Only, Names
  <1>6. LastPhase(s) = last
    BY <1>5 DEF LastPhase
  <1>7. /\ Only({"phase", "completed", "restoring"}, s, session')
        /\ session.phase < last => /\ session'.phase = session.phase + 1
                                   /\ session'.completed = session.completed
                                   /\ session'.restoring = session.restoring
        /\ ~(session.phase < last) =>
                /\ session'.phase = 0 /\ session'.completed = session.completed + 1
                /\ session'.restoring = IF session.completed + 1 = session.target THEN TRUE ELSE session.restoring
    <2>1. /\ Only({"phase", "completed", "restoring"}, s, Advanced(s))
          /\ s.phase < LastPhase(s) => /\ Advanced(s).phase = s.phase + 1
                                       /\ Advanced(s).completed = s.completed
                                       /\ Advanced(s).restoring = s.restoring
          /\ ~(s.phase < LastPhase(s)) =>
               /\ Advanced(s).phase = 0 /\ Advanced(s).completed = s.completed + 1
               /\ Advanced(s).restoring = IF s.completed + 1 = s.target THEN TRUE ELSE s.restoring
      BY <1>4, AdvancedFields
    <2>2. session' = Advanced(s)
      BY <1>2
    <2> QED
      BY <1>5, <1>6, <2>1, <2>2, Zenon
  <1>8. Only({"successes", "expected", "phase", "completed", "restoring"}, session, session')
    <2>1. Only({"successes", "expected"} \cup {"phase", "completed", "restoring"}, session, session')
      BY <1>4, <1>7, OnlyThen
    <2> QED
      BY <2>1 DEF Only
  <1>9. /\ session'.successes = session.successes + 1
        /\ session'.expected = IF RoundOp(session) = "write" THEN RoundMask(session) ELSE session.expected
        /\ session'.target = session.target
    BY <1>4, <1>7, <1>8 DEF Only, Names
  <1>10. /\ session.target \in Nat \ {0} /\ session.completed < session.target
         /\ session.phase \in 0 .. last /\ session.completed \in Nat
    BY <1>1 DEF Rounds, Base
  <1>11. CASE session.phase < last
    <2>1. Rounds(last)'
      BY <1>1, <1>7, <1>9, <1>10, <1>11 DEF Rounds
    <2>2. session.phase # last
      BY <1>10, <1>11
    <2> QED
      BY <1>1, <1>3, <1>7, <1>8, <1>9, <1>11, <2>1, <2>2 DEF RoundStep
  <1>12. CASE ~(session.phase < last)
    <2>a. session.phase = last
      BY <1>10, <1>12
    <2>2. session'.restoring <=> session.completed + 1 = session.target
      BY <1>1, <1>7, <1>12
    <2>b. /\ session'.phase = 0 /\ session'.completed = session.completed + 1
          /\ session'.target = session.target
      BY <1>7, <1>9, <1>12
    <2>1. Rounds(last)'
      BY <1>10, <2>b, <2>2 DEF Rounds
    <2> QED
      BY <1>1, <1>3, <1>8, <1>9, <1>12, <2>1, <2>2, <2>b DEF RoundStep
  <1> QED
    BY <1>11, <1>12

\* A cleanup's primitive that succeeds; the second one ends the session.
CleanupStepOK(last) ==
    /\ Only({"successes", "failures", "cleanup", "phase", "running"}, session, session')
    /\ session'.successes = session.successes + 1 /\ session'.failures = session.failures
    /\ session.restoring /\ visited' = visited /\ session.completed = session.target
    /\ \/ /\ session.phase = 0 /\ session'.phase = 1 /\ Rounds(last)'
          /\ session'.running = session.running
       \/ session.phase = 1 /\ ~session'.running

LEMMA CleanupTick ==
    ASSUME Base, TickCleanup, Succeeds(session'), NEW last \in {1, 6}, Rounds(last),
           session.successes \in Nat, session.successes + 1 < CountSize
    PROVE  CleanupStepOK(last)
  <1>1. IsWhole(session) /\ session'.cleanup = "OK"
    BY DEF Base, Succeeds
  <1>2. session.restoring /\ visited' = visited
    BY <1>1, CleanupFields
  <1>3. /\ session.completed = session.target /\ session.phase \in {0, 1}
        /\ session.target \in Nat \ {0}
    BY <1>2 DEF Rounds
  <1>4. (session.successes + 1) % CountSize = session.successes + 1
    BY NoWrap
  <1>5. CASE /\ session.phase = 0
             /\ Only({"successes", "failures", "cleanup", "phase"}, session, session')
             /\ session'.phase = 1
             /\ session'.failures = session.failures
             /\ session'.successes = (session.successes + 1) % CountSize
    <2>1. /\ session'.target = session.target /\ session'.completed = session.completed
          /\ session'.restoring = session.restoring /\ session'.running = session.running
      BY <1>5 DEF Only, Names
    <2>2. Rounds(last)'
      BY <1>2, <1>3, <1>5, <2>1 DEF Rounds
    <2>3. Only({"successes", "failures", "cleanup", "phase", "running"}, session, session')
      BY <1>5 DEF Only
    <2> QED
      BY <1>2, <1>3, <1>4, <1>5, <2>1, <2>2, <2>3 DEF CleanupStepOK
  <1>6. CASE /\ session.phase # 0
             /\ Only({"successes", "failures", "cleanup", "running"}, session, session')
             /\ session'.running = FALSE
             /\ session'.failures = session.failures
             /\ session'.successes = (session.successes + 1) % CountSize
    <2>1. Only({"successes", "failures", "cleanup", "phase", "running"}, session, session')
      BY <1>6 DEF Only
    <2> QED
      BY <1>2, <1>3, <1>4, <1>6, <2>1 DEF CleanupStepOK
  <1> QED
    BY <1>1, <1>5, <1>6, CleanupFields

\* What a stress run that passes has done, and likewise below.
StressDone ==
    /\ session'.completed = session.target /\ session'.successes = 2 * session.target + 2
    /\ visited' = {One(i) : i \in 0 .. session.target - 1}

LEMMA StressTick ==
    ASSUME Base, session.kind = "STRESS", StressOK, Succeeds(session'), TickCleanup \/ TickMasks
    PROVE  session'.failures = session.failures /\ IF session'.running THEN StressOK' ELSE session.running => StressDone
  <1>1. /\ session.target \in Nat \ {0} /\ 7 * session.target + 2 < CountSize
        /\ session.target \in Counts /\ Rounds(1) /\ session.completed \in Nat
        /\ session.successes = 2 * session.completed + session.phase
        /\ visited = {One(i) : i \in 0 .. session.completed - 1}
    BY CountFacts DEF StressOK, Base
  <1>2. session.successes \in Nat /\ session.successes + 1 < CountSize
    BY <1>1, ConsoleAssumption DEF Rounds
  <1>3. CASE TickCleanup
    <2>1. CleanupStepOK(1)
      BY <1>1, <1>2, <1>3, CleanupTick
    <2>2. /\ session'.successes = session.successes + 1 /\ session'.failures = session.failures
          /\ session.restoring /\ visited' = visited /\ session.completed = session.target
          /\ session'.target = session.target /\ session'.completed = session.completed
          /\ session'.restoring = session.restoring
      BY <2>1 DEF CleanupStepOK, Only, Names
    <2>3. CASE /\ session.phase = 0 /\ session'.phase = 1 /\ Rounds(1)'
               /\ session'.running = session.running
      <3>1. StressOK'
        BY <1>1, <2>2, <2>3 DEF StressOK
      <3> QED
        BY <2>2, <2>3, <3>1
    <2>4. CASE session.phase = 1 /\ ~session'.running
      BY <1>1, <2>2, <2>4 DEF StressDone
    <2> QED
      BY <2>1, <2>3, <2>4 DEF CleanupStepOK
  <1>4. CASE TickMasks
    <2>1. LastPhase(session) = 1
      BY DEF LastPhase
    <2>2. RoundStep(1)
      BY <1>1, <1>2, <1>4, <2>1, RoundTick
    <2>3. /\ session'.successes = session.successes + 1 /\ ~session.restoring
          /\ session'.target = session.target /\ session'.failures = session.failures
          /\ session'.running = session.running
      BY <2>2 DEF RoundStep, Only, Names
    <2>4. session.phase \in {0, 1}
      BY <1>1, <2>3 DEF Rounds
    <2>5. CASE session.phase = 0
      <3>1. RoundOp(session) = "write" /\ RoundMask(session) = One(session.completed)
        BY <2>5 DEF RoundOp, RoundMask
      <3>2. /\ session'.expected = One(session.completed) /\ visited' = visited
            /\ session'.phase = 1 /\ session'.completed = session.completed
        BY <2>2, <2>5, <3>1 DEF RoundStep
      <3>3. StressOK'
        BY <1>1, <2>2, <2>3, <2>5, <3>2 DEF StressOK, RoundStep
      <3> QED
        BY <2>3, <3>3
    <2>6. CASE session.phase = 1
      <3>1. RoundOp(session) = "verify"
        BY <2>6 DEF RoundOp
      <3>2. session.expected = One(session.completed)
        BY <2>3, <2>6 DEF StressOK
      <3>3. /\ visited' = visited \cup {One(session.completed)}
            /\ session'.phase = 0 /\ session'.completed = session.completed + 1
        BY <2>2, <2>6, <3>1, <3>2 DEF RoundStep
      <3>4. visited' = {One(i) : i \in 0 .. session'.completed - 1}
        BY <1>1, <3>3, OneMore
      <3>5. session'.successes = 2 * session'.completed + session'.phase
        BY <1>1, <2>3, <2>6, <3>3
      <3>6. StressOK'
        <4>1. Rounds(1)'
          BY <2>2 DEF RoundStep
        <4> QED
          BY <1>1, <2>3, <3>3, <3>4, <3>5, <4>1 DEF StressOK
      <3> QED
        BY <2>3, <3>6
    <2> QED
      BY <2>4, <2>5, <2>6
  <1> QED
    BY <1>3, <1>4

MixDone ==
    /\ session'.completed = session.target /\ session'.successes = 7 * session.target + 2
    /\ {One(i) : i \in 0 .. session.target - 1} \cup {NoMask} \subseteq visited'

LEMMA MixTick ==
    ASSUME Base, session.kind = "MIX", MixOK, Succeeds(session'), TickCleanup \/ TickMasks
    PROVE  session'.failures = session.failures /\ IF session'.running THEN MixOK' ELSE session.running => MixDone
  <1>1. /\ session.target \in Nat \ {0} /\ 7 * session.target + 2 < CountSize
        /\ session.target \in Counts /\ Rounds(6) /\ session.completed \in Nat
        /\ session.successes = 7 * session.completed + session.phase
        /\ {One(i) : i \in 0 .. session.completed - 1} \subseteq visited
        /\ session.completed > 0 => NoMask \in visited
    BY CountFacts DEF MixOK, Base
  <1>2. session.successes \in Nat /\ session.successes + 1 < CountSize
    BY <1>1, ConsoleAssumption DEF Rounds
  <1>3. CASE TickCleanup
    <2>1. CleanupStepOK(6)
      BY <1>1, <1>2, <1>3, CleanupTick
    <2>2. /\ session'.successes = session.successes + 1 /\ session'.failures = session.failures
          /\ session.restoring /\ visited' = visited /\ session.completed = session.target
          /\ session'.target = session.target /\ session'.completed = session.completed
          /\ session'.restoring = session.restoring
      BY <2>1 DEF CleanupStepOK, Only, Names
    <2>3. CASE /\ session.phase = 0 /\ session'.phase = 1 /\ Rounds(6)'
               /\ session'.running = session.running
      <3>1. MixOK'
        BY <1>1, <2>2, <2>3 DEF MixOK
      <3> QED
        BY <2>2, <2>3, <3>1
    <2>4. CASE session.phase = 1 /\ ~session'.running
      BY <1>1, <2>2, <2>4 DEF MixDone
    <2> QED
      BY <2>1, <2>3, <2>4 DEF CleanupStepOK
  <1>4. CASE TickMasks
    <2>1. LastPhase(session) = 6
      BY DEF LastPhase
    <2>2. RoundStep(6)
      BY <1>1, <1>2, <1>4, <2>1, RoundTick
    <2>3. /\ session'.successes = session.successes + 1 /\ ~session.restoring
          /\ session'.target = session.target /\ session'.failures = session.failures
          /\ session'.running = session.running /\ Rounds(6)'
      BY <2>2 DEF RoundStep, Only, Names
    <2>4. session.phase \in 0 .. 6
      BY <1>1, <2>3 DEF Rounds
    <2>5. /\ session.phase = 0 => RoundOp(session) = "write" /\ RoundMask(session) = One(session.completed)
          /\ session.phase = 1 => RoundOp(session) = "verify"
          /\ session.phase = 5 => RoundOp(session) = "write" /\ RoundMask(session) = NoMask
          /\ session.phase = 6 => RoundOp(session) = "verify"
      BY DEF RoundOp, RoundMask
    <2>6. CASE session.phase < 6
      <3>1. /\ session'.phase = session.phase + 1 /\ session'.completed = session.completed
            /\ ~session'.restoring /\ visited \subseteq visited'
        BY <2>2, <2>6 DEF RoundStep
      <3>2. session'.phase = 1 => session'.expected = One(session'.completed)
        <4>1. session'.phase = 1 => session.phase = 0
          BY <2>4, <3>1
        <4> QED
          BY <2>2, <2>5, <3>1, <4>1 DEF RoundStep
      <3>3. session'.phase = 6 => session'.expected = NoMask
        <4>1. session'.phase = 6 => session.phase = 5
          BY <2>4, <3>1
        <4> QED
          BY <2>2, <2>5, <3>1, <4>1 DEF RoundStep
      <3>4. session'.phase > 1 => One(session'.completed) \in visited'
        <4>1. CASE session.phase > 1
          BY <2>3, <3>1, <4>1 DEF MixOK
        <4>2. CASE session.phase = 1
          BY <2>2, <2>3, <2>5, <3>1, <4>2 DEF MixOK, RoundStep
        <4>3. CASE session.phase = 0
          BY <3>1, <4>3
        <4> QED
          BY <2>4, <4>1, <4>2, <4>3
      <3>5. session'.successes = 7 * session'.completed + session'.phase
        BY <1>1, <2>3, <2>4, <3>1
      <3>6. MixOK'
        BY <1>1, <2>3, <3>1, <3>2, <3>3, <3>4, <3>5 DEF MixOK
      <3> QED
        BY <2>3, <3>6
    <2>7. CASE session.phase = 6
      <3>1. session.expected = NoMask /\ One(session.completed) \in visited
        BY <2>3, <2>7 DEF MixOK
      <3>2. /\ session'.phase = 0 /\ session'.completed = session.completed + 1
            /\ visited' = visited \cup {NoMask}
        BY <2>2, <2>5, <2>7, <3>1 DEF RoundStep
      <3>3. {One(i) : i \in 0 .. session'.completed - 1} \subseteq visited'
        <4>1. {One(i) : i \in 0 .. session'.completed - 1} =
                {One(i) : i \in 0 .. session.completed - 1} \cup {One(session.completed)}
          BY <1>1, <3>2, OneMore
        <4> QED
          BY <1>1, <3>1, <3>2, <4>1
      <3>4. session'.successes = 7 * session'.completed + session'.phase
        BY <1>1, <2>3, <2>7, <3>2
      <3>5. MixOK'
        BY <1>1, <2>3, <3>2, <3>3, <3>4 DEF MixOK
      <3> QED
        BY <2>3, <3>5
    <2> QED
      BY <2>4, <2>6, <2>7
  <1> QED
    BY <1>3, <1>4

SweepDone ==
    /\ session'.completed = session.target /\ session'.successes = 2 * NumMasks + 3
    /\ visited' = Masks

\* A sweep writes every mask there is.
LEMMA EveryMask == {FromRaw(i) : i \in 0 .. NumMasks - 1} = Masks
  <1>1. ASSUME NEW i \in 0 .. NumMasks - 1 PROVE FromRaw(i) \in Masks
    <2>1. i \in Int
      OBVIOUS
    <2> QED
      BY <2>1, StepFacts
  <1> QED
    BY <1>1, RawAssumption

LEMMA SweepTick ==
    ASSUME Base, session.kind = "SWEEP", SweepOK, Succeeds(session'), TickCleanup \/ TickMasks
    PROVE  session'.failures = session.failures /\ IF session'.running THEN SweepOK' ELSE session.running => SweepDone
  <1>1. /\ session.target \in Nat \ {0} /\ 2 * session.target + 3 < CountSize
        /\ session.target = NumMasks /\ Rounds(1) /\ session.completed \in Nat
        /\ visited = {FromRaw(i) : i \in 0 .. session.completed - 1}
    BY RawAssumption, ConsoleAssumption DEF SweepOK, Base
  <1>2. CASE ~session.captured
    <2>1. /\ session.completed = 0 /\ session.phase = 0 /\ session.successes = 0 /\ ~session.restoring
      BY <1>2 DEF SweepOK
    <2>2. TickMasks /\ session'.primary = "OK"
      BY <2>1, CleanupFields DEF Base, Succeeds
    <2>3. /\ Only({"successes", "original", "captured"}, session, session')
          /\ session'.successes = (session.successes + 1) % CountSize
          /\ session'.captured = TRUE /\ visited' = visited
      BY <1>2, <2>2, MasksFields DEF Base, GivesUp
    <2>4. session'.successes = 1
      <3>1. 0 \in Nat /\ 0 + 1 < CountSize
        BY <1>1, ConsoleAssumption
      <3> QED
        BY <2>1, <2>3, <3>1, NoWrap
    <2>5. /\ session'.completed = 0 /\ session'.phase = 0 /\ ~session'.restoring
          /\ session'.target = session.target /\ session'.failures = session.failures
          /\ session'.running = session.running
      BY <2>1, <2>3 DEF Only, Names
    <2>6. Rounds(1)'
      BY <1>1, <2>5 DEF Rounds
    <2>7. SweepOK'
      BY <1>1, <2>1, <2>3, <2>4, <2>5, <2>6 DEF SweepOK
    <2> QED
      BY <2>5, <2>7
  <1>3. CASE session.captured
    <2>0. /\ session.successes = 2 * session.completed + session.phase + 1
          /\ session.successes \in Nat /\ session.successes + 1 < CountSize
      BY <1>1, <1>3, ConsoleAssumption DEF SweepOK, Rounds
    <2>1. CASE TickCleanup
      <3>1. CleanupStepOK(1)
        BY <1>1, <2>0, <2>1, CleanupTick
      <3>2. /\ session'.successes = session.successes + 1 /\ session'.failures = session.failures
            /\ session.restoring /\ visited' = visited /\ session.completed = session.target
            /\ session'.target = session.target /\ session'.completed = session.completed
            /\ session'.restoring = session.restoring /\ session'.captured = session.captured
        BY <3>1 DEF CleanupStepOK, Only, Names
      <3>3. CASE /\ session.phase = 0 /\ session'.phase = 1 /\ Rounds(1)'
                 /\ session'.running = session.running
        <4>1. SweepOK'
          BY <1>1, <1>3, <2>0, <3>2, <3>3 DEF SweepOK
        <4> QED
          BY <3>2, <3>3, <4>1
      <3>4. CASE session.phase = 1 /\ ~session'.running
        <4>1. visited' = Masks
          BY <1>1, <3>2, EveryMask
        <4> QED
          BY <1>1, <2>0, <3>2, <3>4, <4>1 DEF SweepDone
      <3> QED
        BY <3>1, <3>3, <3>4 DEF CleanupStepOK
    <2>2. CASE TickMasks
      <3>1. LastPhase(session) = 1
        BY DEF LastPhase
      <3>2. RoundStep(1)
        BY <1>1, <1>3, <2>0, <2>2, <3>1, RoundTick
      <3>3. /\ session'.successes = session.successes + 1 /\ ~session.restoring
            /\ session'.target = session.target /\ session'.failures = session.failures
            /\ session'.running = session.running /\ session'.captured = session.captured
            /\ Rounds(1)'
        BY <3>2 DEF RoundStep, Only, Names
      <3>4. session.phase \in {0, 1}
        BY <1>1, <3>3 DEF Rounds
      <3>5. CASE session.phase = 0
        <4>1. RoundOp(session) = "write" /\ RoundMask(session) = FromRaw(session.completed)
          BY <3>5 DEF RoundOp, RoundMask
        <4>2. /\ session'.expected = FromRaw(session.completed) /\ visited' = visited
              /\ session'.phase = 1 /\ session'.completed = session.completed
          BY <3>2, <3>5, <4>1 DEF RoundStep
        <4>3. SweepOK'
          BY <1>1, <1>3, <2>0, <3>3, <3>5, <4>2 DEF SweepOK
        <4> QED
          BY <3>3, <4>3
      <3>6. CASE session.phase = 1
        <4>1. RoundOp(session) = "verify"
          BY <3>6 DEF RoundOp
        <4>2. session.expected = FromRaw(session.completed)
          BY <3>3, <3>6 DEF SweepOK
        <4>3. /\ visited' = visited \cup {FromRaw(session.completed)}
              /\ session'.phase = 0 /\ session'.completed = session.completed + 1
          BY <3>2, <3>6, <4>1, <4>2 DEF RoundStep
        <4>4. visited' = {FromRaw(i) : i \in 0 .. session'.completed - 1}
          BY <1>1, <4>3, OneMore
        <4>5. session'.successes = 2 * session'.completed + session'.phase + 1
          BY <1>1, <2>0, <3>3, <3>6, <4>3
        <4>6. SweepOK'
          BY <1>1, <1>3, <3>3, <4>3, <4>4, <4>5 DEF SweepOK
        <4> QED
          BY <3>3, <4>6
      <3> QED
        BY <3>4, <3>5, <3>6
    <2> QED
      BY <2>1, <2>2
  <1> QED
    BY <1>2, <1>3

ScanAnswered(first) ==
    /\ session'.completed = session.target /\ visited' = first .. LastAddress
    /\ session'.scanErrors = 0 /\ session'.found <= session.target

LEMMA ScanTick ==
    ASSUME Base, TickScan, Succeeds(session'), NEW first \in {FirstScan, FirstCandidate}, ScanOK(first)
    PROVE  /\ session'.failures = session.failures
           /\ IF session'.running THEN ScanOK(first)' ELSE session.running => ScanAnswered(first)
  <1>1. IsWhole(session) /\ session'.primary = "OK" /\ first \in Nat /\ LastAddress \in Nat
    BY ConsoleAssumption DEF Base, Succeeds
  <1>2. CASE /\ visited' = visited
             /\ Only({"successes", "phase"}, session, session')
    <2>1. /\ session'.failures = session.failures /\ session'.target = session.target
          /\ session'.address = session.address /\ session'.completed = session.completed
          /\ session'.found = session.found /\ session'.scanErrors = session.scanErrors
          /\ session'.running = session.running
      BY <1>2 DEF Only, Names
    <2>2. ScanOK(first)'
      BY <1>2, <2>1 DEF ScanOK
    <2> QED
      BY <2>1, <2>2
  <1>3. CASE /\ Only({"completed", "found", "address", "running"}, session, session')
             /\ session'.completed = session.completed + 1
             /\ session'.address = session.address + 1
             /\ session'.found \in {session.found, session.found + 1}
             /\ session'.running = IF session.address + 1 > LastAddress THEN FALSE ELSE session.running
             /\ visited' = visited \cup {session.address}
    <2>1. /\ session'.failures = session.failures /\ session'.target = session.target
          /\ session'.scanErrors = session.scanErrors
      BY <1>3 DEF Only, Names
    <2>2. /\ session.target = LastAddress - first + 1
          /\ session.address \in first .. LastAddress /\ session.completed = session.address - first
          /\ session.found \in 0 .. session.completed /\ session.scanErrors = 0
          /\ visited = first .. session.address - 1
      BY DEF ScanOK
    <2>3. visited' = first .. (session.address + 1) - 1
      BY <1>1, <1>3, <2>2
    <2>4. CASE session.address + 1 > LastAddress
      <3>1. session.address = LastAddress
        BY <1>1, <2>2, <2>4
      <3>2. ScanAnswered(first) /\ ~session'.running
        BY <1>1, <1>3, <2>1, <2>2, <2>3, <2>4, <3>1 DEF ScanAnswered
      <3> QED
        BY <2>1, <3>2
    <2>5. CASE ~(session.address + 1 > LastAddress)
      <3>a. session'.address \in first .. LastAddress
        BY <1>1, <1>3, <2>2, <2>5
      <3>b. session'.completed = session'.address - first
        BY <1>1, <1>3, <2>2
      <3>c. session'.found \in 0 .. session'.completed
        BY <1>1, <1>3, <2>2
      <3>1. ScanOK(first)'
        BY <1>3, <2>1, <2>2, <2>3, <3>a, <3>b, <3>c DEF ScanOK
      <3>2. session'.running = session.running
        BY <1>3, <2>5
      <3> QED
        BY <2>1, <3>1, <3>2
    <2> QED
      BY <2>4, <2>5
  <1> QED
    BY <1>1, <1>2, <1>3, ScanFields

WatchDone == session'.completed = session.target /\ session'.successes = session.target

LEMMA WatchTick ==
    ASSUME Base, session.kind = "WATCH", WatchOK, TickTimed(now'), Succeeds(session')
    PROVE  /\ session'.failures = session.failures
           /\ IF session'.running THEN WatchOK' ELSE session.running => WatchDone
  <1>1. /\ session.target \in Counts /\ session.target \in Nat \ {0}
        /\ 7 * session.target + 2 < CountSize
        /\ session.completed \in Nat /\ session.completed < session.target
        /\ session.successes = session.completed
    BY CountFacts DEF WatchOK, Base
  <1>2. CASE session' = session
    BY <1>2 DEF WatchOK
  <1>3. CASE TakesSample
    <2>1. /\ session'.failures = session.failures /\ session'.target = session.target
          /\ session'.completed = session.completed + 1
          /\ session'.successes = (session.successes + 1) % CountSize
          /\ session'.running = IF session.completed + 1 = session.target THEN FALSE ELSE session.running
      BY <1>3 DEF TakesSample, Over, Only, Names
    <2>2. session'.successes = session.completed + 1
      <3>1. session.completed + 1 < CountSize
        BY <1>1, ConsoleAssumption
      <3> QED
        BY <1>1, <2>1, <3>1, NoWrap
    <2>3. CASE session.completed + 1 = session.target
      BY <2>1, <2>2, <2>3 DEF WatchDone
    <2>4. CASE session.completed + 1 # session.target
      <3>1. session.completed + 1 < session.target
        BY <1>1, <2>4
      <3> QED
        BY <1>1, <2>1, <2>2, <2>4, <3>1 DEF WatchOK
    <2> QED
      BY <2>3, <2>4
  <1> QED
    BY <1>2, <1>3, TimedFields DEF Base, Succeeds

SoakDone == Over /\ session'.completed >= 2 /\ visited' = {control'}

LEMMA SoakTick ==
    ASSUME Base, session.kind = "SOAK", SoakOK, TickTimed(now'), Succeeds(session')
    PROVE  /\ session'.failures = session.failures
           /\ IF session'.running THEN SoakOK' ELSE session.running => SoakDone
  <1>1. session.completed \in Nat /\ control' = control
    BY TimedFields DEF Base
  <1>2. CASE session' = session /\ visited' = visited
    BY <1>2 DEF SoakOK
  <1>3. CASE TakesSample
    <2>1. /\ session'.failures = session.failures
          /\ session'.completed = session.completed + 1
          /\ session'.expected = IF session.completed = 0 THEN control ELSE session.expected
          /\ session.completed > 0 => control = session.expected
          /\ Over => session.completed # 0
          /\ visited' = visited \cup {control}
          /\ session'.running = IF Over THEN FALSE ELSE session.running
      BY <1>3 DEF TakesSample, Only, Names
    <2>2. visited' = {control} /\ session'.expected = control
      BY <1>1, <2>1 DEF SoakOK
    <2>3. SoakOK'
      BY <1>1, <2>1, <2>2 DEF SoakOK
    <2>4. CASE Over
      <3>1. session'.completed >= 2
        BY <1>1, <2>1, <2>4
      <3> QED
        BY <1>1, <2>1, <2>2, <2>4, <3>1 DEF SoakDone
    <2>5. CASE ~Over
      BY <2>1, <2>3, <2>5
    <2> QED
      BY <2>4, <2>5
  <1> QED
    BY <1>2, <1>3, TimedFields DEF Base, Succeeds

\* All that PASS says of a session.
Accounted ==
    LET n == session.target
        OneHots == {One(i) : i \in 0 .. n - 1}
    IN  /\ session'.failures = 0
        /\ session.kind # "SOAK" => session'.completed = n
        /\ session.kind = "STRESS" => /\ session'.successes = 2 * n + 2
                                      /\ visited' = OneHots
        /\ session.kind = "MIX" => /\ session'.successes = 7 * n + 2
                                   /\ OneHots \cup {NoMask} \subseteq visited'
        /\ session.kind = "SWEEP" => /\ session'.successes = 2 * NumMasks + 3
                                     /\ visited' = Masks
        /\ session.kind = "WATCH" => session'.successes = n
        /\ session.kind = "SCAN" => visited' = FirstScan .. LastAddress
        /\ session.kind = "DISCOVER" => visited' = FirstCandidate .. LastAddress
        /\ session.kind \in {"SCAN", "DISCOVER"} =>
             session'.scanErrors = 0 /\ session'.found <= n

\* A tick keeps the books, and ends a session that passes only when they are full.
LEMMA PassTick ==
    ASSUME Base, SessionOK, FailsAtOnce, Tick
    PROVE  /\ SessionOK' /\ FailsAtOnce'
           /\ Passes => Accounted
           /\ Passes /\ session.kind = "SOAK" => SoakDone
  <1>1. session.running /\ IsWhole(session)
    BY Zenon DEF Tick, Base
  <1>2. \/ TickCleanup
        \/ ~session.restoring /\ TickScan
        \/ ~session.restoring /\ TickMasks
        \/ ~session.restoring /\ TickTimed(now')
    BY Zenon DEF Tick
  <1>3. session'.kind = session.kind
    BY <1>1, <1>2, CleanupFields, MasksFields, ScanFields, TimedFields DEF Works, Moves, Fixed
  <1>4. session.cleanup # "OK" => session.restoring /\ session.phase # 0
    BY <1>1 DEF SessionOK
  <1>5. session'.running => (session'.cleanup # "OK" => session'.restoring /\ session'.phase # 0)
    <2>1. CASE TickCleanup
      BY <1>1, <2>1, CleanupFields DEF Only, Names
    <2>2. CASE ~session.restoring /\ TickMasks
      BY <1>1, <1>4, <2>2, MasksFields DEF Works
    <2>3. CASE ~session.restoring /\ TickScan
      BY <1>1, <1>4, <2>3, ScanFields DEF Only, Names
    <2>4. CASE ~session.restoring /\ TickTimed(now')
      BY <1>1, <1>4, <2>4, TimedFields DEF TakesSample, Only, Names
    <2> QED
      BY <1>2, <2>1, <2>2, <2>3, <2>4
  <1>6. ASSUME Succeeds(session')
        PROVE  /\ IF session'.running THEN Account' ELSE Accounted
               /\ ~session'.running /\ session.kind = "SOAK" => SoakDone
    <2>1. Succeeds(session) /\ Account
      BY <1>1, <1>6, SoundBefore
    <2>2. session.failures = 0 /\ (session.restoring => session.kind \in RouteKinds)
      BY <2>1 DEF Account
    <2>3. CASE session.kind = "STRESS"
      <3>1. TickCleanup \/ TickMasks
        BY <1>1, <1>2, <2>3, ScanFields, TimedFields
      <3>2. session'.failures = 0 /\ IF session'.running THEN StressOK' ELSE StressDone
        BY <1>1, <1>6, <2>1, <2>2, <2>3, <3>1, StressTick DEF Account
      <3> QED
        BY <1>3, <2>3, <3>2 DEF Account, Accounted, StressDone, RouteKinds
    <2>4. CASE session.kind = "MIX"
      <3>1. TickCleanup \/ TickMasks
        BY <1>1, <1>2, <2>4, ScanFields, TimedFields
      <3>2. session'.failures = 0 /\ IF session'.running THEN MixOK' ELSE MixDone
        BY <1>1, <1>6, <2>1, <2>2, <2>4, <3>1, MixTick DEF Account
      <3> QED
        BY <1>3, <2>4, <3>2 DEF Account, Accounted, MixDone, RouteKinds
    <2>5. CASE session.kind = "SWEEP"
      <3>1. TickCleanup \/ TickMasks
        BY <1>1, <1>2, <2>5, ScanFields, TimedFields
      <3>2. session'.failures = 0 /\ IF session'.running THEN SweepOK' ELSE SweepDone
        BY <1>1, <1>6, <2>1, <2>2, <2>5, <3>1, SweepTick DEF Account
      <3> QED
        BY <1>3, <2>5, <3>2 DEF Account, Accounted, SweepDone, RouteKinds
    <2>6. CASE session.kind \in {"SCAN", "DISCOVER"}
      <3>1. TickScan /\ ~session.restoring
        BY <1>1, <1>2, <2>2, <2>6, CleanupFields, MasksFields, TimedFields DEF RouteKinds
      <3>2. ~session'.restoring \/ ~session'.running
        BY <1>1, <3>1, ScanFields DEF Only, Names
      <3>3. PICK first \in {FirstScan, FirstCandidate} :
              /\ session.kind = "SCAN" => first = FirstScan
              /\ session.kind = "DISCOVER" => first = FirstCandidate
        BY <2>6
      <3>4. ScanOK(first)
        BY <2>1, <2>6, <3>3 DEF Account
      <3>5. session'.failures = 0 /\ IF session'.running THEN ScanOK(first)' ELSE ScanAnswered(first)
        BY <1>1, <1>6, <2>2, <3>1, <3>4, ScanTick
      <3> QED
        BY <1>3, <2>6, <3>2, <3>3, <3>5 DEF Account, Accounted, ScanAnswered
    <2>7. CASE session.kind = "WATCH"
      <3>1. TickTimed(now') /\ ~session.restoring
        BY <1>1, <1>2, <2>2, <2>7, CleanupFields, MasksFields, ScanFields DEF RouteKinds
      <3>2. ~session'.restoring \/ ~session'.running
        BY <1>1, <3>1, TimedFields DEF TakesSample, Only, Names
      <3>3. session'.failures = 0 /\ IF session'.running THEN WatchOK' ELSE WatchDone
        BY <1>1, <1>6, <2>1, <2>2, <2>7, <3>1, WatchTick DEF Account
      <3> QED
        BY <1>3, <2>7, <3>2, <3>3 DEF Account, Accounted, WatchDone
    <2>8. CASE session.kind = "SOAK"
      <3>1. TickTimed(now') /\ ~session.restoring
        BY <1>1, <1>2, <2>2, <2>8, CleanupFields, MasksFields, ScanFields DEF RouteKinds
      <3>2. ~session'.restoring \/ ~session'.running
        BY <1>1, <3>1, TimedFields DEF TakesSample, Only, Names
      <3>3. session'.failures = 0 /\ IF session'.running THEN SoakOK' ELSE SoakDone
        BY <1>1, <1>6, <2>1, <2>2, <2>8, <3>1, SoakTick DEF Account
      <3> QED
        BY <1>3, <2>8, <3>2, <3>3 DEF Account, Accounted
    <2>9. session.kind \in RouteKinds \/ session.kind \in {"SCAN", "DISCOVER", "WATCH", "SOAK"}
      BY <1>1, <1>2, <2>2, CleanupFields, MasksFields, ScanFields, TimedFields
    <2> QED
      BY <2>3, <2>4, <2>5, <2>6, <2>7, <2>8, <2>9 DEF RouteKinds
  <1>7. SessionOK'
    BY <1>5, <1>6 DEF SessionOK
  <1>8. FailsAtOnce'
    <2> SUFFICES ASSUME session'.running, session.kind \notin RouteKinds PROVE Succeeds(session')
      BY <1>3 DEF FailsAtOnce
    <2>1. Succeeds(session) /\ ~session.restoring
      BY <1>1 DEF FailsAtOnce, SessionOK, Account
    <2>2. CASE TickScan
      BY <1>1, <2>1, <2>2, ScanFields DEF Only, Names, Succeeds
    <2>3. CASE TickTimed(now')
      BY <1>1, <2>1, <2>3, TimedFields DEF TakesSample, Only, Names, Succeeds
    <2> QED
      BY <1>1, <1>2, <2>1, <2>2, <2>3, CleanupFields, MasksFields
  <1> QED
    BY <1>6, <1>7, <1>8 DEF Passes, Ends

-----------------------------------------------------------------------------
(* The clock and true time                                                 *)

\* The clock against the age of a soak, as far as true time is known.
AgeOK ==
    /\ age \in 0 .. ClockSize /\ session.started \in 0 .. ClockSize - 1
    /\ age < ClockSize => now - session.started \in {age, age - ClockSize}
    /\ \E n \in Counts : session.duration = Second * n

\* The next sample of a watch is due an interval after its last one.
GapOK ==
    /\ gap \in 0 .. ClockSize /\ session.next \in 0 .. ClockSize - 1
    /\ session.interval \in Intervals
    /\ session.completed > 0 /\ gap < ClockSize =>
         now - gap + session.interval - session.next \in {-ClockSize, 0, ClockSize}

TimeOK ==
    /\ now \in 0 .. ClockSize - 1
    /\ session.running /\ session.kind = "SOAK" => AgeOK
    /\ session.running /\ session.kind = "WATCH" => GapOK

WatchStep ==
    session.kind = "WATCH" /\ session.completed > 0
        /\ session'.completed = session.completed + 1
      => gap + ((now' - now) % ClockSize) >= session.interval

LEMMA ModSmall ==
    ASSUME NEW x \in Int
    PROVE  /\ 0 <= x /\ x < ClockSize => x % ClockSize = x
           /\ ClockSize <= x /\ x < 2 * ClockSize => x % ClockSize = x - ClockSize
           /\ -ClockSize <= x /\ x < 0 => x % ClockSize = x + ClockSize
  BY ConsoleAssumption

LEMMA ShortTimes ==
    /\ ClockSize \in Nat \ {0}
    /\ \A t \in Intervals \cup LoopTimes : t \in Nat /\ 2 * t < ClockSize
    /\ \A n \in Counts : Second * n \in Nat /\ 2 * (Second * n) < ClockSize
  <1>1. ClockSize \in Nat \ {0}
    BY ConsoleAssumption
  <1>2. ASSUME NEW t \in Intervals \cup LoopTimes PROVE t \in Nat /\ 2 * t < ClockSize
    BY ConsoleAssumption
  <1>3. ASSUME NEW n \in Counts PROVE Second * n \in Nat /\ 2 * (Second * n) < ClockSize
    <2>1. n \in Nat /\ Second \in Nat
      BY ConsoleAssumption
    <2>2. Second * n \in {Second * k : k \in Counts}
      OBVIOUS
    <2>3. \A t \in {Second * k : k \in Counts} : 2 * t < ClockSize
      BY ConsoleAssumption, Zenon
    <2> QED
      BY <2>1, <2>2, <2>3
  <1> QED
    BY <1>1, <1>2, <1>3

\* One pass of the loop by the clock.
LEMMA ClockTick ==
    ASSUME TimeOK, NEW passed \in LoopTimes, now' = (now + passed) % ClockSize
    PROVE  /\ now' \in 0 .. ClockSize - 1 /\ passed \in Nat
           /\ now' = now + passed \/ now' = now + passed - ClockSize
           /\ (now' - now) % ClockSize = passed
  <1>1. /\ passed \in Nat /\ 2 * passed < ClockSize /\ ClockSize \in Nat \ {0}
        /\ now \in 0 .. ClockSize - 1
    BY ShortTimes DEF TimeOK
  <1>2. CASE now + passed < ClockSize
    <2>1. now' = now + passed
      BY <1>1, <1>2, ModSmall
    <2>2. now' - now = passed
      BY <1>1, <2>1
    <2>3. passed % ClockSize = passed
      BY <1>1, ModSmall
    <2> QED
      BY <1>1, <1>2, <2>1, <2>2, <2>3
  <1>3. CASE ~(now + passed < ClockSize)
    <2>1. now' = now + passed - ClockSize
      BY <1>1, <1>3, ModSmall
    <2>2. now' - now = passed - ClockSize /\ passed - ClockSize \in Int
      BY <1>1, <2>1
    <2>3. (passed - ClockSize) % ClockSize = passed - ClockSize + ClockSize
      BY <1>1, <2>2, ModSmall
    <2> QED
      BY <1>1, <1>3, <2>1, <2>2, <2>3
  <1> QED
    BY <1>2, <1>3

\* A soak that has run its time by the clock has run it.
LEMMA AgeTick ==
    ASSUME TimeOK, AgeOK, NEW passed \in LoopTimes, now' = (now + passed) % ClockSize,
           age' = Elapsed(age, passed),
           session'.started = session.started, session'.duration = session.duration
    PROVE  AgeOK' /\ (Over => age' >= session.duration)
  <1>1. /\ now' \in 0 .. ClockSize - 1 /\ passed \in Nat /\ ClockSize \in Nat \ {0}
        /\ now' = now + passed \/ now' = now + passed - ClockSize
        /\ now \in 0 .. ClockSize - 1
    BY ClockTick, ShortTimes DEF TimeOK
  <1>2. /\ age \in 0 .. ClockSize /\ session.started \in 0 .. ClockSize - 1
        /\ age < ClockSize => now - session.started \in {age, age - ClockSize}
    BY DEF AgeOK
  <1>3. PICK n \in Counts : session.duration = Second * n
    BY DEF AgeOK
  <1>4. session.duration \in Nat /\ 2 * session.duration < ClockSize
    BY <1>3, ShortTimes
  <1>5. CASE age + passed < ClockSize
    <2>1. age' = age + passed
      BY <1>5 DEF Elapsed
    <2>2. now' - session.started \in {age', age' - ClockSize}
      <3>1. now - session.started = age \/ now - session.started = age - ClockSize
        BY <1>1, <1>2, <1>5
      <3>2. now' - session.started > -ClockSize /\ age' < ClockSize
        BY <1>1, <1>2, <1>5, <2>1
      <3>3. \/ now' - session.started = age' \/ now' - session.started = age' - ClockSize
            \/ now' - session.started = age' - 2 * ClockSize
        BY <1>1, <1>2, <2>1, <3>1
      <3>4. now' - session.started # age' - 2 * ClockSize
        BY <1>1, <1>2, <2>1, <3>2
      <3> QED
        BY <3>3, <3>4
    <2>3. AgeOK'
      BY <1>1, <1>2, <1>3, <1>5, <2>1, <2>2 DEF AgeOK
    <2>4. (now' - session.started) % ClockSize = age'
      <3>1. age' \in Nat /\ age' < ClockSize
        BY <1>1, <1>2, <1>5, <2>1
      <3>2. CASE now' - session.started = age'
        BY <3>1, <3>2, ModSmall
      <3>3. CASE now' - session.started = age' - ClockSize
        <4>1. age' - ClockSize \in Int /\ -ClockSize <= age' - ClockSize /\ age' - ClockSize < 0
          BY <1>1, <3>1
        <4>2. (age' - ClockSize) % ClockSize = age' - ClockSize + ClockSize
          BY <4>1, ModSmall
        <4> QED
          BY <1>1, <3>1, <3>3, <4>2
      <3> QED
        BY <2>2, <3>2, <3>3
    <2> QED
      BY <2>3, <2>4 DEF Over
  <1>6. CASE ~(age + passed < ClockSize)
    <2>1. age' = ClockSize
      BY <1>6 DEF Elapsed
    <2>2. AgeOK'
      BY <1>1, <1>2, <1>3, <2>1 DEF AgeOK
    <2> QED
      BY <1>1, <1>4, <2>1, <2>2
  <1> QED
    BY <1>5, <1>6

\* A watch that is not sampled waits on, one that is sampled had waited long enough.
LEMMA GapTick ==
    ASSUME TimeOK, GapOK, NEW passed \in LoopTimes, now' = (now + passed) % ClockSize,
           session'.interval = session.interval, session.completed \in Nat
    PROVE  /\ session'.completed = session.completed /\ session'.next = session.next
                /\ gap' = Elapsed(gap, passed) => GapOK'
           /\ session'.completed = session.completed + 1 /\ gap' = 0
                /\ session'.next = (now' + session.interval) % ClockSize => GapOK'
           /\ session.completed > 0 /\ Due(session, now') => gap + passed >= session.interval
  <1>1. /\ now' \in 0 .. ClockSize - 1 /\ passed \in Nat /\ ClockSize \in Nat \ {0}
        /\ now' = now + passed \/ now' = now + passed - ClockSize
        /\ now \in 0 .. ClockSize - 1 /\ 2 * passed < ClockSize
    BY ClockTick, ShortTimes DEF TimeOK
  <1>2. /\ gap \in 0 .. ClockSize /\ session.next \in 0 .. ClockSize - 1
        /\ session.interval \in Intervals
        /\ session.completed > 0 /\ gap < ClockSize =>
             now - gap + session.interval - session.next \in {-ClockSize, 0, ClockSize}
    BY DEF GapOK
  <1>3. session.interval \in Nat /\ 2 * session.interval < ClockSize
    BY <1>2, ShortTimes
  <1>4. ASSUME session'.completed = session.completed, session'.next = session.next,
               gap' = Elapsed(gap, passed)
        PROVE  GapOK'
    <2>1. CASE gap + passed < ClockSize
      <3>1. gap' = gap + passed /\ gap' \in 0 .. ClockSize
        BY <1>1, <1>2, <1>4, <2>1 DEF Elapsed
      <3>2. session.completed > 0 =>
              now' - gap' + session.interval - session.next \in {-ClockSize, 0, ClockSize}
        <4> SUFFICES ASSUME session.completed > 0
                     PROVE  now' - gap' + session.interval - session.next \in {-ClockSize, 0, ClockSize}
          OBVIOUS
        <4>1. \/ now - gap + session.interval - session.next = -ClockSize
              \/ now - gap + session.interval - session.next = 0
              \/ now - gap + session.interval - session.next = ClockSize
          BY <1>1, <1>2, <2>1
        <4>2. now' - gap' = now - gap \/ now' - gap' = now - gap - ClockSize
          BY <1>1, <1>2, <3>1
        <4>3. now' - gap' + session.interval - session.next > -2 * ClockSize
          BY <1>1, <1>2, <1>3, <2>1, <3>1
        <4> DEFINE before == now - gap + session.interval - session.next
                   after == now' - gap' + session.interval - session.next
        <4>4. before \in Int /\ (after = before \/ after = before - ClockSize)
          BY <1>1, <1>2, <1>3, <3>1, <4>2
        <4>5. before \in {-ClockSize, 0, ClockSize} /\ after > -2 * ClockSize
          BY <4>1, <4>3
        <4> HIDE DEF before, after
        <4>6. after \in {-ClockSize, 0, ClockSize}
          BY <1>1, <4>4, <4>5
        <4> QED
          BY <4>6 DEF after
      <3> QED
        BY <1>2, <1>4, <3>1, <3>2 DEF GapOK
    <2>2. CASE ~(gap + passed < ClockSize)
      <3>1. gap' = ClockSize /\ ~(gap' < ClockSize) /\ gap' \in 0 .. ClockSize
        BY <1>1, <1>4, <2>2 DEF Elapsed
      <3> QED
        BY <1>2, <1>4, <3>1 DEF GapOK
    <2> QED
      BY <2>1, <2>2
  <1>5. ASSUME session'.completed = session.completed + 1, gap' = 0,
               session'.next = (now' + session.interval) % ClockSize
        PROVE  GapOK'
    <2>1. \/ session'.next = now' + session.interval
          \/ session'.next = (now' + session.interval) - ClockSize
      <3>1. now' + session.interval \in Int /\ 0 <= now' + session.interval
            /\ now' + session.interval < 2 * ClockSize
        BY <1>1, <1>3
      <3>2. \A x \in Int : 0 <= x /\ x < 2 * ClockSize =>
              x % ClockSize = x \/ x % ClockSize = x - ClockSize
        BY <1>1, ModSmall
      <3>3. \/ (now' + session.interval) % ClockSize = now' + session.interval
            \/ (now' + session.interval) % ClockSize = (now' + session.interval) - ClockSize
        BY <3>1, <3>2
      <3> QED
        BY <1>5, <3>3, Zenon
    <2>2. session'.next \in 0 .. ClockSize - 1
      BY <1>1, <1>3, <1>5
    <2>3. now' - gap' + session'.interval - session'.next \in {-ClockSize, 0, ClockSize}
      BY <1>1, <1>3, <1>5, <2>1, <2>2
    <2>4. gap' \in 0 .. ClockSize
      BY <1>1, <1>5
    <2> QED
      BY <1>2, <2>2, <2>3, <2>4 DEF GapOK
  <1>6. ASSUME session.completed > 0, Due(session, now') PROVE gap + passed >= session.interval
    <2> SUFFICES ASSUME gap + passed < session.interval PROVE FALSE
      BY <1>1, <1>2, <1>3
    <2> DEFINE d == now' - session.next
               w == gap + passed - session.interval
    <2>1. w \in Int /\ w < 0 /\ -ClockSize < 2 * w /\ gap < ClockSize
      BY <1>1, <1>2, <1>3
    <2>2. d = w \/ d = w + ClockSize
      <3>1. \/ now - gap + session.interval - session.next = -ClockSize
            \/ now - gap + session.interval - session.next = 0
            \/ now - gap + session.interval - session.next = ClockSize
        BY <1>2, <1>6, <2>1
      <3>2. d > -ClockSize /\ d < ClockSize /\ d \in Int
        BY <1>1, <1>2
      <3> QED
        BY <1>1, <1>2, <1>3, <2>1, <3>1, <3>2
    <2>3. d % ClockSize < ClockSize \div 2
      BY <1>6 DEF Due
    <2> HIDE DEF d, w
    <2>4. d % ClockSize = w + ClockSize
      BY <1>1, <2>1, <2>2, ModSmall
    <2>5. w + ClockSize < ClockSize \div 2
      BY <2>3, <2>4
    <2>6. 2 * (ClockSize \div 2) <= ClockSize /\ ClockSize \div 2 \in Int
      BY <1>1
    <2> QED
      BY <1>1, <2>1, <2>5, <2>6
  <1> QED
    BY <1>4, <1>5, <1>6

\* A tick keeps the clock's bounds.
LEMMA TimeTick ==
    ASSUME Base, TimeOK, Tick
    PROVE  /\ TimeOK' /\ WatchStep
           /\ session.kind = "SOAK" /\ SoakDone => age' >= session.duration
  <1>0. IsWhole(session) /\ session.running /\ session.completed \in Nat
    BY Zenon DEF Tick, Base
  <1>1. PICK passed \in LoopTimes :
          /\ now' = (now + passed) % ClockSize
          /\ age' = Elapsed(age, passed)
          /\ gap' = IF session'.completed # session.completed THEN 0 ELSE Elapsed(gap, passed)
    BY Zenon DEF Tick
  <1>2. now' \in 0 .. ClockSize - 1 /\ (now' - now) % ClockSize = passed
    BY <1>1, ClockTick
  <1>3. Moves(session, session')
    BY <1>0, CleanupFields, MasksFields, ScanFields, TimedFields DEF Works, Tick
  <1>4. /\ session'.kind = session.kind /\ session'.started = session.started
        /\ session'.duration = session.duration /\ session'.interval = session.interval
    BY <1>3 DEF Moves, Fixed
  <1>5. session.kind = "SOAK" => AgeOK' /\ (Over => age' >= session.duration)
    BY <1>0, <1>1, <1>4, AgeTick DEF TimeOK
  <1>6. ASSUME session.kind = "WATCH" PROVE (session'.running => GapOK') /\ WatchStep
    <2>1. GapOK
      BY <1>0, <1>6 DEF TimeOK
    <2>2. /\ session'.completed = session.completed /\ session'.next = session.next
               /\ gap' = Elapsed(gap, passed) => GapOK'
          /\ session'.completed = session.completed + 1 /\ gap' = 0
               /\ session'.next = (now' + session.interval) % ClockSize => GapOK'
          /\ session.completed > 0 /\ Due(session, now') => gap + passed >= session.interval
      BY <1>0, <1>1, <1>4, <2>1, GapTick
    <2>3. CASE /\ session'.running = FALSE
               /\ session'.completed = session.completed
      BY <1>0, <2>3 DEF WatchStep
    <2>4. CASE session' = session
      <3>1. gap' = Elapsed(gap, passed)
        BY <1>1, <2>4
      <3> QED
        BY <1>0, <2>2, <2>4, <3>1 DEF WatchStep
    <2>5. CASE TakesSample
      <3>1. /\ session'.completed = session.completed + 1 /\ Due(session, now')
            /\ session'.next = (now' + session.interval) % ClockSize
        BY <1>6, <2>5 DEF TakesSample, Over
      <3>2. gap' = 0
        BY <1>0, <1>1, <3>1
      <3>3. GapOK'
        BY <2>2, <3>1, <3>2
      <3>4. WatchStep
        BY <1>2, <2>2, <3>1 DEF WatchStep
      <3> QED
        BY <3>3, <3>4
    <2>6. CASE TickCleanup \/ TickMasks \/ TickScan
      <3>1. TickCleanup
        BY <1>0, <1>6, <2>6, MasksFields, ScanFields DEF RouteKinds
      <3>2. /\ session'.completed = session.completed /\ gap' = Elapsed(gap, passed)
            /\ session'.next = session.next
        BY <1>0, <1>1, <3>1, CleanupFields DEF Only, Names
      <3> QED
        BY <1>0, <2>2, <3>2 DEF WatchStep
    <2> QED
      BY <1>0, <2>3, <2>4, <2>5, <2>6, TimedFields DEF Tick
  <1>7. TimeOK'
    BY <1>2, <1>4, <1>5, <1>6 DEF TimeOK
  <1> QED
    BY <1>5, <1>6, <1>7 DEF WatchStep, SoakDone

-----------------------------------------------------------------------------
(* Every step                                                              *)

PassInv == SelfTestInv /\ SessionOK /\ FailsAtOnce /\ TimeOK

SoakStep ==
    Passes /\ session.kind = "SOAK" =>
        /\ age' >= session.duration
        /\ session'.completed >= 2
        /\ visited' = {control'}

LEMMA PassInit == Init => PassInv
  <1> SUFFICES ASSUME Init PROVE PassInv
    OBVIOUS
  <1>1. session.running = FALSE /\ SelfTestInv
    BY NoSessionFields, SelfTestInit DEF Init
  <1>2. now \in 0 .. ClockSize - 1
    BY ShortTimes DEF Init
  <1> QED
    BY <1>1, <1>2 DEF PassInv, SessionOK, FailsAtOnce, TimeOK

\* A session starts with empty books, on time.
LEMMA PassStart ==
    ASSUME Base, TimeOK, NEW kind \in Kinds, Start(kind)
    PROVE  SessionOK' /\ FailsAtOnce' /\ TimeOK' /\ ~Ends /\ WatchStep
  <1>0. /\ visited' = {} /\ now' = now /\ age' = 0 /\ gap' = 0 /\ ~session.running
        /\ now \in 0 .. ClockSize - 1 /\ ClockSize \in Nat \ {0}
    BY ShortTimes, Zenon DEF Start, Ready, TimeOK
  <1>1. PICK count, interval : Requests(kind, count, interval) /\ session' = Request(kind, count, interval)
    BY StartFields
  <1>a. Fresh(session', kind, count, interval)
    BY <1>1, RequestFields, Zenon
  <1>2. /\ Only({"kind", "running", "target", "interval", "started", "next", "duration",
                 "address"}, NoSession, session')
        /\ session'.kind = kind /\ session'.running = TRUE /\ session'.target = count
        /\ session'.interval = interval /\ session'.started = now /\ session'.next = now
        /\ session'.duration = IF kind = "SOAK" THEN count * Second ELSE 0
        /\ session'.address = IF kind = "SCAN" THEN FirstScan ELSE FirstCandidate
    BY <1>a DEF Fresh
  <1>3. /\ session'.completed = 0 /\ session'.phase = 0 /\ session'.restoring = FALSE
        /\ session'.captured = FALSE /\ session'.primary = "OK" /\ session'.cleanup = "OK"
        /\ session'.cancelled = FALSE /\ session'.successes = 0 /\ session'.failures = 0
        /\ session'.found = 0 /\ session'.scanErrors = 0
    BY <1>2, NoSessionFields DEF Only, Names
  <1>4. /\ kind = "SWEEP" => count = NumMasks
        /\ kind = "SCAN" => count = LastAddress - FirstScan + 1
        /\ kind = "DISCOVER" => count = LastAddress - FirstCandidate + 1
        /\ kind \in {"STRESS", "MIX", "WATCH", "SOAK"} => count \in Counts
        /\ kind = "WATCH" => interval \in Intervals
    BY <1>1, Zenon DEF Requests, Kinds
  <1>5. Succeeds(session')
    BY <1>3 DEF Succeeds
  <1>6. visited' = {One(i) : i \in 0 .. session'.completed - 1}
        /\ visited' = {FromRaw(i) : i \in 0 .. session'.completed - 1}
    <2>1. 0 .. 0 - 1 = {}
      OBVIOUS
    <2> QED
      BY <1>0, <1>3, <2>1
  <1>7. kind \in {"STRESS", "MIX"} => Rounds(1)' /\ Rounds(6)' /\ session'.target \in Counts
    BY <1>2, <1>3, <1>4, CountFacts DEF Rounds
  <1>8. kind = "SWEEP" => Rounds(1)' /\ session'.target = NumMasks
    BY <1>2, <1>3, <1>4, RawAssumption DEF Rounds
  <1>9. kind = "STRESS" => StressOK'
    BY <1>3, <1>6, <1>7 DEF StressOK
  <1>10. kind = "MIX" => MixOK'
    BY <1>3, <1>6, <1>7 DEF MixOK
  <1>11. kind = "SWEEP" => SweepOK'
    BY <1>3, <1>6, <1>8 DEF SweepOK
  <1>12. kind = "SCAN" => ScanOK(FirstScan)'
    BY <1>0, <1>2, <1>3, <1>4, ConsoleAssumption DEF ScanOK
  <1>13. kind = "DISCOVER" => ScanOK(FirstCandidate)'
    BY <1>0, <1>2, <1>3, <1>4, ConsoleAssumption DEF ScanOK
  <1>14. kind = "WATCH" => WatchOK'
    BY <1>2, <1>3, <1>4, CountFacts DEF WatchOK
  <1>15. kind = "SOAK" => SoakOK'
    BY <1>0, <1>3 DEF SoakOK
  <1>16. SessionOK'
    BY <1>2, <1>3, <1>9, <1>10, <1>11, <1>12, <1>13, <1>14, <1>15 DEF SessionOK, Account
  <1>17. FailsAtOnce'
    BY <1>5 DEF FailsAtOnce
  <1>18. kind = "SOAK" => AgeOK'
    <2> SUFFICES ASSUME kind = "SOAK" PROVE AgeOK'
      OBVIOUS
    <2>1. count \in Counts /\ session'.duration = Second * count
      <3>1. count \in Nat /\ Second \in Nat
        BY <1>4, ConsoleAssumption
      <3> QED
        BY <1>2, <1>4, <3>1
    <2> QED
      BY <1>0, <1>2, <2>1 DEF AgeOK
  <1>19. kind = "WATCH" => GapOK'
    BY <1>0, <1>2, <1>3, <1>4 DEF GapOK
  <1>20. TimeOK'
    BY <1>0, <1>2, <1>18, <1>19 DEF TimeOK
  <1>21. ~Ends /\ WatchStep
    BY <1>0, <1>2, <1>3 DEF Ends, WatchStep, Base
  <1> QED
    BY <1>16, <1>17, <1>20, <1>21

LEMMA PassStep ==
    ASSUME PassInv, [Next]_vars
    PROVE  PassInv' /\ (Passes => Accounted) /\ SoakStep /\ WatchStep
  <1> SelfTestInv /\ Base /\ SessionOK /\ FailsAtOnce /\ TimeOK
    BY DEF PassInv, SelfTestInv
  <1>0. SelfTestInv'
    BY SelfTestStep
  <1>a. ASSUME session' = session, visited' = visited, timing' = timing
        PROVE  PassInv' /\ (Passes => Accounted) /\ SoakStep /\ WatchStep
    <2>1. SessionOK'
      BY <1>a DEF SessionOK, Account, StressOK, MixOK, SweepOK, ScanOK, WatchOK, SoakOK, Rounds
    <2>2. FailsAtOnce'
      BY <1>a DEF FailsAtOnce
    <2>3. TimeOK'
      BY <1>a DEF TimeOK, AgeOK, GapOK, timing
    <2>4. ~Ends /\ WatchStep
      BY <1>a DEF Ends, WatchStep, Base
    <2> QED
      BY <1>0, <2>1, <2>2, <2>3, <2>4 DEF PassInv, Passes, SoakStep
  <1>1. ASSUME NEW kind \in Offered \cap Kinds, Start(kind)
        PROVE  PassInv' /\ (Passes => Accounted) /\ SoakStep /\ WatchStep
    BY <1>0, <1>1, PassStart DEF PassInv, Passes, SoakStep
  <1>2. CASE Stop
    <2>1. /\ Works(session, session') /\ session'.completed = session.completed
          /\ session'.primary # "OK" /\ session.running /\ ~session.restoring
          /\ session.kind \notin RouteKinds => session'.running = FALSE
          /\ timing' = timing
      BY <1>2, StopFields DEF Base, Stop
    <2>2. session'.kind = session.kind /\ session'.cleanup = session.cleanup
      BY <2>1 DEF Works, Moves, Fixed
    <2>3. ~Succeeds(session')
      BY <2>1 DEF Succeeds
    <2>4. SessionOK'
      BY <2>1, <2>2, <2>3 DEF SessionOK
    <2>5. FailsAtOnce'
      BY <2>1, <2>2 DEF FailsAtOnce
    <2>6. TimeOK'
      BY <2>1, <2>2 DEF TimeOK, RouteKinds, timing
    <2>7. ~Passes /\ WatchStep
      BY <2>1, <2>3 DEF Passes, WatchStep, Base
    <2> QED
      BY <1>0, <2>4, <2>5, <2>6, <2>7 DEF PassInv, SoakStep
  <1>3. CASE StatsReset
    <2>1. session' = NoSession /\ ~session.running /\ timing' = timing
      BY <1>3, Zenon DEF StatsReset, Ready
    <2>2. session'.running = FALSE /\ session'.completed = 0
      BY <2>1, NoSessionFields
    <2>3. SessionOK' /\ FailsAtOnce' /\ TimeOK'
      BY <2>1, <2>2 DEF SessionOK, FailsAtOnce, TimeOK, timing
    <2>4. ~Passes /\ WatchStep
      BY <2>1, <2>2 DEF Passes, Ends, WatchStep, Base
    <2> QED
      BY <1>0, <2>3, <2>4 DEF PassInv, SoakStep
  <1>4. CASE BeginDriver \/ End \/ ReadCommand \/ WriteCommand \/ ChangeOneBit \/ HardReset
             \/ SelfTest \/ ScriptStep \/ Disturb \/ UNCHANGED vars
    <2>1. session' = session /\ visited' = visited /\ timing' = timing
      BY <1>4, Zenon DEF BeginDriver, End, ReadCommand, WriteCommand, ChangeOneBit, HardReset,
                         SelfTest, ScriptStep, Disturb, vars, timing
    <2> QED
      BY <1>a, <2>1
  <1>5. CASE Tick
    <2>1. /\ SessionOK' /\ FailsAtOnce'
          /\ Passes => Accounted
          /\ Passes /\ session.kind = "SOAK" => SoakDone
      BY <1>5, PassTick
    <2>2. /\ TimeOK' /\ WatchStep
          /\ session.kind = "SOAK" /\ SoakDone => age' >= session.duration
      BY <1>5, TimeTick
    <2> QED
      BY <1>0, <2>1, <2>2 DEF PassInv, SoakStep, SoakDone
  <1> QED
    BY <1>1, <1>2, <1>3, <1>4, <1>5, Zenon DEF Next, Command

\* PASS is only said of a session that did all it was asked, whatever was asked and
\* whatever failed or was stopped on the way.
THEOREM PassMeansDoneAlways == Spec => PassMeansDone
  <1>1. Init => PassInv
    BY PassInit
  <1>2. PassInv /\ [Next]_vars => PassInv' /\ [Passes => Accounted]_vars
    BY PassStep
  <1> QED
    BY <1>1, <1>2, PTL DEF Spec, PassMeansDone, Accounted

\* A soak that passes has run its whole time, wherever the clock wraps, and every
\* sample showed the mask the mux still holds.
THEOREM SoakVerdictAlways == Spec => SoakVerdict
  <1>1. Init => PassInv
    BY PassInit
  <1>2. PassInv /\ [Next]_vars => PassInv' /\ [SoakStep]_vars
    BY PassStep
  <1> QED
    BY <1>1, <1>2, PTL DEF Spec, SoakVerdict, SoakStep

\* A watch never samples more often than its interval, for every interval, every
\* stall of the loop and every place where the clock wraps.
THEOREM WatchSpacingAlways == Spec => WatchSpacing
  <1>1. Init => PassInv
    BY PassInit
  <1>2. PassInv /\ [Next]_vars => PassInv' /\ [WatchStep]_vars
    BY PassStep
  <1> QED
    BY <1>1, <1>2, PTL DEF Spec, WatchSpacing, WatchStep
=============================================================================
