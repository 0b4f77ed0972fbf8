-------------------------- MODULE VersionSync_proofs --------------------------
(***************************************************************************)
(* Proofs about VersionSync for every set of versions and commits: what the  *)
(* exit code of a command says about the files, whatever earlier commands    *)
(* and edits left behind.                                                    *)
(***************************************************************************)
EXTENDS VersionSync, SequenceTheorems, TLAPS

-----------------------------------------------------------------------------
(* What a command has still to do                                          *)

All == <<"library", "expect", "header", "doxyfile", "component">>
FromExpect == <<"expect", "header", "doxyfile", "component">>
FromHeader == <<"header", "doxyfile", "component">>
FromDoxyfile == <<"doxyfile", "component">>
FromComponent == <<"component">>
Stamping == <<"stamp">>

Remaining == {All, FromExpect, FromHeader, FromDoxyfile, FromComponent, Stamping, <<>>}

\* The plans of the commands are among the lists a command may have left.
LEMMA Plans ==
    ASSUME NEW c \in Commands
    PROVE  /\ c.name \in {"sync", "check"} => Plan(c.name) = FromExpect
           /\ c.name \in {"bump", "set"} => Plan(c.name) = All
           /\ c.name = "identity-header" => Plan(c.name) = Stamping
           /\ c.name \in {"sync", "check", "bump", "set", "identity-header"}
  <1>1. c.name \in {"sync", "check", "bump", "set", "identity-header"}
    BY DEF Commands
  <1>2. SetVersion = All
    <2> DEFINE S == {"library", "expect", "header", "doxyfile", "component"}
               first == <<"library">>
    <2>1. first \in Seq(S) /\ Sync \in Seq(S) /\ All \in Seq(S)
      BY DEF Sync, All
    <2>2. Len(first) = 1 /\ Len(Sync) = 4 /\ Len(All) = 5
      BY DEF Sync, All
    <2> HIDE DEF first, S
    <2>3. /\ first \o Sync \in Seq(S)
          /\ Len(first \o Sync) = 5
          /\ \A i \in 1 .. 5 : (first \o Sync)[i] = IF i <= 1 THEN first[i] ELSE Sync[i - 1]
      <3>1. /\ first \o Sync \in Seq(S)
            /\ Len(first \o Sync) = Len(first) + Len(Sync)
            /\ \A i \in 1 .. Len(first) + Len(Sync) :
                 (first \o Sync)[i] = IF i <= Len(first) THEN first[i] ELSE Sync[i - Len(first)]
        BY <2>1, ConcatProperties
      <3> QED
        BY <2>2, <3>1
    <2>4. \A i \in 1 .. 5 : (first \o Sync)[i] = All[i]
      BY <2>3 DEF Sync, All, first
    <2>5. first \o Sync = All
      BY <2>1, <2>2, <2>3, <2>4, SeqEqual
    <2> QED
      BY <2>5 DEF SetVersion, first
  <1> QED
    BY <1>1, <1>2 DEF Plan, Sync, FromExpect, Stamping

\* The step at the head of the list tells the whole list, and what is left behind it.
LEMMA Steps ==
    ASSUME todo \in Remaining
    PROVE  /\ Doing("library") => todo = All /\ Tail(todo) = FromExpect
           /\ Doing("expect") => todo = FromExpect /\ Tail(todo) = FromHeader
           /\ Doing("header") => todo = FromHeader /\ Tail(todo) = FromDoxyfile
           /\ Doing("doxyfile") => todo = FromDoxyfile /\ Tail(todo) = FromComponent
           /\ Doing("component") => todo = FromComponent /\ Tail(todo) = <<>>
           /\ Doing("stamp") => todo = Stamping /\ Tail(todo) = <<>>
  <1>1. CASE todo = All
    BY <1>1 DEF Doing, All, FromExpect
  <1>2. CASE todo = FromExpect
    BY <1>2 DEF Doing, FromExpect, FromHeader
  <1>3. CASE todo = FromHeader
    BY <1>3 DEF Doing, FromHeader, FromDoxyfile
  <1>4. CASE todo = FromDoxyfile
    BY <1>4 DEF Doing, FromDoxyfile, FromComponent
  <1>5. CASE todo = FromComponent
    BY <1>5 DEF Doing, FromComponent
  <1>6. CASE todo = Stamping
    BY <1>6 DEF Doing, Stamping
  <1>7. CASE todo = <<>>
    BY <1>7 DEF Doing
  <1> QED
    BY <1>1, <1>2, <1>3, <1>4, <1>5, <1>6, <1>7 DEF Remaining

\* No two of the lists are the same.
LEMMA ListsDiffer ==
    /\ All \notin {FromExpect, FromHeader, FromDoxyfile, FromComponent, Stamping, <<>>}
    /\ FromExpect \notin {FromHeader, FromDoxyfile, FromComponent, Stamping, <<>>}
    /\ FromHeader \notin {FromDoxyfile, FromComponent, Stamping, <<>>}
    /\ FromDoxyfile \notin {FromComponent, Stamping, <<>>}
    /\ FromComponent \notin {Stamping, <<>>}
    /\ Stamping # <<>>
  BY DEF All, FromExpect, FromHeader, FromDoxyfile, FromComponent, Stamping

-----------------------------------------------------------------------------
(* The shape of a command in progress                                      *)

Names == {"sync", "check", "bump", "set", "identity-header"}
Versioning == command.name # "identity-header"

\* A command is at some point of its plan; only bump and set write library.json,
\* only identity-header the stamp, and check opens no file.
Shape ==
    /\ command.name \in Names
    /\ todo \in Remaining
    /\ writing \in BOOLEAN /\ clean \in BOOLEAN
    /\ exit \in {"NONE", "RUNNING", "0", "1"}
    /\ exit # "RUNNING" => todo = <<>>
    /\ todo = <<>> => ~writing
    /\ todo = All => command.name \in {"bump", "set"}
    /\ ~Versioning => todo \in {Stamping, <<>>}
    /\ todo = Stamping => ~Versioning
    /\ todo = FromExpect => ~writing
    /\ command.name = "check" => ~writing

\* A command starts at the beginning of its plan and follows it.
LEMMA ShapeInit == Init => Shape
  <1> SUFFICES ASSUME Init PROVE Shape
    OBVIOUS
  <1>1. command.name = "sync" /\ todo = <<>> /\ writing = FALSE /\ clean = TRUE /\ exit = "NONE"
    BY DEF Init
  <1> QED
    BY <1>1, ListsDiffer DEF Shape, Names, Versioning, Remaining

\* Every step leaves the command at a point of its plan.
LEMMA ShapeStep == Shape /\ [Next]_vars => Shape'
  <1> SUFFICES ASSUME Shape, [Next]_vars PROVE Shape'
    OBVIOUS
  <1> USE Steps, ListsDiffer DEF Shape, Versioning
  <1>1. CASE Begin
    <2> PICK c \in Commands : command' = c /\ todo' = Plan(c.name)
      BY <1>1 DEF Begin
    <2> QED
      BY <1>1, Plans DEF Begin, Remaining, Names
  <1>2. CASE OpenLibrary
    BY <1>2 DEF OpenLibrary, Stop, Remaining
  <1>3. CASE WriteLibrary
    BY <1>3 DEF WriteLibrary, Remaining
  <1>4. CASE Expect
    BY <1>4 DEF Expect, Stop, Remaining
  <1>5. CASE SkipOutput
    BY <1>5 DEF SkipOutput, Remaining, Outputs
  <1>6. CASE OpenOutput
    BY <1>6 DEF OpenOutput, Remaining, Outputs
  <1>7. CASE WriteOutput
    BY <1>7 DEF WriteOutput, Remaining, Outputs
  <1>8. CASE OpenStamp
    BY <1>8 DEF OpenStamp, Remaining
  <1>9. CASE WriteStamp
    BY <1>9 DEF WriteStamp, Remaining
  <1>10. CASE Return
    BY <1>10 DEF Return
  <1>13. CASE IoError
    BY <1>13 DEF IoError, Stop, Remaining
  <1>11. CASE Kill \/ Edit
    <2>1. Forgotten
      BY <1>11, Zenon DEF Kill, Edit
    <2> QED
      BY <2>1 DEF Forgotten, Remaining, Names
  <1>12. CASE Commit \/ UNCHANGED vars
    BY <1>12 DEF Commit, vars
  <1> QED
    BY <1>1, <1>2, <1>3, <1>4, <1>5, <1>6, <1>7, <1>8, <1>9, <1>10, <1>11, <1>12, <1>13 DEF Next

-----------------------------------------------------------------------------
(* Errors                                                                  *)

Unchanged == header = before[2] /\ doxyfile = before[3] /\ component = before[4]

\* Nothing is written before all files were examined, and never by the commands
\* that have no output to write.
Untouched ==
    exit = "RUNNING" /\ (todo \in {All, FromExpect} \/ command.name \in {"check", "identity-header"})
    => Unchanged

\* The commands that write get there by way of the examination.
LEMMA UntouchedStep == Shape /\ Untouched /\ [Next]_vars => Untouched'
  <1> SUFFICES ASSUME Shape, Untouched, [Next]_vars PROVE Untouched'
    OBVIOUS
  <1> USE Steps, ListsDiffer DEF Shape, Versioning, Untouched, Unchanged
  <1>1. CASE Begin
    <2>1. header' = before'[2] /\ doxyfile' = before'[3] /\ component' = before'[4]
      BY <1>1 DEF Begin, files
    <2> QED
      BY <2>1
  <1>2. CASE OpenLibrary
    BY <1>2 DEF OpenLibrary, Stop
  <1>3. CASE WriteLibrary
    BY <1>3 DEF WriteLibrary
  <1>4. CASE Expect
    BY <1>4 DEF Expect, Stop, files
  <1>5. CASE SkipOutput
    BY <1>5 DEF SkipOutput, files, Outputs
  <1>6. CASE OpenOutput
    BY <1>6 DEF OpenOutput, Outputs
  <1>7. CASE WriteOutput
    BY <1>7 DEF WriteOutput, Outputs
  <1>8. CASE OpenStamp
    BY <1>8 DEF OpenStamp, files
  <1>9. CASE WriteStamp
    BY <1>9 DEF WriteStamp, files
  <1>10. CASE Return
    BY <1>10 DEF Return, files
  <1>13. CASE IoError
    BY <1>13 DEF IoError, Stop, Remaining
  <1>11. CASE Kill \/ Edit
    <2>1. Forgotten
      BY <1>11, Zenon DEF Kill, Edit
    <2> QED
      BY <2>1 DEF Forgotten
  <1>12. CASE Commit \/ UNCHANGED vars
    BY <1>12 DEF Commit, vars, files
  <1> QED
    BY <1>1, <1>2, <1>3, <1>4, <1>5, <1>6, <1>7, <1>8, <1>9, <1>10, <1>11, <1>12, <1>13 DEF Next

-----------------------------------------------------------------------------
(* The version asked for                                                   *)

Good == exit \in {"RUNNING", "0"}
Examined == todo \in {FromHeader, FromDoxyfile, FromComponent, <<>>}

\* The version to be written is the one that was asked for, and from the moment it is
\* in library.json it stays there.
Chosen ==
    Good /\ Versioning =>
      /\ command.name \in {"sync", "check"} => library = before[1]
      /\ command.name = "set" => wanted = command.version
      /\ command.name = "bump" =>
           \/ /\ todo = All /\ ~writing /\ library = before[1]
              /\ Whole(library) => wanted = Bumped(library, command.part)
           \/ wanted = Bumped(before[1], command.part)
      /\ command.name \in {"bump", "set"} /\ todo # All => library = wanted
      /\ Examined => library = wanted /\ Whole(library)

\* Neither a half-written library.json nor an invalid version gets any further.
LEMMA ChosenStep == Shape /\ Chosen /\ [Next]_vars => Chosen'
  <1> SUFFICES ASSUME Shape, Chosen, [Next]_vars PROVE Chosen'
    OBVIOUS
  <1> USE Steps, ListsDiffer DEF Shape, Versioning, Chosen, Good, Examined
  <1>1. CASE Begin
    <2> PICK c \in Commands : command' = c /\ todo' = Plan(c.name) /\ wanted' = Requested(c)
      BY <1>1 DEF Begin
    <2>1. library' = library /\ before'[1] = library /\ ~writing'
      BY <1>1 DEF Begin, files
    <2>2. c.name = "set" => wanted' = c.version
      BY DEF Requested
    <2>3. c.name = "bump" /\ Whole(library) => wanted' = Bumped(library, c.part)
      BY DEF Requested
    <2>4. c.name # "identity-header" => todo' \in {All, FromExpect}
      BY Plans
    <2>5. c.name \in {"bump", "set"} => todo' = All
      BY Plans
    <2> QED
      BY <2>1, <2>2, <2>3, <2>4, <2>5
  <1>2. CASE OpenLibrary
    <2>1. CASE exit' = "1"
      BY <2>1
    <2>2. CASE exit' # "1"
      <3>1. Whole(library) \/ command.name = "set"
        BY <1>2, <2>2 DEF OpenLibrary, Stop, Whole
      <3> QED
        BY <1>2, <2>2, <3>1 DEF OpenLibrary, Stop
    <2> QED
      BY <2>1, <2>2
  <1>3. CASE WriteLibrary
    BY <1>3 DEF WriteLibrary
  <1>4. CASE Expect
    BY <1>4 DEF Expect, Stop, files, Whole
  <1>5. CASE SkipOutput
    BY <1>5 DEF SkipOutput, files, Outputs, Whole
  <1>6. CASE OpenOutput
    BY <1>6 DEF OpenOutput, Outputs, Whole
  <1>7. CASE WriteOutput
    BY <1>7 DEF WriteOutput, Outputs, Whole
  <1>8. CASE OpenStamp
    BY <1>8 DEF OpenStamp, files
  <1>9. CASE WriteStamp
    BY <1>9 DEF WriteStamp, files
  <1>10. CASE Return
    BY <1>10 DEF Return, files, Whole
  <1>13. CASE IoError
    BY <1>13 DEF IoError, Stop, Remaining
  <1>11. CASE Kill \/ Edit
    <2>1. Forgotten
      BY <1>11, Zenon DEF Kill, Edit
    <2> QED
      BY <2>1 DEF Forgotten
  <1>12. CASE Commit \/ UNCHANGED vars
    <2>1. UNCHANGED <<library, command, todo, writing, wanted, exit, before>>
      BY <1>12 DEF Commit, vars, files
    <2> QED
      BY <2>1 DEF Whole
  <1> QED
    BY <1>1, <1>2, <1>3, <1>4, <1>5, <1>6, <1>7, <1>8, <1>9, <1>10, <1>11, <1>12, <1>13 DEF Next

-----------------------------------------------------------------------------
(* The outputs                                                             *)

IsFile(f) == f = [fields |-> f.fields, version |-> f.version, cut |-> f.cut]
Counts == command.name # "check" \/ clean

\* Behind an output's turn the output is right, unless check has seen that it is
\* not; before its turn it is what it was, and has one field to be set.
Brought ==
    /\ IsFile(doxyfile) /\ IsFile(component)
    /\ Good /\ Versioning =>
         /\ todo \in {FromDoxyfile, FromComponent, <<>>} /\ Counts => header = wanted
         /\ todo \in {FromComponent, <<>>} /\ Counts => doxyfile = Rewritten(before[3])
         /\ todo = <<>> /\ Counts => component = Rewritten(before[4])
         /\ todo \in {All, FromExpect, FromHeader} \/ (todo = FromDoxyfile /\ ~writing)
              => doxyfile = before[3]
         /\ todo \in {All, FromExpect, FromHeader, FromDoxyfile} \/ (todo = FromComponent /\ ~writing)
              => component = before[4]
         /\ todo = FromHeader \/ (todo = FromDoxyfile /\ ~writing) => OneField(doxyfile)
         /\ todo \in {FromHeader, FromDoxyfile} \/ (todo = FromComponent /\ ~writing)
              => OneField(component)
    /\ Good /\ ~Versioning /\ todo = <<>> => stamp = wanted

\* Init's files are all the version of library.json.
LEMMA BroughtInit == Init => Brought
  <1> SUFFICES ASSUME Init PROVE Brought
    OBVIOUS
  <1>1. exit = "NONE" /\ IsFile(doxyfile) /\ IsFile(component)
    BY DEF Init, IsFile
  <1> QED
    BY <1>1 DEF Brought, Good

\* A write that was broken off leaves a file of some sort.
LEMMA AbortedFiles ==
    ASSUME IsFile(doxyfile), IsFile(component), Aborted
    PROVE  IsFile(doxyfile') /\ IsFile(component')
  <1>1. \A f \in Beginnings : IsFile(f)
    <2> SUFFICES ASSUME NEW f \in Beginnings PROVE IsFile(f)
      OBVIOUS
    <2>1. f = Empty \/ f \in [fields : {1}, version : {Torn, wanted}, cut : {TRUE}]
      BY DEF Beginnings
    <2>2. IsFile(Empty)
      BY DEF Empty, IsFile
    <2>3. ASSUME f \in [fields : {1}, version : {Torn, wanted}, cut : {TRUE}] PROVE IsFile(f)
      BY <2>3 DEF IsFile
    <2> QED
      BY <2>1, <2>2, <2>3
  <1>2. doxyfile' \in Beginnings \cup {doxyfile} /\ component' \in Beginnings \cup {component}
    BY DEF Aborted
  <1> QED
    BY <1>1, <1>2

\* Each output is left right by its own step and not touched by the others.
LEMMA BroughtStep == Shape /\ Brought /\ [Next]_vars => Brought'
  <1> SUFFICES ASSUME Shape, Brought, [Next]_vars PROVE Brought'
    OBVIOUS
  <1> USE Steps, ListsDiffer DEF Shape, Versioning, Good, Counts
  <1>1. CASE Begin
    <2> PICK c \in Commands : command' = c /\ todo' = Plan(c.name)
      BY <1>1 DEF Begin
    <2>1. /\ todo' \in {All, FromExpect, Stamping} /\ UNCHANGED <<doxyfile, component>>
          /\ before'[3] = doxyfile /\ before'[4] = component
      BY <1>1, Plans DEF Begin, files
    <2> QED
      BY <2>1 DEF Brought, IsFile
  <1>2. CASE OpenLibrary
    BY <1>2 DEF OpenLibrary, Stop, Brought, IsFile
  <1>3. CASE WriteLibrary
    BY <1>3 DEF WriteLibrary, Brought, IsFile
  <1>4. CASE Expect
    BY <1>4 DEF Expect, Stop, files, Brought, IsFile, OneField
  <1>5. CASE SkipOutput
    <2>1. UNCHANGED <<header, doxyfile, component, wanted, command, writing, exit, before>> /\ ~writing
          /\ todo' = Tail(todo) /\ exit = "RUNNING"
      <3>1. todo # <<>> /\ ~writing
        BY <1>5 DEF SkipOutput, Doing
      <3> QED
        BY <1>5, <3>1 DEF SkipOutput, files
    <2> USE <2>1 DEF Brought, IsFile, OneField, Rewritten
    <2>2. CASE Doing("header")
      <3>1. (UpToDate("header") \/ command.name = "check") /\ clean' = (clean /\ UpToDate("header"))
        BY <1>5, <2>2 DEF SkipOutput, Outputs
      <3> QED
        BY <2>2, <3>1 DEF UpToDate
    <2>3. CASE Doing("doxyfile")
      <3>1. (UpToDate("doxyfile") \/ command.name = "check") /\ clean' = (clean /\ UpToDate("doxyfile"))
        BY <1>5, <2>3 DEF SkipOutput, Outputs
      <3>2. UpToDate("doxyfile") => doxyfile = Rewritten(before[3])
        <4>1. OneField(doxyfile) /\ doxyfile = before[3]
          BY <2>3
        <4> QED
          BY <2>3, <4>1 DEF UpToDate
      <3> QED
        BY <2>3, <3>1, <3>2
    <2>4. CASE Doing("component")
      <3>1. (UpToDate("component") \/ command.name = "check") /\ clean' = (clean /\ UpToDate("component"))
        BY <1>5, <2>4 DEF SkipOutput, Outputs
      <3>2. UpToDate("component") => component = Rewritten(before[4])
        BY <2>4 DEF UpToDate
      <3> QED
        BY <2>4, <3>1, <3>2
    <2> QED
      BY <1>5, <2>2, <2>3, <2>4 DEF SkipOutput, Outputs
  <1>6. CASE OpenOutput
    <2>1. UNCHANGED <<stamp, command, wanted, exit, before, todo>> /\ exit = "RUNNING" /\ Versioning
          /\ writing' /\ ~writing /\ command.name # "check"
      BY <1>6 DEF OpenOutput, Outputs
    <2>2. IsFile(Empty)
      BY DEF Empty, IsFile
    <2>3. CASE Doing("header")
      <3>1. UNCHANGED <<doxyfile, component>>
        BY <1>6, <2>3 DEF OpenOutput, Outputs
      <3> QED
        BY <2>1, <2>3, <3>1 DEF Brought, IsFile, OneField, Rewritten
    <2>4. CASE Doing("doxyfile")
      <3>1. doxyfile' = Empty /\ UNCHANGED <<header, component>>
        BY <1>6, <2>4 DEF OpenOutput, Outputs
      <3> QED
        BY <2>1, <2>2, <2>4, <3>1 DEF Brought, OneField, Rewritten
    <2>5. CASE Doing("component")
      <3>1. component' = Empty /\ UNCHANGED <<header, doxyfile>>
        BY <1>6, <2>5 DEF OpenOutput, Outputs
      <3> QED
        BY <2>1, <2>2, <2>5, <3>1 DEF Brought, OneField, Rewritten
    <2> QED
      BY <1>6, <2>3, <2>4, <2>5 DEF OpenOutput, Outputs
  <1>7. CASE WriteOutput
    <2>1. UNCHANGED <<stamp, command, wanted, exit, before>> /\ exit = "RUNNING" /\ Versioning
          /\ todo' = Tail(todo) /\ ~writing'
      BY <1>7 DEF WriteOutput, Outputs
    <2> USE DEF Brought, IsFile, OneField, Rewritten
    <2>2. CASE Doing("header")
      <3>1. header' = wanted /\ UNCHANGED <<doxyfile, component>>
        BY <1>7, <2>2 DEF WriteOutput, Outputs
      <3> QED
        BY <2>1, <2>2, <3>1
    <2>3. CASE Doing("doxyfile")
      <3>1. doxyfile' = Rewritten(before[3]) /\ UNCHANGED <<header, component>>
        BY <1>7, <2>3 DEF WriteOutput, Outputs
      <3>2. Counts' => Counts
        BY <1>7 DEF WriteOutput
      <3> QED
        BY <2>1, <2>3, <3>1, <3>2
    <2>4. CASE Doing("component")
      <3>1. component' = Rewritten(before[4]) /\ UNCHANGED <<header, doxyfile>>
        BY <1>7, <2>4 DEF WriteOutput, Outputs
      <3>2. Counts' => Counts
        BY <1>7 DEF WriteOutput
      <3> QED
        BY <2>1, <2>4, <3>1, <3>2
    <2> QED
      BY <1>7, <2>2, <2>3, <2>4 DEF WriteOutput, Outputs
  <1>8. CASE OpenStamp
    BY <1>8 DEF OpenStamp, files, Brought, IsFile
  <1>9. CASE WriteStamp
    BY <1>9 DEF WriteStamp, files, Brought, IsFile
  <1>10. CASE Return
    BY <1>10 DEF Return, files, Brought, IsFile, OneField, Rewritten
  <1>13. CASE IoError
    <2>1. exit' = "1" /\ IsFile(doxyfile') /\ IsFile(component')
      BY <1>13, AbortedFiles DEF IoError, Stop, Brought
    <2> QED
      BY <2>1 DEF Brought, IsFile
  <1>11. CASE Kill \/ Edit
    <2>1. Forgotten
      BY <1>11, Zenon DEF Kill, Edit
    <2>2. IsFile(doxyfile') /\ IsFile(component')
      <3>1. CASE Kill
        BY <3>1, AbortedFiles DEF Kill, Brought
      <3>2. CASE Edit
        BY <3>2 DEF Edit, Brought, IsFile
      <3> QED
        BY <1>11, <3>1, <3>2
    <2> QED
      BY <2>1, <2>2 DEF Forgotten, Brought, IsFile
  <1>12. CASE Commit \/ UNCHANGED vars
    <2>1. UNCHANGED <<header, doxyfile, component, stamp, command, todo, writing, wanted, clean, exit,
                    before>>
      BY <1>12 DEF Commit, vars, files
    <2> QED
      BY <2>1 DEF Brought, IsFile, OneField, Rewritten
  <1> QED
    BY <1>1, <1>2, <1>3, <1>4, <1>5, <1>6, <1>7, <1>8, <1>9, <1>10, <1>11, <1>12, <1>13 DEF Next

-----------------------------------------------------------------------------
(* Errors                                                                  *)

\* An I/O error meets the outputs at one point of the plan.
LEMMA ErrorContained ==
    ASSUME Shape, Untouched, Chosen, Brought, IoError
    PROVE  FailureIsContained'
  <1>1. /\ exit = "RUNNING" /\ failed' = TRUE
        /\ UNCHANGED <<library, header, wanted, before>>
    BY DEF IoError, Aborted
  <1>2. Old' = Old /\ Right' = Right
    BY <1>1 DEF Old, Right, Rewritten
  <1>3. /\ Doing("doxyfile") \/ doxyfile' = doxyfile
        /\ Doing("component") \/ component' = component
    BY DEF IoError, Aborted
  <1>4. /\ Doing("doxyfile") => todo = FromDoxyfile
        /\ Doing("component") => todo = FromComponent
    BY Steps DEF Shape
  <1>5. CASE todo \in {All, FromExpect} \/ command.name \in {"check", "identity-header"}
    <2>1. Unchanged
      BY <1>1, <1>5 DEF Untouched
    <2>2. doxyfile' = doxyfile /\ component' = component
      <3>1. CASE todo \in {All, FromExpect}
        BY <1>3, <1>4, <3>1, ListsDiffer
      <3>2. CASE command.name = "identity-header"
        BY <1>3, <1>4, <3>2, ListsDiffer DEF Shape, Versioning
      <3>3. CASE command.name = "check"
        BY <3>3 DEF IoError, Aborted, Shape
      <3> QED
        BY <1>5, <3>1, <3>2, <3>3
    <2>3. Now' = Old'
      BY <1>1, <2>1, <2>2 DEF Now, Old, Unchanged
    <2> QED
      BY <2>3 DEF FailureIsContained
  <1>6. CASE todo \notin {All, FromExpect} /\ command.name \notin {"check", "identity-header"}
    <2>1. todo \in {FromHeader, FromDoxyfile, FromComponent, <<>>} /\ Counts /\ Good /\ Versioning
      BY <1>1, <1>6 DEF Shape, Remaining, Counts, Good, Versioning
    <2>2. library' = wanted' /\ Whole(library)'
      BY <1>1, <2>1 DEF Chosen, Examined, Whole
    <2>3. \E k \in 1 .. 3 : \A i \in 1 .. 3 : /\ i < k => Now'[i] = Right[i]
                                          /\ i > k => Now'[i] = Old[i]
      <3>1. /\ Now'[1] = header /\ Right[1] = wanted
            /\ Right[2] = Rewritten(before[3]) /\ Right[3] = Rewritten(before[4])
            /\ Now'[2] = doxyfile' /\ Now'[3] = component'
            /\ Old[2] = before[3] /\ Old[3] = before[4]
        BY <1>1 DEF Now, Right, Old
      <3>2. CASE todo = FromHeader
        <4>1. Now'[2] = Old[2] /\ Now'[3] = Old[3]
          BY <1>3, <1>4, <2>1, <3>1, <3>2, ListsDiffer DEF Brought
        <4> QED
          BY <4>1
      <3>3. CASE todo = FromDoxyfile
        <4>1. Now'[1] = Right[1] /\ Now'[3] = Old[3]
          BY <1>3, <1>4, <2>1, <3>1, <3>3, ListsDiffer DEF Brought
        <4>2. \A i \in 1 .. 3 : (i < 2 => i = 1) /\ (i > 2 => i = 3)
          OBVIOUS
        <4> QED
          BY <4>1, <4>2
      <3>4. CASE todo \in {FromComponent, <<>>}
        <4>1. Now'[1] = Right[1] /\ Now'[2] = Right[2]
          BY <1>3, <1>4, <2>1, <3>1, <3>4, ListsDiffer DEF Brought
        <4>2. \A i \in 1 .. 3 : (i < 3 => i \in {1, 2}) /\ ~(i > 3)
          OBVIOUS
        <4> QED
          BY <4>1, <4>2
      <3> QED
        BY <2>1, <3>2, <3>3, <3>4
    <2> QED
      BY <1>1, <1>2, <2>2, <2>3 DEF FailureIsContained
  <1> QED
    BY <1>5, <1>6

\* Every other error comes before the first write.
LEMMA ContainedStep ==
    ASSUME Shape, Untouched, Chosen, Brought, FailureIsContained, [Next]_vars
    PROVE  FailureIsContained'
  <1>1. CASE IoError
    BY <1>1, ErrorContained
  <1>2. ASSUME exit = "RUNNING", Unchanged, UNCHANGED <<header, doxyfile, component, before>>
        PROVE  FailureIsContained'
    BY <1>2 DEF FailureIsContained, Now, Old, Unchanged
  <1>3. ASSUME exit' # "1" PROVE FailureIsContained'
    BY <1>3 DEF FailureIsContained
  <1>4. CASE OpenLibrary
    <2>1. exit = "RUNNING" /\ (exit' = "1" => todo = All)
      BY <1>4, Steps DEF OpenLibrary, Shape, Doing
    <2>2. UNCHANGED <<header, doxyfile, component, before>>
      BY <1>4 DEF OpenLibrary
    <2> QED
      BY <1>2, <1>3, <2>1, <2>2 DEF Untouched
  <1>5. CASE Expect
    <2>1. exit = "RUNNING" /\ todo = FromExpect
      BY <1>5, Steps DEF Expect, Shape, Doing
    <2>2. UNCHANGED <<header, doxyfile, component, before>>
      BY <1>5 DEF Expect, files
    <2> QED
      BY <1>2, <2>1, <2>2 DEF Untouched
  <1>6. CASE Return
    <2>1. exit = "RUNNING" /\ (exit' = "1" => command.name = "check")
      BY <1>6 DEF Return
    <2>2. UNCHANGED <<header, doxyfile, component, before>>
      BY <1>6 DEF Return, files
    <2> QED
      BY <1>2, <1>3, <2>1, <2>2 DEF Untouched
  <1>7. CASE WriteLibrary \/ SkipOutput \/ OpenOutput \/ WriteOutput \/ OpenStamp \/ WriteStamp
    <2>1. exit = "RUNNING" /\ exit' = exit
      BY <1>7 DEF WriteLibrary, SkipOutput, OpenOutput, WriteOutput, OpenStamp, WriteStamp, Shape, Doing
    <2> QED
      BY <1>3, <2>1
  <1>8. CASE Begin
    BY <1>3, <1>8 DEF Begin
  <1>9. CASE Kill \/ Edit
    <2>1. Forgotten
      BY <1>9, Zenon DEF Kill, Edit
    <2> QED
      BY <1>3, <2>1 DEF Forgotten
  <1>10. CASE Commit \/ UNCHANGED vars
    <2>1. UNCHANGED <<library, header, doxyfile, component, wanted, exit, before, failed>>
      BY <1>10 DEF Commit, vars, files
    <2>2. Now' = Now /\ Old' = Old /\ Right' = Right /\ Whole(library)' = Whole(library)
      BY <2>1 DEF Now, Old, Right, Rewritten, Whole
    <2> QED
      BY <2>1, <2>2 DEF FailureIsContained
  <1> QED
    BY <1>1, <1>4, <1>5, <1>6, <1>7, <1>8, <1>9, <1>10 DEF Next

-----------------------------------------------------------------------------
(* What the exit code says                                                 *)

Reported == exit = "0" => todo = <<>> /\ (command.name = "check" => clean)
Inv == Shape /\ Untouched /\ Chosen /\ Brought /\ FailureIsContained /\ Reported

\* The invariant of every run of commands, kills, edits and commits.
THEOREM InvCorrect == Spec => []Inv
  <1>1. Init => Inv
    <2>1. Init => exit = "NONE"
      BY DEF Init
    <2> QED
      BY <2>1, ShapeInit, BroughtInit DEF Inv, Untouched, Chosen, Good, FailureIsContained, Reported
  <1>2. Inv /\ [Next]_vars => Inv'
    <2> SUFFICES ASSUME Inv, [Next]_vars PROVE Reported'
      BY ShapeStep, UntouchedStep, ChosenStep, BroughtStep, ContainedStep DEF Inv
    <2>1. CASE Return
      BY <2>1 DEF Return, Reported
    <2>2. CASE Commit \/ UNCHANGED vars
      BY <2>2 DEF Commit, vars, Reported, Inv
    <2>3. CASE Kill \/ Edit
      <3>1. Forgotten
        BY <2>3, Zenon DEF Kill, Edit
      <3> QED
        BY <3>1 DEF Forgotten, Reported
    <2>6. CASE IoError
      BY <2>6 DEF IoError, Stop, Reported
    <2>4. CASE Begin
      BY <2>4 DEF Begin, Reported
    <2>5. CASE OpenLibrary \/ WriteLibrary \/ Expect \/ SkipOutput \/ OpenOutput
               \/ WriteOutput \/ OpenStamp \/ WriteStamp
      <3>1. exit = "RUNNING"
        BY <2>5 DEF Inv, Shape, OpenLibrary, WriteLibrary, Expect, SkipOutput, OpenOutput,
             WriteOutput, OpenStamp, WriteStamp, Doing
      <3>2. exit' \in {exit, "1"}
        BY <2>5 DEF OpenLibrary, WriteLibrary, Expect, SkipOutput, OpenOutput,
             WriteOutput, OpenStamp, WriteStamp, Stop
      <3> QED
        BY <3>1, <3>2 DEF Reported
    <2> QED
      BY <2>1, <2>2, <2>3, <2>4, <2>5, <2>6 DEF Next
  <1> QED
    BY <1>1, <1>2, PTL DEF Spec

\* Exit 0 means that library.json and every output carry the version asked for,
\* whatever was half done before.
THEOREM SuccessMeansSyncedAlways == Spec => []SuccessMeansSynced
  <1>1. Inv => SuccessMeansSynced
    <2> SUFFICES ASSUME Inv, exit = "0" PROVE SuccessMeansSynced
      BY DEF SuccessMeansSynced
    <2> USE DEF Inv, Reported, Chosen, Brought, Good, Versioning, Counts, Examined
    <2>1. CASE command.name = "identity-header"
      BY <2>1 DEF SuccessMeansSynced
    <2>2. CASE command.name # "identity-header"
      BY <2>2, ListsDiffer DEF SuccessMeansSynced
    <2> QED
      BY <2>1, <2>2
  <1> QED
    BY <1>1, InvCorrect, PTL

\* Exit 1 means that no output was touched, or that an I/O error broke off the
\* writing at one output, with the version already in library.json.
THEOREM FailureIsContainedAlways == Spec => []FailureIsContained
  <1>1. Inv => FailureIsContained
    BY DEF Inv
  <1> QED
    BY <1>1, InvCorrect, PTL

\* version_code() orders versions as they are, as long as no minor or patch part
\* reaches 100: the limit that the code lacks.
THEOREM CodeOrdersBelowHundred ==
    ASSUME NEW u \in Nat \X Nat \X Nat, NEW v \in Nat \X Nat \X Nat,
           u[2] < 100, u[3] < 100, v[2] < 100, v[3] < 100
    PROVE  Earlier(u, v) <=> VersionCode(u) < VersionCode(v)
  <1>1. /\ u[1] \in Nat /\ u[2] \in Nat /\ u[3] \in Nat
        /\ v[1] \in Nat /\ v[2] \in Nat /\ v[3] \in Nat
    OBVIOUS
  <1>2. CASE u[1] # v[1]
    BY <1>1, <1>2 DEF Earlier, VersionCode
  <1>3. CASE u[1] = v[1] /\ u[2] # v[2]
    BY <1>1, <1>3 DEF Earlier, VersionCode
  <1>4. CASE u[1] = v[1] /\ u[2] = v[2]
    BY <1>1, <1>4 DEF Earlier, VersionCode
  <1> QED
    BY <1>2, <1>3, <1>4
=============================================================================
