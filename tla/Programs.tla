------------------------------ MODULE Programs ------------------------------
(***************************************************************************)
(* Programs and the revisions of their code, in the database of a domain:  *)
(* the statements of queries/programs.sql, called by ProgramService.  Each *)
(* is one statement and therefore one step.                                *)
(***************************************************************************)
EXTENDS Integers, FiniteSets, FiniteSetsExt

CONSTANTS Programs,      \* UUIDs of programs
          Domains,       \* each has a database of its own
          DomainOf,      \* the domain of each program
          Codes,         \* source texts
          Initially,     \* rows of the table programs at the start
          Edited,        \* bound: programs that are changed later
          Settings,      \* name, type, schedule, deadline and language, together
          Runnable,      \* the settings whose type is routine or webhook
          MaxRevision,   \* bound: revisions are 0..MaxRevision
          MaxEdits,      \* bound: statements that change the tables
          None           \* NULL or nil

Revisions == 0..MaxRevision

ASSUME ProgramsAssumption ==
    /\ DomainOf \in [Programs -> Domains]
    /\ Codes # {} /\ None \notin Codes
    /\ MaxRevision \in Nat /\ MaxEdits \in Nat
    /\ Edited \subseteq Programs
    /\ Runnable \subseteq Settings
    /\ Initially \in [Programs -> [state : {"active", "inactive"}, setting : Settings]]

VARIABLES program,      \* the table programs
          code,         \* program_code_revisions.code, by program and revision
          signed,       \* the revisions that are signed
          edits,        \* statements so far
          everSigned    \* history: program, revision and code of every signature

programVars == <<program, code, signed, edits, everSigned>>

ProgramRow == [state : {"active", "inactive", "deleted"}, setting : Settings]

Exists(p) == program[p].state # "deleted"
Stored(p) == {r \in Revisions : code[p][r] # None}

ProgramsInit ==
    /\ program = Initially
    /\ LET c == CHOOSE text \in Codes : TRUE IN
       code = [p \in Programs |-> [r \in Revisions |-> IF r = 0 THEN c ELSE None]]
    /\ signed = [p \in Programs |-> {0}]
    /\ edits = 0
    /\ everSigned = {<<p, 0, code[p][0]>> : p \in Programs}

Edit == edits < MaxEdits /\ edits' = edits + 1

\* INSERT ... MAX(revision) + 1: the number of a deleted last revision is used again.
CreateCodeRevision(p, c) ==
    /\ Edit /\ Exists(p)
    /\ LET r == IF Stored(p) = {} THEN 0 ELSE Max(Stored(p)) + 1 IN
       /\ r \in Revisions
       /\ code' = [code EXCEPT ![p][r] = c]
    /\ UNCHANGED <<program, signed, everSigned>>

SignProgramCodeRevision(p, r) ==
    /\ Edit /\ r \in Stored(p)
    /\ signed' = [signed EXCEPT ![p] = @ \cup {r}]
    /\ everSigned' = everSigned \cup {<<p, r, code[p][r]>>}
    /\ UNCHANGED <<program, code>>

\* Mutant: the signature outlives the revision.
DeleteKeepsSignature(p, r) ==
    /\ Edit /\ r \in Stored(p)
    /\ code' = [code EXCEPT ![p][r] = None]
    /\ UNCHANGED <<program, signed, everSigned>>

DeleteProgramCodeRevision(p, r) ==
    /\ Edit /\ r \in Stored(p)
    /\ code' = [code EXCEPT ![p][r] = None]
    /\ signed' = [signed EXCEPT ![p] = @ \ {r}]
    /\ UNCHANGED <<program, everSigned>>

\* UpdateProgramByUUID sets the state and everything else that is given.
UpdateProgramByUUID(p, row) ==
    /\ Edit /\ Exists(p)
    /\ row.state # "deleted" /\ row # program[p]
    /\ program' = [program EXCEPT ![p] = row]
    /\ UNCHANGED <<code, signed, everSigned>>

\* The revisions go with the program (ON DELETE CASCADE).
DeleteProgram(p) ==
    /\ Edit /\ Exists(p)
    /\ program' = [program EXCEPT ![p] = [state |-> "deleted", setting |-> program[p].setting]]
    /\ code' = [code EXCEPT ![p] = [r \in Revisions |-> None]]
    /\ signed' = [signed EXCEPT ![p] = {}]
    /\ UNCHANGED everSigned

ProgramsNext ==
    \E p \in Edited :
        \/ \E c \in Codes : CreateCodeRevision(p, c)
        \/ \E r \in Revisions : SignProgramCodeRevision(p, r) \/ DeleteProgramCodeRevision(p, r)
        \/ \E row \in ProgramRow : UpdateProgramByUUID(p, row)
        \/ DeleteProgram(p)

RowRuns(row) == row.state = "active" /\ row.setting \in Runnable

\* A revision as the manager gets it.
Found(p, r) == [id |-> <<p, r>>, code |-> code[p][r], setting |-> program[p].setting]

\* Mutant: the latest revision is taken, signed or not.
FindAllRevisions(d) ==
    {Found(p, Max(Stored(p))) : p \in {q \in Programs :
        DomainOf[q] = d /\ RowRuns(program[q]) /\ Stored(q) # {}}}

\* The latest signed revision of every active routine or webhook of the domain.
FindAllRoutineRevisions(d) ==
    {Found(p, Max(signed[p])) : p \in {q \in Programs :
        DomainOf[q] = d /\ RowRuns(program[q]) /\ signed[q] # {}}}

ProgramsTypeOK ==
    /\ program \in [Programs -> ProgramRow]
    /\ code \in [Programs -> [Revisions -> Codes \cup {None}]]
    /\ signed \in [Programs -> SUBSET Revisions]
    /\ \A p \in Programs : signed[p] \subseteq Stored(p)
    /\ edits \in 0..MaxEdits
    /\ everSigned \subseteq Programs \X Revisions \X Codes
=============================================================================
