------------------------------- MODULE Scopes -------------------------------
(***************************************************************************)
(* Write scopes (internal/worker/files.go, manager.go).                    *)
(*                                                                         *)
(* A path is the sequence of its components; that of an absolute path      *)
(* starts with "/", and "." is the empty sequence.  A task has a canonical *)
(* workspace ws, which is absolute, and a set write of paths relative to   *)
(* it: the files and directories it alone may edit while it is active.     *)
(***************************************************************************)
EXTENDS Integers, Sequences

CONSTANTS
    Names,      \* the path components in use, "/" among them
    Lower       \* strings.ToLower on them

ASSUME LowerAssumption ==
    /\ "/" \in Names
    /\ Lower \in [Names -> Names]
    /\ \A n \in Names : Lower[n] = "/" <=> n = "/"

Path == Seq(Names)
RelPath == Seq(Names \ {"/"})
AbsPath == {p \in Path : p # <<>> /\ \A i \in 1 .. Len(p) : p[i] = "/" <=> i = 1}

\* The root of the file system, which may be a workspace like any other.
Root == <<"/">>

ToLower(p) == [i \in 1 .. Len(p) |-> Lower[p[i]]]

\* p is s itself or lies in the subtree of s.
IsUnder(p, s) == Len(s) =< Len(p) /\ \A i \in 1 .. Len(s) : p[i] = s[i]

\* The subtree of s is what begins with s and a separator.  "." is a case of
\* its own in the code; the root is not, and no path begins with "//".
owns(scopes, p) ==
    \E s \in scopes :
        \/ ToLower(p) = ToLower(s)
        \/ ToLower(s) # Root /\ IsUnder(ToLower(p), ToLower(s))

conflicts(a, b) == (\E p \in a : owns(b, p)) \/ (\E p \in b : owns(a, p))

\* The scopes of a task as absolute paths.
AbsScopes(t) == {t.ws \o p : p \in t.write}

taskConflicts(a, b) == conflicts(AbsScopes(a), AbsScopes(b))

\* Some file lies in both subtrees.  This and the three definitions after it
\* say what scopes mean, whatever the code makes of them.
Overlapping(p, q) == IsUnder(ToLower(p), ToLower(q)) \/ IsUnder(ToLower(q), ToLower(p))

SharedFile(t, u) == \E p \in AbsScopes(t), q \in AbsScopes(u) : Overlapping(p, q)

\* No file is reserved for both, except below a root that one of them reserves.
Apart(t, u) ==
    \A p \in AbsScopes(t), q \in AbsScopes(u) :
        Overlapping(p, q) => ~(p = Root <=> q = Root)

ReservesRoot(t) == Root \in AbsScopes(t)

\* The path of x relative to the root ws that it lies under.
Rel(x, ws) == [i \in 1 .. Len(x) - Len(ws) |-> x[Len(ws) + i]]

\* A write tool of a worker on task t reaches the absolute path x: the tool
\* takes a path relative to the task's root and wants it inside the scopes.
MayWrite(t, x) == IsUnder(x, t.ws) /\ owns(t.write, Rel(x, t.ws))

\* Two spellings of one file on a volume that ignores case.
SameFile(x, y) == ToLower(x) = ToLower(y)

TaskType(t) ==
    /\ t.ws \in AbsPath
    /\ t.write \in SUBSET RelPath
    /\ t.kind \in {"task", "phase", "plan"}
    /\ t.intent \in {"", "investigation", "implementation", "review"}

\* The part of validateTask that concerns scopes.
ValidTask(t) ==
    /\ t.intent = "implementation" => t.write # {}
    /\ t.intent \in {"investigation", "review"} => t.write = {}
=============================================================================
