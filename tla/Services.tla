-------------------------------- MODULE Services --------------------------------
(***************************************************************************)
(* The goroutines that live on a context.  xCUTEr either watches a         *)
(* directory or runs the job of one file: here the first runs the watcher  *)
(* and the event loop and the second the listener of a job, on the context *)
(* done that Cancel (or the end of the job) ends.                          *)
(***************************************************************************)
EXTENDS Naturals, FiniteSets

CONSTANTS Conns, NoConn, Files, InJobDir, MaxChanges

ASSUME NoConnAssumption == NoConn \notin Conns
ASSUME WatcherAssumption == InJobDir \in BOOLEAN /\ MaxChanges \in Nat /\ IsFiniteSet(Files)

VARIABLES mode, done
VARIABLES kind, listener, acceptor, offer, server, conn, client, endpoint, session
VARIABLES disk, changes, added, notified, watch, names, sending, loop, event, parsed, jobs,
          absentAtAdd, touched

L == INSTANCE Listener
W == INSTANCE Watcher

lvars == <<kind, listener, acceptor, offer, server, conn, client, endpoint, session>>
wvars == <<disk, changes, added, notified, watch, names, sending, loop, event, parsed, jobs,
           absentAtAdd, touched>>
vars == <<mode, done, lvars, wvars>>

Init ==
    /\ mode \in {"file", "directory"}
    /\ done = FALSE
    /\ L!ListenerInit /\ W!WatcherInit

\* Cancel, or the end of the job.
End ==
    /\ ~done
    /\ done' = TRUE
    /\ UNCHANGED <<mode, lvars, wvars>>

\* A process does one or the other.
RestOfFile == UNCHANGED <<mode, wvars>>
RestOfDirectory == UNCHANGED <<mode, lvars>>

Next ==
    \/ End
    \/ mode = "file" /\ L!ListenerNext /\ RestOfFile
    \/ mode = "directory" /\ W!WatcherNext /\ RestOfDirectory

Spec == Init /\ [][Next]_vars

\* Every goroutine that can go on without one of the other ends does.
FairSpec ==
    /\ Spec
    /\ WF_vars(mode = "file" /\ L!Acceptor /\ RestOfFile)
    /\ WF_vars(mode = "file" /\ L!Server /\ RestOfFile)
    /\ WF_vars(mode = "file" /\ L!CloseListener /\ RestOfFile)
    /\ \A c \in Conns : /\ WF_vars(mode = "file" /\ L!ConnProceeds(c) /\ RestOfFile)
                        /\ WF_vars(mode = "file" /\ L!SessionProceeds(c) /\ RestOfFile)
    /\ WF_vars(mode = "directory" /\ W!Watch /\ RestOfDirectory)
    /\ WF_vars(mode = "directory" /\ W!Loop /\ RestOfDirectory)

-----------------------------------------------------------------------------

TypeOK ==
    /\ done \in BOOLEAN
    /\ acceptor \in {"accepting", "sending", "ended"} /\ server \in {"select", "ended"}
    /\ offer \in Conns \cup {NoConn}
    /\ offer # NoConn => acceptor = "sending" /\ conn[offer] = "held"
    /\ conn \in [Conns -> {"none", "queued", "held", "starting", "serving", "closed"}]
    /\ client \in [Conns -> L!Ends] /\ endpoint \in [Conns -> L!Ends]
    /\ jobs \in [W!JobNames -> W!Contents \ {"partial"}]
    /\ loop \in {"select", "parse", "add", "ended"} /\ (event = <<>> <=> loop \in {"select", "ended"})

\* "Allocated resources will be released, when the context completes" (tunnel.go):
\* once the context has ended the listener closes, the loop behind it returns, no
\* session goes on and the connections are closed, except that a tunnel waits for
\* its endpoint, a handshake for its client, and that the connection accept is
\* sending when the loop returns is left open for good.
Released(c) ==
    \/ conn[c] \in {"none", "closed", "held"}
    \/ kind = "tunnel" /\ conn[c] = "serving" /\ endpoint[c] = "open"
    \/ kind = "scp" /\ conn[c] = "starting" /\ client[c] = "open"

ServicesWindDown ==
    <>[](mode = "file" /\ done =>
            /\ listener = "closed" /\ server = "ended"
            /\ \A c \in Conns : Released(c) /\ session[c] \in {"none", "over"}
            /\ Cardinality({c \in Conns : conn[c] = "held"}) <= 1)

\* xCUTEr "watches a directory for job definition files": once the directory stops
\* changing, the job under the full name of a file is the one the file now holds,
\* or none if it holds none, although parse reads the file at some time after the
\* event it is about.  Excepted are files that existed before the directory was
\* added and have not changed since: they are known by another name, or not at all.
DirectoryIsFollowed ==
    <>[](mode = "directory" /\ ~done /\ watch # "ended" =>
            \A f \in absentAtAdd \cup touched :
                jobs[W!InDir(f)] = IF disk[f] = "partial" THEN "absent" ELSE disk[f])

=============================================================================
