------------------------------ MODULE MCFTPServer ------------------------------
(* Small instances of FTPServer for TLC. *)
EXTENDS FTPServer, TLC

CONSTANTS c1, c2, f, d, z

ZipBeside == [n \in Name |-> n]
ZipToZ == [n \in Name |-> z]
FirstFile == {<<Root, f>>}
FileInDir == {<<Root, f>>, <<d, f>>}
Symmetric == Permutations({c1, c2})

(* A bound of the run ftp_sessions: transfers, which are of one file,      *)
(* commands that change other files or directories, and a stop or a second *)
(* start are explored apart; peers do not leave among transfers (they do   *)
(* in ftp_session and ftp_gone).                                           *)
Transferring == data[1] # "none" \/ \E x \in Conn : conn[x] # "none"
Restarting == app # "idle" \/ starts = 2
FilesAsAtFirst ==
  /\ dirs = FirstDirs /\ renameFrom = NoPath /\ DOMAIN fs = FirstFiles
  /\ \A c \in Client : cwd[c] = Root
Apart ==
  /\ Transferring => /\ FilesAsAtFirst
                     /\ \A c \in Client : /\ path[c] \in {NoPath, <<Root, f>>}
                                         /\ peer[c] # "gone"
  /\ Restarting => /\ FilesAsAtFirst /\ ~Transferring
                   /\ \A c \in Client : path[c] = NoPath /\ cmds[c] <= 1
===============================================================================
