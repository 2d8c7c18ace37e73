----------------------------- MODULE FileStore -----------------------------
(***************************************************************************)
(* What the file system promises to those who name files: a map from names *)
(* to contents, changed by one request at a time.  A request settles the   *)
(* file it names and touches no other; nothing is promised of that file    *)
(* until then, or for longer if the power or the drive fails meanwhile.    *)
(* Only a request for a file that a failure left unsure may cost others.   *)
(* Formatting empties the store, file by file.                             *)
(***************************************************************************)
CONSTANTS
  Names, Contents,
  Absent,  \* in place of the content: there is no such file
  Unsure   \* in place of the content: nothing is promised of the file

VARIABLES
  files,
  request  \* <<name, content it is to hold, whether it was unsure>>,
           \* <<"format">>, or <<>>

ForOneFile == request \notin {<<>>, <<"format">>}

Ask(n, c) ==
  /\ request = <<>>
  /\ request' = <<n, c, files[n] = Unsure>>
  /\ files' \in {files, [files EXCEPT ![n] = Unsure]}

\* The file is being replaced.
Unsettle ==
  /\ ForOneFile /\ UNCHANGED request
  /\ files' = [files EXCEPT ![request[1]] = Unsure]

\* What is left of the file may lie where other files are now.
Spread ==
  /\ ForOneFile /\ request[3] /\ UNCHANGED request
  /\ \E robbed \in SUBSET (Names \ {request[1]}) :
       files' = [n \in Names |-> IF n \in robbed THEN Unsure ELSE files[n]]

\* The request is done, or refused with the file as it was, or has failed.
Settle ==
  /\ ForOneFile /\ request' = <<>>
  /\ \E c \in {request[2], files[request[1]], Unsure} :
       files' = [files EXCEPT ![request[1]] = c]

AskFormat ==
  /\ request = <<>> /\ request' = <<"format">>
  /\ UNCHANGED files

Vanish(n) ==
  /\ request = <<"format">> /\ UNCHANGED request
  /\ files' = [files EXCEPT ![n] = Absent]

\* All files are gone, or the power failed before they were.
Formatted ==
  /\ request = <<"format">> /\ request' = <<>>
  /\ files' \in {files, [n \in Names |-> Absent]}

Init == files = [m \in Names |-> Absent] /\ request = <<>>

Next ==
  \/ \E n \in Names, c \in Contents \cup {Absent} : Ask(n, c)
  \/ Unsettle
  \/ Spread
  \/ Settle
  \/ AskFormat
  \/ \E n \in Names : Vanish(n)
  \/ Formatted

Spec == Init /\ [][Next]_<<files, request>>
=============================================================================
