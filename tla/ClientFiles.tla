------------------------------ MODULE ClientFiles ------------------------------
(***************************************************************************)
(* ~/.pipepie/config.yaml and the commands that share it                   *)
(* (internal/config/client.go; cmd/login.go, logout.go, account.go,        *)
(* connect.go): each loads it once, works on its copy, and writes all of   *)
(* that back without a lock; SaveClient truncates the file before it       *)
(* writes.  Of an account only its name is kept here: not its address and  *)
(* key, nor the subdomains that connect caches in it by port.              *)
(***************************************************************************)
EXTENDS FiniteSets

CONSTANTS Commands,    \* processes
          Accounts,    \* names
          Empty,       \* no account
          Corrupt      \* a file that does not parse

ASSUME FilesAssumption == {Empty, Corrupt} \cap Accounts = {}

VARIABLES file,       \* what is in the file
          doing,      \* per command, "idle", "loaded", "saving", "writing" or "running"
          copy,       \* per command, what it loaded, as changed
          connecting  \* commands that save a name and have a tunnel to run

filesVars == <<file, doing, copy, connecting>>

NoAccounts == [active |-> Empty, accounts |-> {}]

FilesInit ==
    /\ file = NoAccounts /\ doing = [c \in Commands |-> "idle"]
    /\ copy = [c \in Commands |-> NoAccounts] /\ connecting = {}

\* An empty file is one without accounts.  On one that does not parse every command
\* ends, some on a nil pointer.
LoadClient(c) ==
    /\ doing[c] = "idle" /\ file # Corrupt
    /\ doing' = [doing EXCEPT ![c] = "loaded"] /\ copy' = [copy EXCEPT ![c] = file]
    /\ UNCHANGED <<file, connecting>>

AddAccount(f, a) == [active |-> a, accounts |-> f.accounts \cup {a}]

\* Mutant: the account stays active.
RemoveOnly(f, a) == {[f EXCEPT !.accounts = @ \ {a}]}

\* If it was active, any remaining one is.
RemoveAccount(f, a) ==
    LET left == f.accounts \ {a}
    IN {[active |-> n, accounts |-> left] :
           n \in IF f.active # a THEN {f.active} ELSE IF left = {} THEN {Empty} ELSE left}

SetActive(f, a) == [f EXCEPT !.active = a]

Save(c) == doing' = [doing EXCEPT ![c] = "saving"]

login(c) ==
    /\ doing[c] = "loaded" /\ Save(c)
    /\ \E a \in Accounts : copy' = [copy EXCEPT ![c] = AddAccount(@, a)]
    /\ UNCHANGED <<file, connecting>>

logout(c) ==
    /\ doing[c] = "loaded" /\ Save(c)
    /\ \E a \in copy[c].accounts : \E left \in RemoveAccount(copy[c], a) :
           copy' = [copy EXCEPT ![c] = left]
    /\ UNCHANGED <<file, connecting>>

accountUse(c) ==
    /\ doing[c] = "loaded" /\ Save(c)
    /\ \E a \in copy[c].accounts : copy' = [copy EXCEPT ![c] = SetActive(@, a)]
    /\ UNCHANGED <<file, connecting>>

\* connect: a name that was given is saved in the active account before it runs.
connect(c) ==
    /\ doing[c] = "loaded" /\ copy[c].active # Empty
    /\ \/ doing' = [doing EXCEPT ![c] = "running"] /\ UNCHANGED connecting
       \/ Save(c) /\ connecting' = connecting \cup {c}
    /\ UNCHANGED <<file, copy>>

\* connect, behind Run: the name that was assigned is saved, hours after it was read.
connectEnds(c) ==
    /\ doing[c] = "running" /\ Save(c) /\ connecting' = connecting \ {c}
    /\ UNCHANGED <<file, copy>>

\* SaveClient, in two steps.
Truncate(c) ==
    /\ doing[c] = "saving" /\ doing' = [doing EXCEPT ![c] = "writing"]
    /\ file' = NoAccounts
    /\ UNCHANGED <<copy, connecting>>

\* What another process wrote meanwhile is overwritten from its start, and may be longer.
WriteBack(c) ==
    /\ doing[c] = "writing"
    /\ doing' = [doing EXCEPT ![c] = IF c \in connecting THEN "running" ELSE "idle"]
    /\ file' \in {copy[c]} \cup (IF file \in {NoAccounts, copy[c]} THEN {} ELSE {Corrupt})
    /\ UNCHANGED <<copy, connecting>>

\* The process is killed, or has nothing to do.
Quit(c) ==
    /\ doing[c] # "idle" /\ doing' = [doing EXCEPT ![c] = "idle"]
    /\ connecting' = connecting \ {c}
    /\ UNCHANGED <<file, copy>>

\* The user deletes what does not parse.
Repair == file = Corrupt /\ file' = NoAccounts /\ UNCHANGED <<doing, copy, connecting>>

FilesNext == \/ Repair
             \/ \E c \in Commands : \/ LoadClient(c) \/ login(c) \/ logout(c) \/ accountUse(c)
                                    \/ connect(c) \/ connectEnds(c)
                                    \/ Truncate(c) \/ WriteBack(c) \/ Quit(c)

FilesSpec == FilesInit /\ [][FilesNext]_filesVars
-----------------------------------------------------------------------------
\* Whatever commands interleave, overwrite each other or are killed, in a file that
\* can be read there is an active account as soon as there is any, and it is
\* one of them: ActiveAccount never finds a name without an account.
ActiveIsKnown ==
    file # Corrupt => IF file.accounts = {} THEN file.active = Empty
                      ELSE file.active \in file.accounts
=============================================================================
