------------------------------- MODULE DataDir -------------------------------
(***************************************************************************)
(* The files the sidecar mode keeps in ~/.kilo2dsh (config.ts): the local  *)
(* token, generated once, and the agent's configuration, written at every  *)
(* start of the plugin.  The directory belongs to the user, so the DSH     *)
(* processes of that user share it, the name of the temporary file         *)
(* included.                                                               *)
(*                                                                         *)
(* A step is what happens between two awaits.  A token, and a              *)
(* configuration with it, are named by the host that generated the token.  *)
(* A token file may be read while it is written; the content of the        *)
(* configuration is written in one step.                                   *)
(***************************************************************************)
CONSTANTS
    Hosts,      \* the DSH processes; one that is started again is another
    Us,         \* the one we follow, which has not started before
    None        \* no such file

VARIABLES
    tokenFile,      \* agent-token.txt
    tmpFile,        \* agent-config.json.tmp
    configFile,     \* agent-config.json
    at,             \* where each host waits
    token           \* the token each host uses

files   == <<tokenFile, tmpFile, configFile>>
dirVars == <<files, at, token>>

\* A first start finds nothing; a later one finds what an earlier one left.
Init ==
    /\ tokenFile \in (Hosts \ {Us}) \cup {None}
    /\ tmpFile = None
    /\ configFile = tokenFile
    /\ at = [h \in Hosts |-> "token"]
    /\ token = [h \in Hosts |-> None]

Goes(h, place) == at' = [at EXCEPT ![h] = place]

\* ensureToken: the file has a token ...
FindsToken(h) ==
    /\ at[h] = "token" /\ tokenFile # None
    /\ token' = [token EXCEPT ![h] = tokenFile]
    /\ Goes(h, "writing")
    /\ UNCHANGED files

\* ... or the first part of one that another host is writing, or was when it
\* died: a token that nobody else has.
FindsPart(h) ==
    /\ at[h] = "token"
    /\ \E other \in Hosts : at[other] = "saving"
    /\ token' = [token EXCEPT ![h] = h]
    /\ Goes(h, "writing")
    /\ UNCHANGED files

\* Or there is none to be seen: no file, one that is still empty, or any other
\* failure of stat.  A fresh token has to be saved, over whatever is there then.
MissesToken(h) ==
    /\ at[h] = "token"
    /\ token' = [token EXCEPT ![h] = h]
    /\ Goes(h, "saving")
    /\ UNCHANGED files

SavesToken(h) ==
    /\ at[h] = "saving"
    /\ tokenFile' = h
    /\ Goes(h, "writing")
    /\ UNCHANGED <<tmpFile, configFile, token>>

\* writeAgentConfig: the temporary file, the removal, the renaming.
WritesTmp(h) ==
    /\ at[h] = "writing"
    /\ tmpFile' = token[h]
    /\ Goes(h, "removing")
    /\ UNCHANGED <<tokenFile, configFile, token>>

RemovesConfig(h) ==
    /\ at[h] = "removing"
    /\ configFile' = None
    /\ Goes(h, "renaming")
    /\ UNCHANGED <<tokenFile, tmpFile, token>>

Renames(h) ==
    /\ at[h] = "renaming" /\ tmpFile # None
    /\ configFile' = tmpFile
    /\ tmpFile' = None
    /\ Goes(h, "configured")
    /\ UNCHANGED <<tokenFile, token>>

\* The file system refuses to read or to write, or another host has renamed the
\* temporary file.
FilesFail(h) ==
    /\ at[h] \in {"token", "saving", "writing", "removing", "renaming"}
    /\ Goes(h, "failed")
    /\ UNCHANGED <<files, token>>

Prepare(h) ==
    \/ FindsToken(h) \/ FindsPart(h) \/ MissesToken(h) \/ SavesToken(h)
    \/ WritesTmp(h) \/ RemovesConfig(h) \/ Renames(h)

DirTypeOK ==
    /\ {tokenFile, tmpFile, configFile} \subseteq Hosts \cup {None}
    /\ at \in [Hosts -> {"token", "saving", "writing", "removing", "renaming",
                         "configured", "failed"}]
    /\ token \in [Hosts -> Hosts \cup {None}]
=============================================================================
