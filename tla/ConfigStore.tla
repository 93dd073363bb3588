----------------------------- MODULE ConfigStore -----------------------------
(***************************************************************************)
(* The two files of an agent's configuration (agent/config.py): the        *)
(* settings with sensor_id and next_sequence, and the runtime token beside *)
(* them.  Each is replaced at once; save replaces the token first, load    *)
(* reads it last.                                                          *)
(*                                                                         *)
(* An identity, 1 or greater, is what one registration hands out; its      *)
(* token carries the same number.  None stands for a missing file or       *)
(* field.                                                                  *)
(***************************************************************************)
EXTENDS Integers

CONSTANT None

ASSUME NoneAssumption ==
    /\ None \notin Nat
    /\ None \notin [id : Nat \cup {None}, seq : Nat]

VARIABLES
    configFile,       \* config.json: [id, seq], or None
    credential        \* the token in credentials.json, or None

configVars == <<configFile, credential>>

(* What AgentConfig.load returns of what it read.                          *)
Config(file, token) == [id |-> file.id, token |-> token, seq |-> file.seq]

(* What init saves.                                                        *)
NewConfig == [id |-> None, token |-> None, seq |-> 1]

(* validate(require_identity=True).                                        *)
HasIdentity(c) == c.id # None /\ c.token # None

(* register: the identity and the token go into what the command loaded.   *)
WithIdentity(c, id) == [c EXCEPT !.id = id, !.token = id]

(* Mutant: the number of the next batch is not saved.                      *)
SaveSettingsOnly(c) ==
    /\ configFile' = [id |-> c.id,
                      seq |-> IF configFile = None THEN c.seq
                              ELSE configFile.seq]
    /\ UNCHANGED credential

(* save, the first file: a missing token removes it.                       *)
SaveCredential(c) ==
    /\ credential' = c.token
    /\ UNCHANGED configFile

(* save, the second file: it never holds the token.                        *)
SaveSettings(c) ==
    /\ configFile' = [id |-> c.id, seq |-> c.seq]
    /\ UNCHANGED credential
==============================================================================
