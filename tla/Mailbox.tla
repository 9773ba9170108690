------------------------------ MODULE Mailbox ------------------------------
(***************************************************************************)
(* What the prompt thread and the engine thread rely on: the memory they    *)
(* share (the array of messages, its length, the backend, the dll flag and  *)
(* dll.so) belongs to one of them at a time, passes to the engine with a    *)
(* request and comes back with the reply.  A step of the prompt leaves the  *)
(* engine's own state alone and writes the shared memory only while the     *)
(* prompt owns it; a step of the engine likewise.  What a thread does with  *)
(* its own state is left open.                                              *)
(***************************************************************************)
CONSTANT Mail        \* the contents the shared memory can have

VARIABLES owner,     \* "prompt" or "engine"
          mail,      \* the shared memory
          prompt,    \* the prompt's own state
          engine     \* the engine's own state

mailboxVars == <<owner, mail, prompt, engine>>

MailboxInit == owner = "prompt" /\ mail \in Mail

\* The prompt prepares the next request.
Compose ==
  /\ owner = "prompt"
  /\ mail' \in Mail
  /\ UNCHANGED <<owner, engine>>

\* The prompt hands the request over, as it stands.
Deliver ==
  /\ owner = "prompt"
  /\ owner' = "engine"
  /\ UNCHANGED <<mail, engine>>

\* The prompt does something else.
PromptAlone == UNCHANGED <<owner, mail, engine>>

\* The engine works on the request.
Consume ==
  /\ owner = "engine"
  /\ mail' \in Mail
  /\ UNCHANGED <<owner, prompt>>

\* The engine replies.
Reply ==
  /\ owner = "engine"
  /\ owner' = "prompt"
  /\ UNCHANGED <<mail, prompt>>

\* The engine does something else.
EngineAlone == UNCHANGED <<owner, mail, prompt>>

MailboxNext ==
  \/ Compose \/ Deliver \/ PromptAlone
  \/ Consume \/ Reply \/ EngineAlone

MailboxSpec == MailboxInit /\ [][MailboxNext]_mailboxVars
=============================================================================
