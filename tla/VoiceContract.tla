--------------------------- MODULE VoiceContract ----------------------------
(***************************************************************************)
(* Who speaks for us in a conversation, whatever its transactions do       *)
(* (app/services/conversation_flow.py handle_inbound_message,              *)
(* send_follow_up; app/api/admin.py take_over, release).  A turn or a      *)
(* follow-up is given the floor while the AI handles the conversation, and *)
(* with it says one thing at most.  A human who takes the conversation     *)
(* over may still hear those who have the floor, and nobody new.           *)
(***************************************************************************)
EXTENDS Naturals

CONSTANTS Speakers, Topics

VARIABLES
  mode,     \* who handles the conversation
  floor,    \* the speakers that may still say something
  replies,  \* replies[m]: how often the customer was answered m
  chases    \* follow-ups the customer received since they last wrote

voice == <<mode, floor, replies, chases>>

VoiceInit ==
  /\ mode = "ai"
  /\ floor = {}
  /\ replies = [m \in Topics |-> 0]
  /\ chases = 0

TakeFloor(a) ==
  /\ mode = "ai"
  /\ floor' = floor \cup {a}
  /\ UNCHANGED <<mode, replies, chases>>

\* with a message or without
LeaveFloor(a) ==
  /\ floor' = floor \ {a}
  /\ \/ UNCHANGED <<replies, chases>>
     \/ chases' = chases + 1 /\ UNCHANGED replies
     \/ \E m \in Topics : replies' = [replies EXCEPT ![m] = @ + 1] /\ UNCHANGED chases
  /\ UNCHANGED mode

\* the customer writes
Listen == chases' = 0 /\ UNCHANGED <<mode, floor, replies>>

\* the conversation is handed to a human, or given back
HandOver == mode' \in {"ai", "human"} /\ UNCHANGED <<floor, replies, chases>>

VoiceNext ==
  \/ HandOver
  \/ Listen
  \/ \E a \in Speakers \ floor : TakeFloor(a)
  \/ \E a \in floor : LeaveFloor(a)

VoiceSpec == VoiceInit /\ [][VoiceNext]_voice

=============================================================================
