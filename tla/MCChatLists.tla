----------------------------- MODULE MCChatLists -----------------------------
(* ChatLists on a small instance: four chats, one or two of them dialogs,    *)
(* the last perhaps a channel, of an unknown type or one that does not parse. *)
EXTENDS ChatLists, TLC

Typings ==
  {1 :> "DIALOG" @@ 2 :> "CHAT" @@ 3 :> "CHANNEL" @@ 4 :> k : k \in Kinds \ {"CHAT"}}
=============================================================================
