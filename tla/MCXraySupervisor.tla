-------------------------- MODULE MCXraySupervisor --------------------------
(* XraySupervisor on small instances.  One Shadowsocks cipher is enough for *)
(* the ladder to have a rung below `plain`.                                 *)
EXTENDS XraySupervisor
OneCipher == <<"ss1">>
Everything == {"warp", "direct", "adv", "tg"}
=============================================================================
