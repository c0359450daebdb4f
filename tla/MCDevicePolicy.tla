---------------------------- MODULE MCDevicePolicy ----------------------------
(***************************************************************************)
(* An instance of DevicePolicy for TLC: a hub in port 2 with the boot      *)
(* stick behind it, a free port beside the stick and one at the root, and  *)
(* a device of each kind the rules tell apart.                             *)
(***************************************************************************)
EXTENDS DevicePolicy, TLC

MCBusids == {<<1>>, <<2>>, <<2, 1>>, <<2, 2>>}
MCMounted == {<<2, 1>>}
MCModels == {"stick", "hub", "wheel", "keyboard", "headset", "speakers", "dongle"}

MCAtBoot ==
    [b \in MCBusids |->
        CASE b = <<2>> -> "hub"
          [] b = <<2, 1>> -> "stick"
          [] OTHER -> Nothing]

Plain(class, model) == [classes |-> {class}, bootHid |-> FALSE, pcm |-> {}, hwid |-> model]

MCDescribe ==
    [model \in MCModels |->
        CASE model = "stick" -> Plain("storage", model)
          [] model = "hub" -> Plain("hub", model)
          [] model = "wheel" -> Plain("hid", NoId)
          [] model = "keyboard" -> [Plain("hid", model) EXCEPT !.bootHid = TRUE]
          [] model = "headset" -> [Plain("audio", model) EXCEPT !.pcm = {"c", "p"}]
          [] model = "speakers" -> [Plain("audio", model) EXCEPT !.pcm = {"p"}]
          [] model = "dongle" -> Plain("net", model)]

MCLists == {{}, {"stick"}, {"keyboard", "headset"}}

Inet == {"inet"}
BothFamilies == {"inet", "inet6"}
===============================================================================
