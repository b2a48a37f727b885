-------------------------- MODULE MCConfigDelivery --------------------------
(***************************************************************************)
(* Instances of ConfigDelivery for TLC.                                    *)
(***************************************************************************)
EXTENDS ConfigDelivery, TLC

CONSTANTS g, f, w, apps, tags, x, y

PutFactory == [id |-> 1, kind |-> "put", level |-> "factory", files |-> f :> x]
UpdatesGroup ==
  [id |-> 2, kind |-> "updates", level |-> g, files |-> Sota :> (apps :> x @@ tags :> x)]
SetGroup == [id |-> 3, kind |-> "set", level |-> g, files |-> f :> y]
PutNothing == [id |-> 4, kind |-> "put", level |-> "device", files |-> NoFiles]
EditDevice == [id |-> 5, kind |-> "edit", level |-> "device", files |-> Sota :> (apps :> y)]
RemoveDevice == [id |-> 6, kind |-> "remove", level |-> "device", files |-> w :> x]
PatchDevice == [id |-> 7, kind |-> "patch", level |-> "device", files |-> w :> x]
SetBad == [id |-> 8, kind |-> "put", level |-> g, files |-> Sota :> BadToml]
PatchAgain == [id |-> 9, kind |-> "patch", level |-> "device", files |-> w :> x]

MCChanges ==
  {PutFactory, UpdatesGroup, SetGroup, PutNothing, EditDevice, RemoveDevice, PatchDevice,
   SetBad, PatchAgain}

\* Changes of two levels, of the sota override on two levels, of one config twice, of
\* one that changes nothing, and of a sota override that does not parse.
MCScenarios ==
  {{PutFactory, PatchDevice}, {SetGroup, PutFactory}, {UpdatesGroup, EditDevice},
   {PutNothing, PatchDevice}, {RemoveDevice, PatchDevice},
   {PatchDevice, PatchAgain}, {SetBad, UpdatesGroup}}

\* A backup from the second second, with a sota override for the device.
MCArchives ==
  {(g :> [files |-> Sota :> (apps :> x), at |-> 2]) @@
   ("factory" :> [files |-> f :> y, at |-> 2]) @@
   ("device" :> [files |-> Sota :> (apps :> y), at |-> 1])}

=============================================================================
