----------------------------- MODULE MCSessions -----------------------------
(* Instances of Sessions for TLC: requests are interchangeable.            *)
EXTENDS Sessions, TLC

RequestSymmetry == Permutations(Requests)

\* Writers of the account row against log-ins and refreshes, without a device.
AccountKindsMC == {"login", "refresh", "password", "recover", "secondFactor",
                   "profile", "status"}

\* Removals of devices and of the account against log-ins and refreshes.
DeviceKindsMC == {"login", "refresh", "deleteDevice", "signOutAll", "deleteUser"}

\* A password change against one other write of the row.
StaleWriteKinds == {"login", "password", "profile"}

\* A log-in against the removal of its device.
RemovedDeviceKinds == {"login", "deleteDevice"}
=============================================================================
