\* Two requests at a time, any two of the handlers, a device that comes and goes.
SPECIFICATION Spec
CONSTANTS
  Clients = {c1, c2}
  Devices = {"nvme0"}
INVARIANTS KernelSerialised NotFoundIsTrue
