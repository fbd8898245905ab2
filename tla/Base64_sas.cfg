SPECIFICATION Spec
CONSTANTS
  Uses = {"sas_mac"}
  Inputs <- Macs
INVARIANT ResultIsBase64
CHECK_DEADLOCK FALSE
