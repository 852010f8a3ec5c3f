SPECIFICATION Spec
CONSTANTS
  CurrentAddr <- Address
  TblPrefix <- Prefixes
  TblOneOpcode <- OneOpcodes
  TblTwoOpcode <- Twos
  TblThreeOpcode <- Threes
  TblExtOne <- Groups
  TblExtTwo <- Groups2
  TblExtThree <- Groups3
  TblFpu <- Floats
  TblModrm <- Modrms
  TblSib <- SibTable
  TblItemType <- ItemTypes
  TblItemLtype <- ItemLtypes
  Encodings <- Written
INVARIANTS Decoded Measured
CHECK_DEADLOCK FALSE
