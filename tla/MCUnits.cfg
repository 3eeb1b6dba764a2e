SPECIFICATION UnitsSpec
CONSTANTS
  Bits = 4
  Geometries <- MCGeometries
  Addresses <- MCAddresses
INVARIANTS
  ShiftsAndBits
  SignsAgree
  ProductsAndQuotients
  BytesKeepTheirPlace
  AddressesAreBlockAndWord
  BlocksAreInOneRow
