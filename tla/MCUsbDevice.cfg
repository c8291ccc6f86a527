CONSTANTS
  Override <- MCOverride
  Vendors <- MCVendors
  Products <- MCProducts
SPECIFICATION Spec
INVARIANT ConfiguredAsListed
