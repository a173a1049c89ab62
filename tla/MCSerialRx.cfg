CONSTANTS
  UART_RX_BUFFER_SIZE = 4
  MaxRequest = 3
  MaxArrivals = 9
SPECIFICATION Spec
INVARIANTS FreshestBytes ReadInOrder
PROPERTIES LossOnlyAtCapacity ImplementsFifo
